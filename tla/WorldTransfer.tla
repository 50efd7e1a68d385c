---------------------------- MODULE WorldTransfer ----------------------------
(***************************************************************************)
(* World entry, repeatable world transfers and the loading card            *)
(* (crates/runtime application/world_transfer.rs,                          *)
(* client_services/world_transfer.rs, client_services.rs,                  *)
(* loading/loading_screen.rs), composed with terrain residency.            *)
(*                                                                         *)
(* at walks one frame of the main thread in source order; an error that    *)
(* the frame loop records as recoverable jumps to presentation.  The       *)
(* server is external: it moves the player between maps, waits for one     *)
(* acknowledgement per NEW_WORLD and then creates the player.              *)
(* Bounds: MaxTransfers transfers, MaxEntries character logins, MaxFaults  *)
(* recoverable interface errors.  TerrainLoop adds the player's own moves. *)
(***************************************************************************)
EXTENDS TerrainResidency, Sequences, FiniteSets

CONSTANTS
    MaxTransfers, MaxEntries, MaxFaults,
    EarlyTransfers  \* the server may announce or deny a transfer while the
                    \* world is still behind its loading card

ASSUME TransferAssumption ==
    /\ MaxTransfers \in Nat /\ MaxEntries \in Nat /\ MaxFaults \in Nat
    /\ EarlyTransfers \in BOOLEAN

VARIABLES
    at,             \* where the main thread is in its frame
    destination,    \* the shared destination slot
    scheduled,      \* scheduled_callbacks
    loading,        \* the replacement whose map is loading
    awaiting,       \* awaiting_destination
    entering,       \* entering_world
    card,           \* loading_screen
    ui,             \* world_ui is Some
    player,         \* the local player: absent, created, or ready to be drawn
    entry,          \* a world entry is in flight
    wire,           \* packets of the world server not yet dispatched
    server,         \* what the server remembers of this session
    spent           \* how much of each bound is used

transferVars == <<destination, scheduled, loading, awaiting, entering>>
sceneVars == <<card, ui, player, entry>>
clientVars == <<terrainVars, transferVars, sceneVars, at, wire, server, spent>>

FreshCard == [shown |-> FALSE, ready |-> FALSE, final |-> FALSE]
Packet(kind, where) == [kind |-> kind, at |-> where]
Offline == [live |-> FALSE, unacked |-> 0, offered |-> FALSE, owed |-> FALSE, map |-> None]
Bounds == [transfers |-> MaxTransfers, entries |-> MaxEntries, faults |-> MaxFaults]

Packets == [kind: {"pending", "aborted", "new", "verify", "create", "end"},
            at: Locations \union {None}]
Replacements == [at: Locations, ack: BOOLEAN]
Cards == [shown: BOOLEAN, ready: BOOLEAN, final: BOOLEAN]

ASSUME AbsenceAssumption == None \notin Replacements \union Cards

TransferTypeOK ==
    /\ TerrainTypeOK
    /\ at \in {"session", "batch", "terrain", "ui", "stream", "finish", "present"}
    /\ destination \in Locations \union {None}
    /\ scheduled \in 0..MaxTransfers
    /\ loading \in Replacements \union {None}
    /\ awaiting \in BOOLEAN /\ entering \in BOOLEAN
    /\ card \in Cards \union {None}
    /\ ui \in BOOLEAN /\ player \in {"absent", "created", "ready"} /\ entry \in BOOLEAN
    /\ wire \in Seq(Packets)
    /\ server \in [live: BOOLEAN, unacked: 0..MaxTransfers, offered: BOOLEAN, owed: BOOLEAN,
                   map: Maps \union {None}]
    /\ spent \in [DOMAIN Bounds -> Nat] /\ \A b \in DOMAIN Bounds : spent[b] <= Bounds[b]
    /\ world = None => loading = None /\ scheduled = 0 /\ ~awaiting /\ ~entering

TransferInit ==
    /\ TerrainInit
    /\ at = "session"
    /\ destination = None /\ scheduled = 0 /\ loading = None
    /\ awaiting = FALSE /\ entering = FALSE
    /\ card = None /\ ui = FALSE /\ player = "absent" /\ entry = FALSE
    /\ wire = <<>> /\ server = Offline
    /\ spent = [b \in DOMAIN Bounds |-> 0]

CanSpend(b) == spent[b] < Bounds[b]
Spend(b) == CanSpend(b) /\ spent' = [spent EXCEPT ![b] = @ + 1]

\* The step goes on to next, or surfaces a recoverable interface error, which
\* ends service_login for this frame.
GoOn(next) == at' = next /\ UNCHANGED spent
Surfaces == at' = "present" /\ Spend("faults")
GoOnOrSurface(next) == GoOn(next) \/ (ui /\ Surfaces)

-----------------------------------------------------------------------------
(* The session *)

\* EnterWorld of a character whose directory says it stands at hint.
RequestEntry ==
    \E hint \in Locations, room \in BOOLEAN :
        /\ at = "session" /\ world = None /\ ~entry /\ card = None
        /\ Spend("entries")
        /\ Prewarm(hint, room)
        /\ ui' = FALSE /\ card' = FreshCard /\ entry' = TRUE
        /\ UNCHANGED <<transferVars, player, at, wire, server>>

\* LOGIN_VERIFY_WORLD: the world is published where the server says.
Entered ==
    \E where \in Locations :
        /\ at = "session" /\ entry
        /\ world' = where /\ entry' = FALSE /\ player' = "absent"
        /\ server' = [Offline EXCEPT !.live = TRUE, !.owed = TRUE, !.map = where.map]
        /\ UNCHANGED <<epoch, active, window, pending, pendingStream, prefetched, frame, uploaded,
                       over, transferVars, card, ui, at, wire, spent>>

\* CharacterRejected, and the failures of the entry.
Rejected ==
    /\ at = "session" /\ entry
    /\ entry' = FALSE /\ card' = None
    /\ UNCHANGED <<terrainVars, transferVars, ui, player, at, wire, server, spent>>

-----------------------------------------------------------------------------
(* service_world_transfers *)

\* Defect: the leaving event's error returns before the owners are replaced.
Replace_EarlyReturn(where, ack) ==
    /\ loading' = [at |-> where, ack |-> ack]
    /\ awaiting' = FALSE /\ entering' = TRUE
    /\ \/ /\ Disconnect /\ frame' = None /\ UNCHANGED uploaded
          /\ world' = where /\ player' = "absent" /\ GoOn("terrain")
       \/ /\ ui /\ Surfaces
          /\ UNCHANGED <<terrainVars, player>>
    /\ UNCHANGED <<card, ui, entry, server>>

\* start_replacement and begin_world_replacement.  The leaving event's error
\* is surfaced after every owner has been replaced.
Replace(where, ack) ==
    /\ loading' = [at |-> where, ack |-> ack]
    /\ awaiting' = FALSE /\ entering' = TRUE
    /\ Disconnect
    /\ frame' = None /\ UNCHANGED uploaded
    /\ world' = where /\ player' = "absent"
    /\ GoOnOrSurface("terrain")
    /\ UNCHANGED <<card, ui, entry, server>>

TakeDeferred ==
    /\ loading = None /\ scheduled > 0
    /\ \/ at = "session"
       \/ at = "batch" /\ wire = <<>>
    /\ scheduled' = scheduled - 1
    /\ Replace(destination, TRUE)
    /\ UNCHANGED <<destination, wire>>

\* Packet dispatch is suspended while a map loads.
SkipDispatch ==
    /\ at = "session" /\ loading # None
    /\ GoOn("terrain")
    /\ UNCHANGED <<terrainVars, transferVars, sceneVars, wire, server>>

BeginBatch ==
    /\ at = "session" /\ loading = None /\ scheduled = 0
    /\ GoOn("batch")
    /\ UNCHANGED <<terrainVars, transferVars, sceneVars, wire, server>>

EndBatch ==
    /\ at = "batch" /\ wire = <<>> /\ scheduled = 0
    /\ GoOn("terrain")
    /\ UNCHANGED <<terrainVars, transferVars, sceneVars, wire, server>>

\* publish_player_ui_notifications fails between two packets.
BatchFault ==
    /\ at = "batch" /\ wire # <<>> /\ ui /\ Surfaces
    /\ UNCHANGED <<terrainVars, transferVars, sceneVars, wire, server>>

Dispatch(kind) ==
    /\ at = "batch" /\ wire # <<>>
    /\ Head(wire).kind = kind
    /\ wire' = Tail(wire)

ReceivePending ==
    /\ Dispatch("pending")
    /\ awaiting' = TRUE /\ card' = FreshCard
    /\ UNCHANGED <<terrainVars, destination, scheduled, loading, entering, ui, player, entry,
                   at, server, spent>>

\* The denial message may fail; the card is gone either way.
ReceiveAborted ==
    /\ Dispatch("aborted")
    /\ awaiting' = FALSE /\ card' = None
    /\ GoOnOrSurface("batch")
    /\ UNCHANGED <<terrainVars, destination, scheduled, loading, entering, ui, player, entry, server>>

\* Defect: a NEW_WORLD that replaces an undelivered one joins its callback.
ReceiveNew_Coalesces ==
    /\ Dispatch("new")
    /\ destination' = Head(wire).at
    /\ scheduled' = 1
    /\ UNCHANGED <<terrainVars, loading, awaiting, entering, sceneVars, at, server, spent>>

ReceiveNew ==
    /\ Dispatch("new")
    /\ destination' = Head(wire).at
    /\ scheduled' = scheduled + 1
    /\ UNCHANGED <<terrainVars, loading, awaiting, entering, sceneVars, at, server, spent>>

ReceiveVerify ==
    /\ Dispatch("verify")
    /\ LET where == Head(wire).at
       IN  \/ /\ where.map = world.map
              /\ UNCHANGED <<terrainVars, transferVars, sceneVars, at, server, spent>>
           \/ /\ where.map # world.map
              /\ destination' = where /\ UNCHANGED scheduled
              /\ Replace(where, FALSE)

\* The objects of the new map arrive, the local player among them.
ReceiveCreate ==
    /\ Dispatch("create")
    /\ player' = IF player = "absent" THEN "created" ELSE player
    /\ UNCHANGED <<terrainVars, transferVars, card, ui, entry, at, server, spent>>

\* Logout and connection loss both retire the world.
ReceiveEnd ==
    /\ Dispatch("end")
    /\ Disconnect
    /\ world' = None
    /\ frame' = None /\ uploaded' = uploaded \ Plans(frame)
    /\ destination' = None /\ scheduled' = 0 /\ loading' = None
    /\ awaiting' = FALSE /\ entering' = FALSE
    /\ card' = None /\ ui' = FALSE /\ player' = "absent"
    /\ server' = Offline
    /\ GoOnOrSurface("terrain")
    /\ UNCHANGED entry

-----------------------------------------------------------------------------
(* The rest of the frame *)

ServiceTerrain ==
    \E room \in BOOLEAN :
        /\ at = "terrain"
        /\ Synchronize(room)
        /\ GoOn("ui")
        /\ UNCHANGED <<transferVars, sceneVars, wire, server>>

\* Defect: FrameXML waits for the card it completes.
CanPrepareUi_ReadyCard ==
    /\ ~ui /\ world # None /\ player # "absent"
    /\ card # None /\ card.ready

CanPrepareUi ==
    /\ ~ui /\ world # None /\ player # "absent"
    /\ card # None /\ card.shown

\* prepare_world_ui_if_ready; a failed preparation is retried next frame.
PrepareUi ==
    /\ at = "ui" /\ CanPrepareUi
    /\ \/ ui' = TRUE /\ GoOn("stream")
       \/ UNCHANGED ui /\ Surfaces
    /\ UNCHANGED <<terrainVars, transferVars, card, player, entry, wire, server>>

SkipUi ==
    /\ at = "ui" /\ ~CanPrepareUi
    /\ GoOn("stream")
    /\ UNCHANGED <<terrainVars, transferVars, sceneVars, wire, server>>

\* The player's model, the environment and the transport become resident.
PlayerReady ==
    /\ at = "stream" /\ player = "created"
    /\ player' = "ready"
    /\ UNCHANGED <<terrainVars, transferVars, card, ui, entry, at, wire, server, spent>>

StreamTerrain ==
    \E w \in SUBSET Tiles, room \in BOOLEAN :
        /\ at = "stream"
        /\ Streaming(w, room)
        /\ GoOn("finish")
        /\ UNCHANGED <<transferVars, sceneVars, wire, server>>

\* No environment, no camera, or a map without tiles.
SkipStream ==
    /\ at = "stream"
    /\ GoOn("finish")
    /\ UNCHANGED <<terrainVars, transferVars, sceneVars, wire, server>>

\* complete_world_transfer_map: room is the writer's answer to the ACK.
MapComplete(room) == loading # None /\ frame # None /\ (loading.ack => room)

HoldsCard == awaiting \/ loading' # None \/ scheduled # 0

\* Defect: completion does not wait for the player.
CompletesPlayer_NoPlayer == entering /\ frame # None /\ ui /\ ~HoldsCard

CompletesPlayer == entering /\ player = "ready" /\ frame # None /\ ui /\ ~HoldsCard

SceneReady == world # None /\ ~HoldsCard /\ player = "ready" /\ frame # None /\ ui

\* complete_world_transfer_map, complete_player and the card's advance; an
\* error of the entering events leaves the card as it is.
FinishService ==
    \E room \in BOOLEAN :
        /\ at = "finish"
        /\ loading' = IF MapComplete(room) THEN None ELSE loading
        /\ server' = IF MapComplete(room) /\ loading.ack
                     THEN [server EXCEPT !.unacked = @ - 1] ELSE server
        /\ entering' = (entering /\ ~CompletesPlayer)
        /\ \/ /\ card' = IF card = None THEN None ELSE [card EXCEPT !.ready = @ \/ SceneReady]
              /\ GoOn("present")
           \/ /\ CompletesPlayer /\ Surfaces
              /\ UNCHANGED card
        /\ UNCHANGED <<terrainVars, destination, scheduled, awaiting, ui, player, entry, wire>>

CardDone == card # None /\ card.ready /\ card.final

\* present_frame with a visible window.
PresentFrame ==
    /\ at = "present"
    /\ card' = IF card = None \/ CardDone THEN None
               ELSE [card EXCEPT !.shown = TRUE, !.final = card.ready]
    /\ GoOn("session")
    /\ UNCHANGED <<terrainVars, transferVars, ui, player, entry, wire, server>>

\* present_frame with a minimised window.
Suspended ==
    /\ at = "present"
    /\ GoOn("session")
    /\ UNCHANGED <<terrainVars, transferVars, sceneVars, wire, server>>

-----------------------------------------------------------------------------
(* The world server, as far as the client depends on it *)

Sends(kind, where) == wire' = Append(wire, Packet(kind, where))

\* present_frame draws the world rather than a card or its last frame.
Revealed == world # None /\ ~entering /\ (card = None \/ CardDone)

\* Packets are read only while a batch is dispatched, so those that arrive
\* during a frame are there when the next one begins.
Outside == at = "session" /\ server.live

ServerPending ==
    /\ Outside /\ server.unacked = 0 /\ ~server.owed /\ ~server.offered
    /\ EarlyTransfers \/ Revealed
    /\ Spend("transfers")
    /\ Sends("pending", None)
    /\ server' = [server EXCEPT !.offered = TRUE]
    /\ UNCHANGED <<terrainVars, transferVars, sceneVars, at>>

ServerAborts ==
    /\ Outside
    /\ \/ server.offered /\ UNCHANGED spent
       \/ EarlyTransfers /\ ~server.offered /\ Spend("transfers")
    /\ Sends("aborted", None)
    /\ server' = [server EXCEPT !.offered = FALSE]
    /\ UNCHANGED <<terrainVars, transferVars, sceneVars, at>>

ServerMoves ==
    \E where \in Locations :
        /\ Outside
        /\ \/ server.offered /\ UNCHANGED spent
           \/ ~server.offered /\ Spend("transfers")
        /\ Sends("new", where)
        /\ server' = [server EXCEPT !.unacked = @ + 1, !.offered = FALSE, !.owed = TRUE,
                                    !.map = where.map]
        /\ UNCHANGED <<terrainVars, transferVars, sceneVars, at>>

ServerVerifies ==
    \E where \in Locations :
        /\ Outside /\ server.unacked = 0 /\ ~server.offered
        /\ Spend("transfers")
        /\ Sends("verify", where)
        /\ server' = [server EXCEPT !.owed = @ \/ where.map # server.map, !.map = where.map]
        /\ UNCHANGED <<terrainVars, transferVars, sceneVars, at>>

\* The player is created on a map only when every NEW_WORLD is acknowledged.
ServerCreates ==
    /\ Outside /\ server.unacked = 0 /\ server.owed
    /\ Sends("create", None)
    /\ server' = [server EXCEPT !.owed = FALSE]
    /\ UNCHANGED <<terrainVars, transferVars, sceneVars, at, spent>>

ServerEnds ==
    /\ Outside
    /\ Sends("end", None)
    /\ server' = [server EXCEPT !.live = FALSE]
    /\ UNCHANGED <<terrainVars, transferVars, sceneVars, at, spent>>

-----------------------------------------------------------------------------

WorkerEnds == at \in {"session", "stream"} /\ JobDone /\ UNCHANGED <<transferVars, sceneVars, at, wire, server, spent>>

Service ==
    \/ TakeDeferred \/ SkipDispatch \/ BeginBatch \/ EndBatch
    \/ ReceivePending \/ ReceiveAborted \/ ReceiveNew \/ ReceiveVerify \/ ReceiveCreate \/ ReceiveEnd
    \/ ServiceTerrain \/ PrepareUi \/ SkipUi \/ StreamTerrain \/ SkipStream
    \/ FinishService \/ PresentFrame \/ Suspended

Events == RequestEntry \/ Entered \/ Rejected \/ BatchFault \/ PlayerReady

Server ==
    ServerPending \/ ServerAborts \/ ServerMoves \/ ServerVerifies \/ ServerCreates \/ ServerEnds

TransferNext == ~over /\ (Service \/ Events \/ WorkerEnds \/ Server)

TransferSpec == TransferInit /\ [][TransferNext]_clientVars

\* What the frame loop waits for: the worker, the player's resources, and a
\* server that answers the login, resolves what it announced and creates the
\* player it owes.
Duties ==
    \/ WorkerEnds \/ PlayerReady \/ Entered \/ Rejected \/ ServerCreates
    \/ server.offered /\ (ServerAborts \/ ServerMoves)

\* The frame loop runs; the CPU pool and the writer have room and the window
\* is visible again and again.  Each of the Duties can be done only finitely
\* often, so one fairness condition covers them all.
TransferFairness ==
    /\ WF_clientVars(~over /\ Service)
    /\ SF_clientVars(~over /\ Duties)
    /\ SF_clientVars(~over /\ Synchronize(TRUE) /\ ServiceTerrain)
    /\ SF_clientVars(~over /\ FinishService /\ (loading # None /\ frame # None => loading' = None))
    /\ SF_clientVars(~over /\ PresentFrame)

FairTransferSpec == TransferSpec /\ TransferFairness

-----------------------------------------------------------------------------
(* Properties *)

\* Every NEW_WORLD gets one acknowledgement of its own: those the server still
\* waits for are on the wire, scheduled or being loaded ("schedules every
\* callback", docs/architecture/world-transfers.md).
CallbacksAccounted ==
    world # None =>
        server.unacked = Cardinality({i \in DOMAIN wire : wire[i].kind = "new"}) + scheduled
                         + (IF loading # None /\ loading.ack THEN 1 ELSE 0)

\* An acknowledgement is sent only once the destination's own terrain, of the
\* current ownership generation, is published to the renderer.
AckMeansDestination ==
    [][world' # None /\ server'.unacked < server.unacked =>
        /\ frame # None
        /\ \A g \in frame.tiles : g.map = loading.at.map /\ g.epoch = epoch]_clientVars

\* A card opened for an announced transfer stays up and is never completed
\* against the old world's ready player and scene.
PendingCardHeld == awaiting => card # None /\ ~card.ready

\* Whenever the frame draws the world, FrameXML, the player and terrain of the
\* published map are all there.
RevealedWorldComplete ==
    at = "present" /\ Revealed =>
        ui /\ player = "ready" /\ frame # None /\ frame.map = world.map

\* The card hides the old world until the new one is whole.
CardHidesTransfer == PendingCardHeld /\ RevealedWorldComplete

\* A loading card eventually goes and a replaced world is eventually entered:
\* the interface, the card, the player and the server never wait for each
\* other in a circle.
LoadingEnds == card # None \/ entering ~> over \/ (card = None /\ ~entering)
=============================================================================
