-------------------------- MODULE TerrainResidency --------------------------
(***************************************************************************)
(* Terrain residency (crates/runtime application/terrain_coordinator.rs    *)
(* and terrain_coordinator/streaming.rs) and its renderer-side image       *)
(* (application/terrain_frame/streaming.rs, the publication arms of        *)
(* client_services.rs).                                                    *)
(*                                                                         *)
(* One archive reader travels with at most one job: pending prepares the   *)
(* tile under the player, pendingStream a neighbour.  A job that finishes  *)
(* is joined by a later frame, by which time the world, the tile or the    *)
(* ownership generation may have changed.  epoch counts the calls of       *)
(* disconnect; every resident tile remembers the epoch it was asked in, so *)
(* a tile of an earlier ownership generation can be told from its         *)
(* successor with the same key.                                            *)
(* Bounds: the sets of maps and tiles; the operations are taken by the     *)
(* module that EXTENDS this one.                                           *)
(***************************************************************************)
EXTENDS Integers

CONSTANTS
    Maps,           \* Map.dbc rows
    GlobalMaps,     \* the maps that are one WDT-level world model
    Tiles,          \* ADT coordinates that exist on the tiled maps
    None            \* Option::None

ASSUME TerrainAssumption == GlobalMaps \subseteq Maps

VARIABLES
    world,          \* gameplay.world(): the map and the player's tile
    epoch,          \* history: number of ownership generations ended
    active,         \* the resident generation and its neighbours
    window,         \* streaming: tiles of the camera's loading window
    pending,        \* the job for the player's tile
    pendingStream,  \* the job for a neighbour
    prefetched,     \* a finished prewarm nobody has asked for yet
    frame,          \* terrain_frame
    uploaded,       \* tile generations the renderer's registries hold
    over            \* a terrain error ended the client

terrainVars == <<world, epoch, active, window, pending, pendingStream, prefetched, frame, uploaded, over>>

Locations == [map: Maps, tile: Tiles]

Generations == [map: Maps, tile: Tiles \union {None}, epoch: Nat]
Residents == [map: Maps, primary: Tiles \union {None}, tiles: SUBSET Generations]
Jobs == [at: Locations, epoch: Nat, retain: BOOLEAN, eligible: BOOLEAN,
         state: {"running", "ready", "failed"}]

ASSUME NoneAssumption == None \notin Tiles \union Locations \union Residents \union Jobs

\* A primary tile, or none on a world-model map, with its neighbours.
IsResident(r) ==
    /\ r \in Residents
    /\ \A g, h \in r.tiles : g.tile = h.tile => g = h
    /\ \A g \in r.tiles : g.map = r.map
    /\ \E g \in r.tiles : g.tile = r.primary

TerrainTypeOK ==
    /\ world \in Locations \union {None}
    /\ epoch \in Nat
    /\ active = None \/ IsResident(active)
    /\ frame = None \/ IsResident(frame)
    /\ window \in (SUBSET Tiles) \union {None}
    /\ pending = None \/ pending \in Jobs
    /\ pendingStream = None \/ pendingStream \in Jobs
    /\ prefetched = None \/ prefetched \in [at: Locations, epoch: Nat]
    /\ over \in BOOLEAN

TerrainInit ==
    /\ world = None /\ epoch = 0
    /\ active = None /\ window = None
    /\ pending = None /\ pendingStream = None /\ prefetched = None
    /\ frame = None /\ uploaded = {} /\ over = FALSE

-----------------------------------------------------------------------------
(* Jobs *)

Submit(at, retain) ==
    [at |-> at, epoch |-> epoch, retain |-> retain, eligible |-> TRUE, state |-> "running"]

Finished(job) == job # None /\ job.state # "running"

\* Defect: only a job that may still be published is joined.
Unjoined_Eligible(job) == IF Finished(job) /\ job.eligible THEN None ELSE job

Unjoined(job) == IF Finished(job) THEN None ELSE job
Ineligible(job) ==
    IF job = None THEN None ELSE [job EXCEPT !.retain = FALSE, !.eligible = FALSE]

\* prepare_terrain_on_worker: the worker finishes the job it was given.
JobDone ==
    \E result \in {"ready", "failed"} :
        /\ \/ /\ pending # None /\ pending.state = "running"
              /\ pending' = [pending EXCEPT !.state = result]
              /\ UNCHANGED pendingStream
           \/ /\ pendingStream # None /\ pendingStream.state = "running"
              /\ pendingStream' = [pendingStream EXCEPT !.state = result]
              /\ UNCHANGED pending
        /\ UNCHANGED <<world, epoch, active, window, prefetched, frame, uploaded, over>>

Generation(at, e) ==
    [map |-> at.map, tile |-> IF at.map \in GlobalMaps THEN None ELSE at.tile, epoch |-> e]

Resident(from) ==
    LET g == Generation(from.at, from.epoch)
    IN  [map |-> g.map, primary |-> g.tile, tiles |-> {g}]

TileAt(resident, tile) == {g \in resident.tiles : g.tile = tile}

Satisfies(resident, at) ==
    /\ resident # None /\ resident.map = at.map
    /\ resident.primary \in {None, at.tile}

-----------------------------------------------------------------------------
(* poll_stream_completion, as the first thing every entry point does.  It   *)
(* reads the demand after retire_streaming, which the entry points call     *)
(* when there is no world or the resident map is another one.               *)

Retires == world = None \/ (active # None /\ active.map # world.map)
Kept == IF world = None THEN None ELSE active
Demand == IF Retires THEN None ELSE window
Stream == IF Retires THEN Ineligible(pendingStream) ELSE pendingStream

StreamJoins ==
    /\ Finished(Stream) /\ Stream.eligible
    /\ Kept # None /\ Kept.map = Stream.at.map
    /\ Demand # None /\ Stream.at.tile \in Demand

StreamFails == StreamJoins /\ Stream.state = "failed"

\* The residents after the poll.
Polled ==
    IF StreamJoins /\ Stream.state = "ready" /\ TileAt(Kept, Stream.at.tile) = {}
    THEN [Kept EXCEPT !.tiles = @ \union {Generation(Stream.at, Stream.epoch)}]
    ELSE Kept

-----------------------------------------------------------------------------
(* Publication into the renderer *)

\* The ADT plans a frame has uploaded; world models have a lifetime of their own.
Plans(f) == IF f = None THEN {} ELSE {g \in f.tiles : g.tile # None}

\* Defect: synchronize_tiles forgets to retire the departed tiles.
ShowFrame_Grows(f) ==
    /\ frame' = IF frame = None THEN f ELSE [f EXCEPT !.tiles = @ \union frame.tiles]
    /\ uploaded' = uploaded \union Plans(f)

\* synchronize_tiles uploads what is new and retires what departed.
ShowFrame(f) ==
    /\ frame' = f
    /\ uploaded' = (uploaded \ Plans(frame)) \union Plans(f)

\* TileLoaded and GlobalWorldModelLoaded: a frame of another map is replaced
\* by one that knows the primary tile only.
Publish(resident) ==
    /\ active' = resident
    /\ ShowFrame(IF frame # None /\ frame.map = resident.map THEN resident
                 ELSE [resident EXCEPT !.tiles = TileAt(resident, resident.primary)])

\* publish_active keeps the neighbours of the same map that the camera wants.
Adopt(resident) ==
    IF Polled # None /\ Polled.map = resident.map /\ resident.primary # None /\ Demand # None
    THEN [resident EXCEPT !.tiles = @ \union
            {g \in Polled.tiles : g.tile \in Demand \ {resident.primary}}]
    ELSE resident

-----------------------------------------------------------------------------
(* The operations of the coordinator *)

\* prewarm_location, called while there is no world; room is the CPU pool's
\* answer.  A failure here is only logged.
Prewarm(at, room) ==
    LET current == pending # None /\ pending.eligible /\ pending.at = at
        running == pending # None /\ pending.state = "running"
        known == \/ Unjoined(pendingStream) # None
                 \/ Satisfies(active, at)
                 \/ prefetched # None /\ prefetched.at = at
    IN  /\ pendingStream' = Unjoined(pendingStream)
        /\ pending' = CASE known -> pending
                        [] ~known /\ current -> [pending EXCEPT !.retain = TRUE]
                        [] ~known /\ ~current /\ running -> pending
                        [] OTHER -> IF room THEN Submit(at, TRUE) ELSE None
        /\ UNCHANGED <<world, epoch, active, window, prefetched, frame, uploaded, over>>

\* synchronize_async without a world: everything resident goes, a finished
\* prewarm is kept for the entry it was started for.
SyncIdle ==
    /\ world = None
    /\ active' = None /\ window' = None
    /\ pendingStream' = Unjoined(Stream)
    /\ pending' = Unjoined(pending)
    /\ prefetched' = IF Finished(pending) /\ pending.retain /\ pending.state = "ready"
                     THEN [at |-> pending.at, epoch |-> pending.epoch] ELSE prefetched
    /\ ShowFrame(None)
    /\ UNCHANGED <<world, epoch, over>>

\* A terrain error is not recoverable: the frame loop returns it.
Exit == over' = TRUE /\ UNCHANGED <<world, epoch, active, window, pending,
                                    pendingStream, prefetched, frame, uploaded>>

PrefetchHit == prefetched # None /\ prefetched.at = world
Promotes ==
    /\ Polled # None /\ Polled.map = world.map
    /\ Polled.primary # None /\ Polled.primary # world.tile
    /\ TileAt(Polled, world.tile) # {}
Reached == PrefetchHit \/ Promotes \/ Satisfies(Polled, world)
\* Defect: a finished job is recognised by its map and tile alone.
Awaited_ByKey == pending # None /\ pending.at = world

Awaited == pending # None /\ pending.eligible /\ pending.at = world

\* What every branch of synchronize_async with a world has in common.
Synced ==
    /\ world # None /\ ~StreamFails
    /\ window' = Demand /\ prefetched' = None
    /\ UNCHANGED <<world, epoch>>

SyncPrefetched ==
    /\ Synced /\ PrefetchHit
    /\ Publish(Adopt(Resident(prefetched)))
    /\ pendingStream' = Unjoined(Stream)
    /\ UNCHANGED <<pending, over>>

SyncPromote ==
    /\ Synced /\ ~PrefetchHit /\ Promotes
    /\ Publish([Polled EXCEPT !.primary = world.tile])
    /\ pendingStream' = Unjoined(Stream)
    /\ UNCHANGED <<pending, over>>

\* The tile is already resident; MissingGpuGeneration and SceneKindMismatch
\* end the client when the frame does not show it.
SyncCurrent ==
    /\ Synced /\ ~PrefetchHit /\ ~Promotes /\ Satisfies(Polled, world)
    /\ active' = Polled
    /\ pending' = Unjoined(pending)
    /\ pendingStream' = Unjoined(Stream)
    /\ over' = (frame = None \/ frame.primary # Polled.primary)
    /\ UNCHANGED <<frame, uploaded>>

SyncWait ==
    /\ Synced /\ ~Reached
    /\ pending # None /\ pending.state = "running"
    /\ active' = Polled
    /\ pendingStream' = Unjoined(Stream)
    /\ UNCHANGED <<pending, frame, uploaded, over>>

SyncPublish ==
    /\ Synced /\ ~Reached
    /\ Awaited /\ pending.state = "ready"
    /\ Publish(Adopt(Resident(pending)))
    /\ pending' = None
    /\ pendingStream' = Unjoined(Stream)
    /\ UNCHANGED over

\* Asks for the player's tile unless the neighbour's job has the archives.
SyncSubmit(room) ==
    /\ Synced /\ ~Reached
    /\ pending = None \/ (Finished(pending) /\ ~Awaited)
    /\ active' = Polled
    /\ pendingStream' = Unjoined(Stream)
    /\ pending' = IF Unjoined(Stream) = None /\ room THEN Submit(world, FALSE) ELSE None
    /\ UNCHANGED <<frame, uploaded, over>>

SyncFail ==
    /\ world # None
    /\ StreamFails \/ (~Reached /\ Awaited /\ pending.state = "failed")
    /\ Exit

\* synchronize_async and the publication that follows it in the same frame.
Synchronize(room) ==
    \/ SyncIdle
    \/ SyncPrefetched
    \/ SyncPromote
    \/ SyncCurrent
    \/ SyncWait
    \/ SyncPublish
    \/ SyncSubmit(room)
    \/ SyncFail

\* Neighbours outside the window go, the player's tile stays.
Retained(w) == [Polled EXCEPT !.tiles = {g \in @ : g.tile \in w \union {Polled.primary}}]

\* synchronize_streaming_async with the camera's window w, and the frame's
\* synchronisation.  The nearest missing tile is any missing tile.
Streaming(w, room) ==
    /\ world # None /\ active # None /\ active.primary # None
    /\ world.tile \in w
    /\ \/ StreamFails /\ Exit
       \/ /\ ~StreamFails
          /\ LET kept == Retained(w)
                 missing == w \ {g.tile : g \in kept.tiles}
             IN  /\ active' = kept
                 /\ ShowFrame(kept)
                 /\ IF missing # {} /\ pending = None /\ Unjoined(Stream) = None /\ room
                    THEN \E t \in missing :
                            pendingStream' = Submit([map |-> world.map, tile |-> t], FALSE)
                    ELSE pendingStream' = Unjoined(Stream)
          /\ window' = w
          /\ UNCHANGED <<world, epoch, pending, prefetched, over>>

\* disconnect: the jobs run on, but what they prepare is retired.
Disconnect ==
    /\ epoch' = epoch + 1
    /\ active' = None /\ window' = None /\ prefetched' = None
    /\ pendingStream' = Ineligible(pendingStream)
    /\ pending' = Ineligible(pending)
    /\ UNCHANGED over

-----------------------------------------------------------------------------
(* Properties *)

\* Nothing prepared for an ownership generation that has ended is resident,
\* shown or kept for publication, even when map and tile are the same: "A
\* same-map NEW_WORLD is a new ownership generation" (terrain_coordinator.rs).
NoRetiredGeneration ==
    /\ active # None => \A g \in active.tiles : g.epoch = epoch
    /\ frame # None => \A g \in frame.tiles : g.epoch = epoch
    /\ prefetched # None => prefetched.epoch = epoch

\* The primary and the neighbour jobs never both hold an archive reader: the
\* coordinator has one worker state and two slots it can be lent to.
OneArchiveOwner == pending = None \/ pendingStream = None

\* The renderer shows what the coordinator holds: the same map and primary
\* tile, and no tile that has been evicted, whatever the frame's errors and
\* early returns; so MissingGpuGeneration is never met.
GpuFollowsCpu ==
    /\ frame = None <=> active = None
    /\ frame # None =>
        /\ frame.map = active.map /\ frame.primary = active.primary
        /\ frame.tiles \subseteq active.tiles
        /\ Plans(frame) \subseteq uploaded

\* What the documents promise; the code does not keep it (README, section 6):
\* every ADT the renderer holds belongs to the current frame, so that it can
\* still be retired ("Owns uploaded ADT geometry until explicit retirement").
NoOrphanedPlans == uploaded = Plans(frame)

\* A job of an ended ownership generation cannot end the client: only the
\* failure of a tile the current world still waits for does.
StaleFailureHarmless ==
    [][over' /\ ~over =>
        \E job \in {pending, pendingStream} :
            /\ Finished(job) /\ job.state = "failed"
            /\ job.epoch = epoch /\ job.at.map = world.map]_terrainVars

\* Wherever the player comes to rest, the tile under it is eventually shown.
TerrainFollows ==
    \A where \in Locations :
        <>[](world = where) =>
            []<>(\/ over
                 \/ frame # None /\ frame.map = where.map /\ frame.primary \in {None, where.tile})
=============================================================================
