----------------------------- MODULE TerrainProofs -----------------------------
(***************************************************************************)
(* Theorems about TerrainLoop, for every set of maps and tiles, about      *)
(* TerrainGpu, for every number of owners and of retirements outstanding   *)
(* besides, and about WorldTransfer, for every number of transfers,        *)
(* character logins and recoverable errors.                                *)
(***************************************************************************)
EXTENDS TerrainGpu, WorldTransfer, TLAPS, FiniteSetTheorems, SequenceTheorems

\* Residents are those of the current world's map, which has a primary tile
\* unless it is a world model; no neighbour is asked for on a world model.
MapInv ==
    /\ active # None =>
        /\ world # None /\ active.map = world.map
        /\ active.primary = None <=> active.map \in GlobalMaps
    /\ pendingStream # None => pendingStream.at.map \notin GlobalMaps

\* A job whose result may still be used belongs to the current generation.
JobInv ==
    \A job \in {pending, pendingStream} :
        job # None /\ (job.eligible \/ job.retain) => job.epoch = epoch

-----------------------------------------------------------------------------
(* What the operators return. *)

\* A job that is joined or made ineligible stays a job.
LEMMA JobTypes ==
    ASSUME NEW job, job = None \/ job \in Jobs
    PROVE  /\ Unjoined(job) = None \/ (Unjoined(job) = job /\ job \in Jobs)
           /\ Ineligible(job) = None <=> job = None
           /\ job # None => /\ Ineligible(job) \in Jobs
                            /\ Ineligible(job).at = job.at
                            /\ ~Ineligible(job).eligible /\ ~Ineligible(job).retain
BY NoneAssumption DEF Unjoined, Ineligible, Jobs

\* The neighbour's job after the poll.
LEMMA StreamType ==
    ASSUME TerrainTypeOK
    PROVE  /\ Stream = None \/ Stream \in Jobs
           /\ Stream # None => pendingStream # None /\ Stream.at = pendingStream.at
           /\ Stream = None <=> pendingStream = None
BY JobTypes DEF TerrainTypeOK, Stream

\* The residents of a location alone are well formed.
LEMMA ResidentOf ==
    ASSUME NEW from, from.at \in Locations, from.epoch \in Nat
    PROVE  /\ IsResident(Resident(from))
           /\ Resident(from).map = from.at.map
           /\ Resident(from).primary = None <=> from.at.map \in GlobalMaps
           /\ \A g \in Resident(from).tiles : g.epoch = from.epoch
<1> DEFINE g == Generation(from.at, from.epoch)
<1>1. /\ g \in Generations /\ g.map = from.at.map /\ g.epoch = from.epoch
      /\ g.tile = None <=> from.at.map \in GlobalMaps
  BY NoneAssumption DEF Generation, Generations, Locations
<1>2. Resident(from) = [map |-> g.map, primary |-> g.tile, tiles |-> {g}]
  BY DEF Resident
<1> HIDE DEF g
<1>3. /\ Resident(from) \in Residents /\ Resident(from).map = g.map
      /\ Resident(from).primary = g.tile /\ Resident(from).tiles = {g}
  BY <1>1, <1>2 DEF Residents, Generations
<1> QED BY <1>1, <1>3 DEF IsResident

\* The poll adds at most the finished neighbour to the residents.
LEMMA PolledShape ==
    ASSUME TerrainTypeOK, MapInv
    PROVE  /\ Polled = None <=> Kept = None
           /\ Polled # None =>
                /\ active # None /\ Kept = active /\ world # None
                /\ IsResident(Polled)
                /\ Polled.map = active.map /\ Polled.primary = active.primary
                /\ active.tiles \subseteq Polled.tiles
                /\ \A g \in Polled.tiles : g \in active.tiles \/
                       (Stream # None /\ Stream.eligible /\ g.epoch = Stream.epoch)
<1>1. Kept # None => Kept = active /\ active # None /\ world # None
  BY DEF Kept
<1>2. Kept # None => IsResident(active)
  BY <1>1 DEF TerrainTypeOK
<1>3. CASE StreamJoins /\ Stream.state = "ready" /\ TileAt(Kept, Stream.at.tile) = {}
  <2> DEFINE g == Generation(Stream.at, Stream.epoch)
  <2>1. /\ Kept = active /\ active # None /\ world # None
        /\ active.map = Stream.at.map /\ Stream # None /\ Stream.eligible
    BY <1>1, <1>3 DEF StreamJoins, Finished
  <2>2. Stream \in Jobs /\ Stream.at.map \notin GlobalMaps
    BY <2>1, StreamType DEF MapInv
  <2>3. g = [map |-> Stream.at.map, tile |-> Stream.at.tile, epoch |-> Stream.epoch]
    BY <2>2 DEF Generation
  <2>4. g \in Generations
    BY <2>2, <2>3 DEF Generations, Jobs, Locations
  <2>5. Polled = [active EXCEPT !.tiles = active.tiles \union {g}]
    BY <1>3, <2>1 DEF Polled
  <2>6. active \in Residents
    BY <1>2, <2>1 DEF IsResident
  <2>7. Polled \in Residents
    BY <2>4, <2>5, <2>6 DEF Residents
  <2>8. /\ Polled.map = active.map /\ Polled.primary = active.primary
        /\ Polled.tiles = active.tiles \union {g}
    BY <2>5, <2>6 DEF Residents
  <2>9. \A h \in active.tiles : h.tile # Stream.at.tile
    BY <1>3, <2>1 DEF TileAt
  <2>10. IsResident(Polled)
    BY <1>2, <2>1, <2>3, <2>7, <2>8, <2>9 DEF IsResident
  <2> HIDE DEF g
  <2>11. Polled # None
    BY <2>7, NoneAssumption
  <2>12. g.epoch = Stream.epoch
    BY <2>3
  <2> QED BY <2>1, <2>8, <2>10, <2>11, <2>12
<1>4. CASE ~(StreamJoins /\ Stream.state = "ready" /\ TileAt(Kept, Stream.at.tile) = {})
  BY <1>1, <1>2, <1>4 DEF Polled
<1> QED BY <1>3, <1>4

\* A tile that is adopted comes with the neighbours of its own map.
LEMMA Adopted ==
    ASSUME TerrainTypeOK, MapInv,
           NEW from, from.at \in Locations, from.epoch \in Nat
    PROVE  /\ IsResident(Adopt(Resident(from)))
           /\ Adopt(Resident(from)).map = from.at.map
           /\ Adopt(Resident(from)).primary = None <=> from.at.map \in GlobalMaps
           /\ \A g \in Adopt(Resident(from)).tiles :
                  g.epoch = from.epoch \/ (Polled # None /\ g \in Polled.tiles)
<1> DEFINE r == Resident(from)
           add == {g \in Polled.tiles : g.tile \in Demand \ {r.primary}}
<1>1. /\ IsResident(r) /\ r.map = from.at.map
      /\ r.primary = None <=> from.at.map \in GlobalMaps
      /\ \A g \in r.tiles : g.epoch = from.epoch
  BY ResidentOf
<1>2. \A g \in r.tiles : g.tile = r.primary
  BY DEF Resident
<1> HIDE DEF r
<1>3. CASE Polled # None /\ Polled.map = r.map /\ r.primary # None /\ Demand # None
  <2>1. Adopt(r) = [r EXCEPT !.tiles = r.tiles \union add]
    BY <1>3 DEF Adopt
  <2>2. /\ IsResident(Polled)
        /\ add \subseteq Polled.tiles
        /\ \A g \in add : g.tile # r.primary
    BY <1>3, PolledShape
  <2>3. /\ Adopt(r) \in Residents
        /\ Adopt(r).map = r.map /\ Adopt(r).primary = r.primary
        /\ Adopt(r).tiles = r.tiles \union add
    BY <1>1, <2>1, <2>2 DEF IsResident, Residents
  <2> HIDE DEF add
  <2>4. IsResident(Adopt(r))
    BY <1>1, <1>2, <1>3, <2>2, <2>3 DEF IsResident
  <2> QED BY <1>1, <1>3, <2>2, <2>3, <2>4 DEF r
<1>4. CASE ~(Polled # None /\ Polled.map = r.map /\ r.primary # None /\ Demand # None)
  BY <1>1, <1>4 DEF Adopt, r
<1> QED BY <1>3, <1>4

\* A published resident is what the renderer shows, or its primary tile is.
LEMMA Published ==
    ASSUME TerrainTypeOK, NEW r, IsResident(r), Publish(r)
    PROVE  /\ active' = r /\ active' # None /\ frame' # None
           /\ IsResident(frame') /\ frame'.map = r.map /\ frame'.primary = r.primary
           /\ frame'.tiles \subseteq r.tiles
           /\ Plans(frame') \subseteq uploaded'
<1>1. active' = r /\ r # None
  BY NoneAssumption DEF Publish, IsResident
<1>2. CASE frame # None /\ frame.map = r.map
  BY <1>1, <1>2 DEF Publish, ShowFrame
<1>3. CASE ~(frame # None /\ frame.map = r.map)
  <2>1. frame' = [r EXCEPT !.tiles = TileAt(r, r.primary)]
    BY <1>3 DEF Publish, ShowFrame
  <2>2. /\ frame' \in Residents /\ frame'.map = r.map /\ frame'.primary = r.primary
        /\ frame'.tiles = TileAt(r, r.primary)
    BY <2>1 DEF IsResident, Residents, TileAt
  <2>3. IsResident(frame')
    BY <2>2 DEF IsResident, TileAt
  <2>4. Plans(frame') \subseteq uploaded'
    BY <1>3, <2>1 DEF Publish, ShowFrame
  <2> QED BY <1>1, <2>2, <2>3, <2>4, NoneAssumption DEF TileAt
<1> QED BY <1>2, <1>3

\* Eviction keeps the player's tile.
LEMMA RetainedOf ==
    ASSUME TerrainTypeOK, MapInv, Polled # None, NEW w
    PROVE  /\ IsResident(Retained(w)) /\ Retained(w) # None
           /\ Retained(w).map = Polled.map /\ Retained(w).primary = Polled.primary
           /\ Retained(w).tiles \subseteq Polled.tiles
<1>1. IsResident(Polled)
  BY PolledShape
<1>2. /\ Retained(w) \in Residents
      /\ Retained(w).map = Polled.map /\ Retained(w).primary = Polled.primary
      /\ Retained(w).tiles = {g \in Polled.tiles : g.tile \in w \union {Polled.primary}}
  BY <1>1 DEF Retained, IsResident, Residents
<1>3. IsResident(Retained(w))
  BY <1>1, <1>2 DEF IsResident
<1> QED BY <1>2, <1>3, NoneAssumption

-----------------------------------------------------------------------------
(* Types. *)

\* synchronize_async keeps the types and the map.
LEMMA SynchronizeTypes ==
    ASSUME TerrainTypeOK, MapInv, NEW room \in BOOLEAN, Synchronize(room)
    PROVE  TerrainTypeOK' /\ MapInv'
<1> USE DEF TerrainTypeOK, MapInv
<1>1. /\ pending \in Jobs \union {None} /\ Unjoined(pending) \in Jobs \union {None}
      /\ Unjoined(Stream) \in Jobs \union {None}
      /\ Unjoined(Stream) # None => Unjoined(Stream).at.map \notin GlobalMaps
  <2>1. Unjoined(Stream) = None \/ (Unjoined(Stream) = Stream /\ Stream \in Jobs)
    BY StreamType, JobTypes
  <2> QED BY <2>1, StreamType, JobTypes
<1>2. /\ Polled = None \/ IsResident(Polled)
      /\ Polled # None => /\ world # None /\ Polled.map = world.map
                          /\ Polled.primary = None <=> Polled.map \in GlobalMaps
  BY PolledShape
<1>3. Demand \in (SUBSET Tiles) \union {None}
  BY DEF Demand
<1>4. world # None => Submit(world, FALSE) \in Jobs
  BY DEF Submit, Jobs
<1>5. CASE SyncIdle
  <2>1. prefetched' = None \/ prefetched' \in [at: Locations, epoch: Nat]
    BY <1>1, <1>5 DEF SyncIdle, Finished, Jobs
  <2> QED BY <1>1, <1>5, <2>1 DEF SyncIdle, ShowFrame
<1>6. CASE SyncPrefetched
  <2>1. prefetched.at \in Locations /\ prefetched.epoch \in Nat /\ prefetched.at = world
    BY <1>6 DEF SyncPrefetched, PrefetchHit
  <2>2. /\ IsResident(Adopt(Resident(prefetched)))
        /\ Adopt(Resident(prefetched)).map = world.map
        /\ Adopt(Resident(prefetched)).primary = None <=> world.map \in GlobalMaps
    BY <2>1, Adopted
  <2>3. active' = Adopt(Resident(prefetched)) /\ IsResident(frame')
    BY <1>6, <2>2, Published DEF SyncPrefetched
  <2> QED BY <1>1, <1>3, <1>6, <2>2, <2>3 DEF SyncPrefetched, Synced
<1>7. CASE SyncPromote
  <2> DEFINE r == [Polled EXCEPT !.primary = world.tile]
  <2>1. /\ Polled # None /\ world # None /\ world.tile \in Tiles
        /\ Polled.primary # None /\ TileAt(Polled, world.tile) # {}
    BY <1>7 DEF SyncPromote, Synced, Promotes, Locations
  <2>2. /\ r \in Residents /\ r.map = Polled.map /\ r.primary = world.tile
        /\ r.tiles = Polled.tiles
    BY <1>2, <2>1 DEF IsResident, Residents
  <2>3. IsResident(r)
    BY <1>2, <2>1, <2>2 DEF IsResident, TileAt
  <2>4. active' = r /\ IsResident(frame')
    BY <1>7, <2>3, Published DEF SyncPromote
  <2>5. r.primary # None
    BY <2>1, <2>2, NoneAssumption
  <2> HIDE DEF r
  <2> QED BY <1>1, <1>2, <1>3, <1>7, <2>1, <2>2, <2>3, <2>4, <2>5 DEF SyncPromote, Synced
<1>8. CASE SyncCurrent \/ SyncWait
  BY <1>1, <1>2, <1>3, <1>8 DEF SyncCurrent, SyncWait, Synced
<1>9. CASE SyncPublish
  <2>1. /\ pending \in Jobs /\ pending.at = world
        /\ pending.at \in Locations /\ pending.epoch \in Nat
    BY <1>9 DEF SyncPublish, Awaited, Jobs
  <2>2. /\ IsResident(Adopt(Resident(pending)))
        /\ Adopt(Resident(pending)).map = world.map
        /\ Adopt(Resident(pending)).primary = None <=> world.map \in GlobalMaps
    BY <2>1, Adopted
  <2>3. active' = Adopt(Resident(pending)) /\ IsResident(frame')
    BY <1>9, <2>2, Published DEF SyncPublish
  <2> QED BY <1>1, <1>3, <1>9, <2>2, <2>3 DEF SyncPublish, Synced
<1>10. CASE SyncSubmit(room)
  BY <1>1, <1>2, <1>3, <1>4, <1>10 DEF SyncSubmit, Synced
<1>11. CASE SyncFail
  BY <1>11 DEF SyncFail, Exit
<1> QED BY <1>5, <1>6, <1>7, <1>8, <1>9, <1>10, <1>11 DEF Synchronize

\* synchronize_streaming_async keeps the types and the map.
LEMMA StreamingTypes ==
    ASSUME TerrainTypeOK, MapInv, NEW w \in SUBSET Tiles, NEW room \in BOOLEAN,
           Streaming(w, room)
    PROVE  TerrainTypeOK' /\ MapInv'
<1> USE DEF TerrainTypeOK, MapInv
<1>1. CASE StreamFails /\ Exit
  BY <1>1 DEF Exit
<1>2. CASE ~StreamFails
  <2>1. /\ world # None /\ active # None /\ active.primary # None
        /\ active.map = world.map /\ world.map \notin GlobalMaps
    BY DEF Streaming
  <2>2. Polled # None /\ Polled.map = world.map /\ Polled.primary = active.primary
    <3>1. Kept # None
      BY <2>1 DEF Kept
    <3> QED BY <2>1, <3>1, PolledShape
  <2>3. /\ IsResident(Retained(w)) /\ Retained(w).map = world.map
        /\ Retained(w).primary = active.primary
    BY <2>2, RetainedOf
  <2>4. active' = Retained(w) /\ frame' = Retained(w) /\ window' = w
        /\ UNCHANGED <<world, epoch, pending, prefetched, over>>
    <3>1. ~(StreamFails /\ Exit)
      BY <1>2
    <3> QED BY <3>1 DEF Streaming, ShowFrame
  <2>5. /\ pendingStream' \in Jobs \union {None}
        /\ pendingStream' # None => pendingStream'.at.map \notin GlobalMaps
    <3>1. /\ Unjoined(Stream) \in Jobs \union {None}
          /\ Unjoined(Stream) # None => Unjoined(Stream).at.map \notin GlobalMaps
      <4>1. Unjoined(Stream) = None \/ (Unjoined(Stream) = Stream /\ Stream \in Jobs)
        BY StreamType, JobTypes
      <4> QED BY <4>1, StreamType, JobTypes
    <3>2. \A t \in Tiles :
              LET job == Submit([map |-> world.map, tile |-> t], FALSE)
              IN  job \in Jobs /\ job.at.map = world.map
      BY <2>1 DEF Submit, Jobs, Locations
    <3>3. \/ pendingStream' = Unjoined(Stream)
          \/ \E t \in w : pendingStream' = Submit([map |-> world.map, tile |-> t], FALSE)
      BY <1>2 DEF Streaming
    <3> QED BY <2>1, <3>1, <3>2, <3>3
  <2> QED BY <2>1, <2>3, <2>4, <2>5
<1> QED BY <1>1, <1>2 DEF Streaming

\* prewarm_location keeps the types and the map.
LEMMA PrewarmTypes ==
    ASSUME TerrainTypeOK, MapInv, NEW hint \in Locations, NEW room \in BOOLEAN,
           Prewarm(hint, room)
    PROVE  TerrainTypeOK' /\ MapInv'
<1>1. /\ pendingStream' = None \/ (pendingStream' = pendingStream /\ pendingStream \in Jobs)
  BY JobTypes DEF Prewarm, TerrainTypeOK
<1>2. pending' \in Jobs \union {None}
  <2>1. Submit(hint, TRUE) \in Jobs
    BY DEF Submit, Jobs, TerrainTypeOK
  <2>2. pending # None => [pending EXCEPT !.retain = TRUE] \in Jobs
    BY DEF Jobs, TerrainTypeOK
  <2> QED BY <2>1, <2>2 DEF Prewarm, TerrainTypeOK
<1> QED BY <1>1, <1>2 DEF Prewarm, TerrainTypeOK, MapInv

\* disconnect keeps the types and the map.
LEMMA DisconnectTypes ==
    ASSUME TerrainTypeOK, MapInv, Disconnect,
           world' \in Locations \union {None}, frame' = None
    PROVE  TerrainTypeOK' /\ MapInv'
BY JobTypes DEF Disconnect, TerrainTypeOK, MapInv

\* The end of a job keeps the types and the map.
LEMMA JobDoneTypes ==
    ASSUME TerrainTypeOK, MapInv, JobDone
    PROVE  TerrainTypeOK' /\ MapInv'
BY DEF JobDone, TerrainTypeOK, MapInv, Jobs

\* The variables are well formed and, on every map, resident tiles are
\* distinct, of the world's map, and include the primary one
\* (terrain_coordinator.rs publish_active, poll_stream_completion).
THEOREM TypeCorrect == Spec => [](TypeOK /\ MapInv)
<1>1. Init => TypeOK /\ MapInv
  <2> SUFFICES ASSUME Init PROVE TypeOK /\ MapInv
    OBVIOUS
  <2>1. TerrainTypeOK
    BY DEF Init, TerrainInit, TerrainTypeOK
  <2> QED BY <2>1, LoopAssumption DEF Init, TerrainInit, TypeOK, MapInv
<1>2. TypeOK /\ MapInv /\ [Next]_vars => (TypeOK /\ MapInv)'
  <2> SUFFICES ASSUME TypeOK, MapInv, [Next]_vars PROVE (TypeOK /\ MapInv)'
    OBVIOUS
  <2>1. TerrainTypeOK
    BY DEF TypeOK
  <2>2. CASE PrewarmCharacter
    BY <2>1, <2>2, PrewarmTypes DEF PrewarmCharacter, Prewarm, TypeOK
  <2>3. CASE EnterWorld
    BY <2>1, <2>3 DEF EnterWorld, TypeOK, TerrainTypeOK, MapInv
  <2>4. CASE Move
    <3>1. PICK t \in Tiles : /\ world # None
                             /\ world' = [world EXCEPT !.tile = t]
                             /\ UNCHANGED <<epoch, active, window, pending, pendingStream,
                                            prefetched, frame, uploaded, over, stage>>
      BY <2>4 DEF Move
    <3>2. world' \in Locations /\ world'.map = world.map
      BY <2>1, <3>1 DEF TerrainTypeOK, Locations
    <3>3. world' # None
      BY <3>2, NoneAssumption
    <3> QED BY <2>1, <3>1, <3>2, <3>3 DEF TypeOK, TerrainTypeOK, MapInv
  <2>5. CASE ReplaceWorld \/ RetireWorld
    <3>1. Disconnect /\ world' \in Locations \union {None} /\ frame' = None
      BY <2>5 DEF ReplaceWorld, RetireWorld
    <3>2. epoch < MaxOwners /\ epoch' = epoch + 1 /\ stage' = stage
      BY <2>5 DEF ReplaceWorld, RetireWorld, Disconnect
    <3> QED BY <2>1, <3>1, <3>2, DisconnectTypes, LoopAssumption DEF TypeOK
  <2>6. CASE BeginFrame \/ SkipStreaming \/ UNCHANGED vars
    BY <2>1, <2>6 DEF BeginFrame, SkipStreaming, vars, terrainVars, TypeOK, TerrainTypeOK, MapInv
  <2>7. CASE SynchronizeTerrain
    <3>1. TerrainTypeOK' /\ MapInv' /\ stage' \in {"stream", "events"}
      BY <2>1, <2>7, SynchronizeTypes DEF SynchronizeTerrain
    <3>2. epoch' = epoch
      BY <2>7 DEF SynchronizeTerrain, Synchronize, SyncIdle, SyncPrefetched, SyncPromote,
         SyncCurrent, SyncWait, SyncPublish, SyncSubmit, SyncFail, Synced, Exit
    <3> QED BY <3>1, <3>2 DEF TypeOK
  <2>8. CASE ServiceStreaming
    <3>1. TerrainTypeOK' /\ MapInv' /\ stage' = "events"
      BY <2>1, <2>8, StreamingTypes DEF ServiceStreaming
    <3>2. epoch' = epoch
      BY <2>8 DEF ServiceStreaming, Streaming, Exit
    <3> QED BY <3>1, <3>2 DEF TypeOK
  <2>9. CASE Worker
    BY <2>1, <2>9, JobDoneTypes DEF Worker, JobDone, TypeOK
  <2> QED BY <2>2, <2>3, <2>4, <2>5, <2>6, <2>7, <2>8, <2>9 DEF Next, Frame, World
<1> QED BY <1>1, <1>2, PTL DEF Spec

-----------------------------------------------------------------------------
(* The archive reader. *)

\* No step lends the archives twice.
LEMMA StepArchives ==
    ASSUME OneArchiveOwner, Next
    PROVE  OneArchiveOwner'
<1> USE DEF OneArchiveOwner
<1>1. /\ pendingStream = None => Unjoined(Stream) = None
      /\ Unjoined(None) = None /\ Ineligible(None) = None
  BY DEF Unjoined, Stream, Ineligible, Finished
<1>2. CASE PrewarmCharacter
  BY <1>1, <1>2 DEF PrewarmCharacter, Prewarm, Unjoined
<1>3. CASE EnterWorld \/ Move \/ BeginFrame \/ SkipStreaming
  BY <1>3 DEF EnterWorld, Move, BeginFrame, SkipStreaming, terrainVars
<1>4. CASE ReplaceWorld \/ RetireWorld
  BY <1>1, <1>4 DEF ReplaceWorld, RetireWorld, Disconnect
<1>5. CASE SynchronizeTerrain
  <2>1. PICK room \in BOOLEAN : Synchronize(room)
    BY <1>5 DEF SynchronizeTerrain
  <2>2. CASE SyncIdle
    BY <1>1, <2>2 DEF SyncIdle
  <2>3. CASE SyncPrefetched \/ SyncPromote \/ SyncCurrent \/ SyncWait \/ SyncPublish
    BY <1>1, <2>3 DEF SyncPrefetched, SyncPromote, SyncCurrent, SyncWait, SyncPublish
  <2>4. CASE SyncSubmit(room)
    BY <2>4 DEF SyncSubmit
  <2>5. CASE SyncFail
    BY <2>5 DEF SyncFail, Exit
  <2> QED BY <2>1, <2>2, <2>3, <2>4, <2>5 DEF Synchronize
<1>6. CASE ServiceStreaming
  BY <1>1, <1>6 DEF ServiceStreaming, Streaming, Exit
<1>7. CASE Worker
  BY <1>7 DEF Worker, JobDone
<1> QED BY <1>2, <1>3, <1>4, <1>5, <1>6, <1>7 DEF Next, Frame, World

\* The archive reader is lent to one job at a time, whatever is asked for
\* while a job runs (terrain_coordinator.rs submit, streaming.rs).
THEOREM ArchivesLentOnce == Spec => []OneArchiveOwner
<1>1. Init => OneArchiveOwner
  BY DEF Init, TerrainInit, OneArchiveOwner
<1>2. OneArchiveOwner /\ [Next]_vars => OneArchiveOwner'
  BY StepArchives DEF vars, terrainVars, OneArchiveOwner
<1> QED BY <1>1, <1>2, PTL DEF Spec

-----------------------------------------------------------------------------
(* Ownership generations. *)

\* A neighbour's job that may still be joined is of the current generation.
LEMMA StreamEpoch ==
    ASSUME TerrainTypeOK, JobInv
    PROVE  /\ Stream # None /\ (Stream.eligible \/ Stream.retain)
                 => Stream = pendingStream /\ Stream.epoch = epoch
           /\ Unjoined(Stream) # None /\ (Unjoined(Stream).eligible \/ Unjoined(Stream).retain)
                 => Unjoined(Stream).epoch = epoch
<1>1. Stream # None /\ (Stream.eligible \/ Stream.retain)
          => Stream = pendingStream /\ Stream.epoch = epoch
  BY JobTypes DEF TerrainTypeOK, JobInv, Stream
<1> QED BY <1>1 DEF Unjoined

\* What the poll shows belongs to the current generation.
LEMMA PolledEpoch ==
    ASSUME TerrainTypeOK, MapInv, JobInv, NoRetiredGeneration
    PROVE  Polled # None => \A g \in Polled.tiles : g.epoch = epoch
BY PolledShape, StreamEpoch DEF NoRetiredGeneration

\* synchronize_async publishes the current generation only.
LEMMA SynchronizeEpochs ==
    ASSUME TerrainTypeOK, MapInv, JobInv, NoRetiredGeneration,
           NEW room \in BOOLEAN, Synchronize(room)
    PROVE  JobInv' /\ NoRetiredGeneration'
<1> USE DEF JobInv, NoRetiredGeneration
<1>1. /\ Unjoined(Stream) # None /\ (Unjoined(Stream).eligible \/ Unjoined(Stream).retain)
              => Unjoined(Stream).epoch = epoch
      /\ Unjoined(pending) # None => Unjoined(pending) = pending
      /\ Polled # None => \A g \in Polled.tiles : g.epoch = epoch
  BY StreamEpoch, PolledEpoch DEF Unjoined
<1>2. CASE SyncIdle
  BY <1>1, <1>2 DEF SyncIdle, ShowFrame, Finished
<1>3. CASE SyncPrefetched
  <2> DEFINE r == Adopt(Resident(prefetched))
  <2>1. /\ prefetched.at \in Locations /\ prefetched.epoch \in Nat
        /\ prefetched.epoch = epoch
    BY <1>3 DEF SyncPrefetched, PrefetchHit, TerrainTypeOK
  <2>2. IsResident(r) /\ \A g \in r.tiles : g.epoch = epoch
    BY <1>1, <2>1, Adopted
  <2> HIDE DEF r
  <2>3. active' = r /\ frame'.tiles \subseteq r.tiles
    BY <1>3, <2>2, Published DEF SyncPrefetched, r
  <2> QED BY <1>1, <1>3, <2>2, <2>3 DEF SyncPrefetched, Synced
<1>4. CASE SyncPromote
  <2> DEFINE r == [Polled EXCEPT !.primary = world.tile]
  <2>1. IsResident(r) /\ r.tiles = Polled.tiles /\ Polled # None
    <3>1. Polled # None /\ IsResident(Polled) /\ world # None
      BY <1>4, PolledShape DEF SyncPromote, Promotes
    <3>2. world.tile \in Tiles /\ TileAt(Polled, world.tile) # {}
      BY <1>4, <3>1 DEF SyncPromote, Promotes, TerrainTypeOK, Locations
    <3>3. /\ r \in Residents /\ r.map = Polled.map /\ r.primary = world.tile
          /\ r.tiles = Polled.tiles
      BY <3>1, <3>2 DEF IsResident, Residents
    <3> QED BY <3>1, <3>2, <3>3 DEF IsResident, TileAt
  <2> HIDE DEF r
  <2>2. active' = r /\ frame'.tiles \subseteq r.tiles
    BY <1>4, <2>1, Published DEF SyncPromote, r
  <2> QED BY <1>1, <1>4, <2>1, <2>2 DEF SyncPromote, Synced
<1>5. CASE SyncCurrent \/ SyncWait
  BY <1>1, <1>5 DEF SyncCurrent, SyncWait, Synced
<1>6. CASE SyncPublish
  <2> DEFINE r == Adopt(Resident(pending))
  <2>1. pending.at \in Locations /\ pending.epoch \in Nat /\ pending.epoch = epoch
    BY <1>6 DEF SyncPublish, Awaited, TerrainTypeOK, Jobs
  <2>2. IsResident(r) /\ \A g \in r.tiles : g.epoch = epoch
    BY <1>1, <2>1, Adopted
  <2> HIDE DEF r
  <2>3. active' = r /\ frame'.tiles \subseteq r.tiles
    BY <1>6, <2>2, Published DEF SyncPublish, r
  <2> QED BY <1>1, <1>6, <2>2, <2>3 DEF SyncPublish, Synced
<1>7. CASE SyncSubmit(room)
  <2>1. Submit(world, FALSE).epoch = epoch
    BY DEF Submit
  <2> QED BY <1>1, <1>7, <2>1 DEF SyncSubmit, Synced
<1>8. CASE SyncFail
  BY <1>8 DEF SyncFail, Exit
<1> QED BY <1>2, <1>3, <1>4, <1>5, <1>6, <1>7, <1>8 DEF Synchronize

\* synchronize_streaming_async publishes the current generation only.
LEMMA StreamingEpochs ==
    ASSUME TerrainTypeOK, MapInv, JobInv, NoRetiredGeneration,
           NEW w \in SUBSET Tiles, NEW room \in BOOLEAN, Streaming(w, room)
    PROVE  JobInv' /\ NoRetiredGeneration'
<1> USE DEF JobInv, NoRetiredGeneration
<1>1. CASE StreamFails /\ Exit
  BY <1>1 DEF Exit
<1>2. CASE ~StreamFails
  <2>1. Polled # None
    BY PolledShape DEF Streaming, Kept
  <2>2. \A g \in Retained(w).tiles : g.epoch = epoch
    BY <2>1, RetainedOf, PolledEpoch
  <2>3. active' = Retained(w) /\ frame' = Retained(w)
        /\ UNCHANGED <<epoch, pending, prefetched>>
    BY <1>2 DEF Streaming, ShowFrame
  <2>4. \/ pendingStream' = Unjoined(Stream)
        \/ \E t \in w : pendingStream' = Submit([map |-> world.map, tile |-> t], FALSE)
    BY <1>2 DEF Streaming
  <2>5. \A l : Submit(l, FALSE).epoch = epoch
    BY DEF Submit
  <2> QED BY <2>2, <2>3, <2>4, <2>5, StreamEpoch
<1> QED BY <1>1, <1>2 DEF Streaming

\* prewarm_location asks for the current generation.
LEMMA PrewarmEpochs ==
    ASSUME TerrainTypeOK, JobInv, NoRetiredGeneration,
           NEW hint \in Locations, NEW room \in BOOLEAN, Prewarm(hint, room)
    PROVE  JobInv' /\ NoRetiredGeneration'
<1>1. pendingStream' = None \/ pendingStream' = pendingStream
  BY DEF Prewarm, Unjoined
<1>2. \/ pending' = pending \/ pending' = None \/ pending' = Submit(hint, TRUE)
      \/ /\ pending # None /\ pending.eligible
         /\ pending' = [pending EXCEPT !.retain = TRUE]
  BY DEF Prewarm
<1>3. pending # None => [pending EXCEPT !.retain = TRUE].epoch = pending.epoch
  BY DEF TerrainTypeOK, Jobs
<1>4. Submit(hint, TRUE).epoch = epoch
  BY DEF Submit
<1> QED BY <1>1, <1>2, <1>3, <1>4 DEF Prewarm, JobInv, NoRetiredGeneration

\* disconnect leaves no job whose result may be used.
LEMMA DisconnectEpochs ==
    ASSUME TerrainTypeOK, Disconnect, frame' = None
    PROVE  JobInv' /\ NoRetiredGeneration'
BY JobTypes DEF Disconnect, TerrainTypeOK, JobInv, NoRetiredGeneration

\* The end of a job changes no generation.
LEMMA JobDoneEpochs ==
    ASSUME TerrainTypeOK, JobInv, NoRetiredGeneration, JobDone
    PROVE  JobInv' /\ NoRetiredGeneration'
BY DEF JobDone, TerrainTypeOK, Jobs, JobInv, NoRetiredGeneration

\* No step of the loop shows a retired generation.
LEMMA StepEpochs ==
    ASSUME TypeOK, MapInv, JobInv, NoRetiredGeneration, Next
    PROVE  JobInv' /\ NoRetiredGeneration'
<1>1. TerrainTypeOK
  BY DEF TypeOK
<1>2. CASE PrewarmCharacter
  BY <1>1, <1>2, PrewarmEpochs DEF PrewarmCharacter
<1>3. CASE EnterWorld \/ Move \/ BeginFrame \/ SkipStreaming
  BY <1>3 DEF EnterWorld, Move, BeginFrame, SkipStreaming, terrainVars, JobInv,
     NoRetiredGeneration
<1>4. CASE ReplaceWorld \/ RetireWorld
  BY <1>1, <1>4, DisconnectEpochs DEF ReplaceWorld, RetireWorld
<1>5. CASE SynchronizeTerrain
  BY <1>1, <1>5, SynchronizeEpochs DEF SynchronizeTerrain
<1>6. CASE ServiceStreaming
  BY <1>1, <1>6, StreamingEpochs DEF ServiceStreaming
<1>7. CASE Worker
  BY <1>1, <1>7, JobDoneEpochs DEF Worker
<1> QED BY <1>2, <1>3, <1>4, <1>5, <1>6, <1>7 DEF Next, Frame, World

\* Nothing prepared for an ownership generation that has ended is ever
\* resident, shown or kept, because disconnect strips every job in flight of
\* its right to be published (terrain_coordinator.rs disconnect).
THEOREM RetiredStaysRetired == Spec => [](JobInv /\ NoRetiredGeneration)
<1>1. Init => JobInv /\ NoRetiredGeneration
  BY DEF Init, TerrainInit, JobInv, NoRetiredGeneration
<1>2. /\ TypeOK /\ MapInv /\ JobInv /\ NoRetiredGeneration /\ [Next]_vars
      => (JobInv /\ NoRetiredGeneration)'
  BY StepEpochs DEF vars, terrainVars, JobInv, NoRetiredGeneration
<1> QED BY <1>1, <1>2, TypeCorrect, PTL DEF Spec

-----------------------------------------------------------------------------
(* The renderer's image. *)

\* What is published is a resident.
LEMMA Publishes ==
    ASSUME TerrainTypeOK, MapInv, SyncPrefetched \/ SyncPromote \/ SyncPublish
    PROVE  \E r : IsResident(r) /\ Publish(r)
<1>1. CASE SyncPrefetched
  <2>1. prefetched.at \in Locations /\ prefetched.epoch \in Nat
    BY <1>1 DEF SyncPrefetched, PrefetchHit, TerrainTypeOK
  <2> QED BY <1>1, <2>1, Adopted DEF SyncPrefetched
<1>2. CASE SyncPromote
  <2> DEFINE r == [Polled EXCEPT !.primary = world.tile]
  <2>1. Polled # None /\ IsResident(Polled) /\ world # None
    BY <1>2, PolledShape DEF SyncPromote, Promotes
  <2>2. world.tile \in Tiles /\ TileAt(Polled, world.tile) # {}
    BY <1>2, <2>1 DEF SyncPromote, Promotes, TerrainTypeOK, Locations
  <2>3. /\ r \in Residents /\ r.map = Polled.map /\ r.primary = world.tile
        /\ r.tiles = Polled.tiles
    BY <2>1, <2>2 DEF IsResident, Residents
  <2>4. IsResident(r)
    BY <2>1, <2>2, <2>3 DEF IsResident, TileAt
  <2> QED BY <1>2, <2>4 DEF SyncPromote
<1>3. CASE SyncPublish
  <2>1. pending.at \in Locations /\ pending.epoch \in Nat
    BY <1>3 DEF SyncPublish, Awaited, TerrainTypeOK, Jobs
  <2> QED BY <1>3, <2>1, Adopted DEF SyncPublish
<1> QED BY <1>1, <1>2, <1>3

\* synchronize_async leaves the renderer with what is resident.
LEMMA SynchronizeFollows ==
    ASSUME TerrainTypeOK, MapInv, GpuFollowsCpu, NEW room \in BOOLEAN, Synchronize(room)
    PROVE  GpuFollowsCpu'
<1> USE DEF GpuFollowsCpu
\* What the poll adds is not shown yet.
<1>1. ASSUME world # None, active' = Polled, UNCHANGED <<frame, uploaded>>
      PROVE  GpuFollowsCpu'
  <2>1. Plans(frame)' = Plans(frame)
    BY <1>1 DEF Plans
  <2> QED BY <1>1, <2>1, PolledShape DEF Kept
<1>2. CASE SyncIdle
  BY <1>2 DEF SyncIdle, ShowFrame
\* A published resident keeps the two images together.
<1>3. CASE SyncPrefetched \/ SyncPromote \/ SyncPublish
  BY <1>3, Publishes, Published
<1>4. CASE SyncCurrent \/ SyncWait \/ SyncSubmit(room)
  BY <1>1, <1>4 DEF SyncCurrent, SyncWait, SyncSubmit, Synced
<1>5. CASE SyncFail
  BY <1>5 DEF SyncFail, Exit, Plans
<1> QED BY <1>2, <1>3, <1>4, <1>5 DEF Synchronize

\* synchronize_streaming_async leaves the renderer with what is resident.
LEMMA StreamingFollows ==
    ASSUME TerrainTypeOK, MapInv, GpuFollowsCpu,
           NEW w \in SUBSET Tiles, NEW room \in BOOLEAN, Streaming(w, room)
    PROVE  GpuFollowsCpu'
<1>1. CASE StreamFails /\ Exit
  BY <1>1 DEF Exit, GpuFollowsCpu, Plans
<1>2. CASE ~StreamFails
  <2>1. Polled # None
    BY PolledShape DEF Streaming, Kept
  <2>2. active' = Retained(w) /\ frame' = Retained(w) /\ Retained(w) # None
    BY <1>2, <2>1, RetainedOf DEF Streaming, ShowFrame
  <2>3. Plans(frame') \subseteq uploaded'
    BY <1>2 DEF Streaming, ShowFrame
  <2> QED BY <2>2, <2>3 DEF GpuFollowsCpu
<1> QED BY <1>1, <1>2 DEF Streaming

\* After every step of the loop the renderer shows what is resident.
LEMMA StepFollows ==
    ASSUME TypeOK, MapInv, GpuFollowsCpu, [Next]_vars
    PROVE  GpuFollowsCpu'
<1>1. TerrainTypeOK
  BY DEF TypeOK
<1>2. ASSUME UNCHANGED <<active, frame, uploaded>> PROVE GpuFollowsCpu'
  BY <1>2 DEF GpuFollowsCpu, Plans
<1>3. CASE PrewarmCharacter \/ EnterWorld \/ Move \/ Worker \/ BeginFrame \/ SkipStreaming
           \/ UNCHANGED vars
  BY <1>2, <1>3 DEF PrewarmCharacter, Prewarm, EnterWorld, Move, Worker, JobDone, BeginFrame,
     SkipStreaming, vars, terrainVars
<1>4. CASE ReplaceWorld \/ RetireWorld
  BY <1>4 DEF ReplaceWorld, RetireWorld, Disconnect, GpuFollowsCpu
<1>5. CASE SynchronizeTerrain
  BY <1>1, <1>5, SynchronizeFollows DEF SynchronizeTerrain
<1>6. CASE ServiceStreaming
  BY <1>1, <1>6, StreamingFollows DEF ServiceStreaming
<1> QED BY <1>3, <1>4, <1>5, <1>6 DEF Next, Frame, World

\* The renderer shows the map and primary tile the coordinator holds and no
\* tile it has evicted, on every path through a frame, so that
\* MissingGpuGeneration is never met (client_services.rs, the publication
\* arms; terrain_frame/streaming.rs synchronize_tiles).
THEOREM RendererFollows == Spec => []GpuFollowsCpu
<1>1. Init => GpuFollowsCpu
  BY DEF Init, TerrainInit, GpuFollowsCpu
<1>2. TypeOK /\ MapInv /\ GpuFollowsCpu /\ [Next]_vars => GpuFollowsCpu'
  BY StepFollows
<1> QED BY <1>1, <1>2, TypeCorrect, PTL DEF Spec

-----------------------------------------------------------------------------
(* Failures. *)

\* A failure that ends the client is one of the current generation.
LEMMA FailureIsCurrent ==
    ASSUME TerrainTypeOK, MapInv, JobInv, StreamFails
    PROVE  /\ Finished(pendingStream) /\ pendingStream.state = "failed"
           /\ pendingStream.epoch = epoch /\ pendingStream.at.map = world.map
<1>1. Stream # None /\ Stream.eligible /\ Kept # None /\ Kept.map = Stream.at.map
  BY DEF StreamFails, StreamJoins, Finished
<1>2. Stream = pendingStream /\ Stream.epoch = epoch
  BY <1>1, StreamEpoch
<1>3. Kept = active /\ active.map = world.map
  BY <1>1 DEF Kept, MapInv
<1> QED BY <1>1, <1>2, <1>3 DEF StreamFails, StreamJoins

\* Only the failure of a job of the current generation, for the map the
\* player is on, ends the client; that of a retired job is dropped with its
\* result (terrain_coordinator.rs poll_completion, streaming.rs
\* poll_stream_completion), and a frame that shows another tile than the
\* coordinator holds is never met.
THEOREM StaleFailuresDropped == Spec => StaleFailureHarmless
<1> DEFINE Harmless ==
        over' /\ ~over =>
            \E job \in {pending, pendingStream} :
                /\ Finished(job) /\ job.state = "failed"
                /\ job.epoch = epoch /\ job.at.map = world.map
<1>1. TypeOK /\ MapInv /\ JobInv /\ GpuFollowsCpu /\ [Next]_vars
      => Harmless \/ UNCHANGED terrainVars
  <2> SUFFICES ASSUME TypeOK, MapInv, JobInv, GpuFollowsCpu, Next, over', ~over
               PROVE  Harmless
    BY DEF vars
  <2>1. TerrainTypeOK
    BY DEF TypeOK
  <2>2. ASSUME StreamFails PROVE Harmless
    BY <2>1, <2>2, FailureIsCurrent
  <2>3. CASE SynchronizeTerrain
    <3>1. PICK room \in BOOLEAN : Synchronize(room)
      BY <2>3 DEF SynchronizeTerrain
    <3>2. CASE SyncFail
      <4>1. CASE StreamFails
        BY <2>2, <4>1
      <4>2. CASE Awaited /\ pending.state = "failed"
        <5>1. /\ Finished(pending) /\ pending.at.map = world.map
              /\ pending # None /\ pending.eligible
          BY <4>2 DEF Awaited, Finished
        <5>2. pending.epoch = epoch
          BY <5>1 DEF JobInv
        <5> QED BY <4>2, <5>1, <5>2
      <4> QED BY <3>2, <4>1, <4>2 DEF SyncFail
    <3>3. CASE SyncCurrent
      <4>1. frame # None /\ frame.primary = Polled.primary
        <5>1. Polled # None
          BY <3>3 DEF SyncCurrent, Satisfies
        <5> QED BY <2>1, <5>1, PolledShape DEF GpuFollowsCpu
      <4>2. over' = (frame = None \/ frame.primary # Polled.primary)
        BY <3>3 DEF SyncCurrent
      <4> QED BY <4>1, <4>2
    <3>4. CASE SyncIdle \/ SyncPrefetched \/ SyncPromote \/ SyncWait \/ SyncPublish
               \/ SyncSubmit(room)
      BY <3>4 DEF SyncIdle, SyncPrefetched, SyncPromote, SyncWait, SyncPublish, SyncSubmit
    <3> QED BY <3>1, <3>2, <3>3, <3>4 DEF Synchronize
  <2>4. CASE ServiceStreaming
    BY <2>2, <2>4 DEF ServiceStreaming, Streaming
  <2>5. CASE World \/ Worker \/ BeginFrame \/ SkipStreaming
    BY <2>5 DEF World, PrewarmCharacter, Prewarm, EnterWorld, Move, ReplaceWorld, RetireWorld,
       Disconnect, Worker, JobDone, BeginFrame, SkipStreaming, terrainVars
  <2> QED BY <2>3, <2>4, <2>5 DEF Next, Frame
<1> QED BY <1>1, TypeCorrect, RetiredStaysRetired, RendererFollows, PTL
        DEF Spec, StaleFailureHarmless

-----------------------------------------------------------------------------
(* The storage behind the tiles.                                           *)

\* Each element of the queue uses storage of the registry, or of a batch whose fence
\* stands behind it.
Covered(work, batches, m) ==
    /\ Len(work) = Len(batches) + 1
    /\ \A i \in 1..Len(work) : \A s \in work[i] :
          s \in m \/ \E j \in i..Len(batches) : s \in batches[j]

WellFormed(work, batches, S) == work \in Seq(SUBSET S) /\ batches \in Seq(SUBSET S)

GpuInv ==
    /\ \E S : WellFormed(queue, retirements, S)
    /\ Covered(queue, retirements, meshes)

-----------------------------------------------------------------------------
\* Work submitted for storage of the registry keeps the queue covered.
LEMMA SubmissionCovered ==
    ASSUME NEW S, NEW work, NEW batches, WellFormed(work, batches, S),
           NEW m, NEW grown, m \subseteq grown, Covered(work, batches, m),
           NEW used \in SUBSET S, used \subseteq grown
    PROVE  /\ WellFormed(Submitted(work, used), batches, S)
           /\ Covered(Submitted(work, used), batches, grown)
<1>1. Len(work) \in Nat \ {0}
  BY DEF WellFormed, Covered
<1>2. work[Len(work)] \in SUBSET S
  BY <1>1 DEF WellFormed
<1>3. Submitted(work, used) \in Seq(SUBSET S) /\ Len(Submitted(work, used)) = Len(work)
  BY <1>1, <1>2 DEF Submitted, WellFormed
<1>4. \A i \in 1..Len(work) :
        Submitted(work, used)[i] = IF i = Len(work) THEN work[i] \union used ELSE work[i]
  <2>1. DOMAIN work = 1..Len(work)
    BY DEF WellFormed
  <2> QED
    BY <2>1, <1>1 DEF Submitted
<1> QED
  BY <1>1, <1>3, <1>4 DEF WellFormed, Covered

\* Storage retired goes to a batch whose fence stands behind all work submitted.
LEMMA RetirementCovered ==
    ASSUME NEW S, NEW work, NEW batches, WellFormed(work, batches, S),
           NEW m, Covered(work, batches, m), NEW departed \in SUBSET S
    PROVE  /\ WellFormed(Append(work, {}), Append(batches, departed), S)
           /\ Covered(Append(work, {}), Append(batches, departed), m \ departed)
<1> DEFINE n == Len(batches)
           more == Append(batches, departed)
<1>1. n \in Nat /\ Len(work) = n + 1
  BY DEF WellFormed, Covered
<1>2. WellFormed(Append(work, {}), more, S)
  BY DEF WellFormed
<1>3. /\ Len(more) = n + 1 /\ more[n + 1] = departed
      /\ \A j \in 1..n : more[j] = batches[j]
  BY DEF WellFormed
<1>4. /\ Len(Append(work, {})) = n + 2 /\ Append(work, {})[n + 2] = {}
      /\ \A i \in 1..n + 1 : Append(work, {})[i] = work[i]
  BY <1>1 DEF WellFormed
<1>5. ASSUME NEW i \in 1..n + 1, NEW s \in work[i]
      PROVE  s \in m \ departed \/ \E j \in i..n + 1 : s \in more[j]
  <2>1. CASE s \in departed
    BY <2>1, <1>1, <1>3
  <2>2. CASE s \notin departed /\ s \in m
    BY <2>2
  <2>3. CASE \E j \in i..n : s \in batches[j]
    BY <2>3, <1>1, <1>3
  <2> QED
    BY <2>1, <2>2, <2>3, <1>1 DEF Covered
<1> HIDE DEF n, more
<1>6. Covered(Append(work, {}), more, m \ departed)
  BY <1>1, <1>3, <1>4, <1>5 DEF Covered
<1> QED
  BY <1>2, <1>6 DEF more

\* Batches destroyed once their fences have signalled take the work before them along.
LEMMA CollectionCovered ==
    ASSUME NEW S, NEW work, NEW batches, WellFormed(work, batches, S),
           NEW m, Covered(work, batches, m), NEW k \in 0..Len(batches)
    PROVE  LET left == SubSeq(work, k + 1, Len(work))
               kept == SubSeq(batches, k + 1, Len(batches))
           IN  WellFormed(left, kept, S) /\ Covered(left, kept, m)
<1> DEFINE n == Len(batches)
           left == SubSeq(work, k + 1, n + 1)
           kept == SubSeq(batches, k + 1, n)
<1>1. n \in Nat /\ Len(work) = n + 1
  BY DEF WellFormed, Covered
<1>2. WellFormed(left, kept, S)
  BY <1>1 DEF WellFormed
<1>3. Len(kept) = n - k /\ \A j \in 1..n - k : kept[j] = batches[j + k]
  BY <1>1 DEF WellFormed
<1>4. Len(left) = n + 1 - k /\ \A i \in 1..n + 1 - k : left[i] = work[i + k]
  BY <1>1 DEF WellFormed
<1>5. ASSUME NEW i \in 1..n + 1 - k, NEW s \in work[i + k], s \notin m
      PROVE  \E j \in i..n - k : s \in kept[j]
  <2>1. PICK j \in i + k..n : s \in batches[j]
    BY <1>1, <1>5 DEF Covered
  <2>2. j - k \in i..n - k /\ kept[j - k] = batches[j]
    BY <2>1, <1>1, <1>3
  <2> QED
    BY <2>1, <2>2
<1> HIDE DEF n, left, kept
<1>6. Covered(left, kept, m)
  <2>1. SUFFICES ASSUME NEW i \in 1..Len(left), NEW s \in left[i], s \notin m
                 PROVE  \E j \in i..Len(kept) : s \in kept[j]
    BY <1>1, <1>3, <1>4 DEF Covered
  <2>2. i \in 1..n + 1 - k /\ s \in work[i + k]
    BY <1>1, <1>4, <2>1
  <2> QED BY <1>3, <1>5, <2>1, <2>2
<1> QED
  BY <1>1, <1>2, <1>6 DEF n, left, kept

-----------------------------------------------------------------------------
\* A step of the residency, with its uploads and retirements.
LEMMA ReactCovered == GpuInv /\ React => GpuInv'
<1> SUFFICES ASSUME GpuInv, React PROVE GpuInv'
  OBVIOUS
<1> DEFINE added == Allocated(uploaded' \ uploaded)
           departed == Of(uploaded \ uploaded')
           grown == meshes \union added
<1>1. PICK S : WellFormed(queue, retirements, S)
  BY DEF GpuInv
<1> DEFINE T == S \union added \union departed
<1>2. WellFormed(queue, retirements, T)
  BY <1>1 DEF WellFormed
<1>3. /\ WellFormed(Submitted(queue, added), retirements, T)
      /\ Covered(Submitted(queue, added), retirements, grown)
  <2> HIDE DEF added, departed
  <2> QED
    BY <1>2, SubmissionCovered DEF GpuInv
<1>4. CASE departed = {}
  <2>1. /\ queue' = Submitted(queue, added) /\ retirements' = retirements
        /\ meshes' = grown
    BY <1>4 DEF React
  <2> QED
    BY <1>3, <2>1 DEF GpuInv
<1>5. CASE departed # {}
  <2>1. /\ queue' = Append(Submitted(queue, added), {})
        /\ retirements' = Append(retirements, departed)
        /\ meshes' = (meshes \ departed) \union added
    BY <1>5 DEF React
  <2>2. /\ WellFormed(queue', retirements', T)
        /\ Covered(queue', retirements', grown \ departed)
    <3> HIDE DEF added, departed, grown
    <3> QED
      BY <1>3, <2>1, RetirementCovered DEF T
  <2>3. grown \ departed \subseteq meshes'
    BY <2>1
  <2>4. Covered(queue', retirements', meshes')
    <3> HIDE DEF added, departed, grown
    <3> QED
      BY <2>2, <2>3 DEF Covered
  <2> QED
    BY <2>2, <2>4 DEF GpuInv
<1> QED
  BY <1>4, <1>5

\* A frame presented.
LEMMA PresentCovered ==
    ASSUME GpuInv, NEW k \in 0..Len(retirements), Present(k)
    PROVE  GpuInv'
<1> DEFINE left == SubSeq(queue, k + 1, Len(queue))
           drawn == Of(Plans(frame))
<1>1. PICK S : WellFormed(queue, retirements, S)
  BY DEF GpuInv
<1> DEFINE T == S \union drawn
<1>2. WellFormed(queue, retirements, T)
  BY <1>1 DEF WellFormed
<1>3. queue' = Submitted(left, drawn) /\ meshes' = meshes
  BY DEF Present
<1>4. retirements' = SubSeq(retirements, k + 1, Len(retirements))
  BY DEF Present
<1>5. drawn \subseteq meshes
  BY DEF Of
<1>6. WellFormed(left, retirements', T) /\ Covered(left, retirements', meshes)
  <2> HIDE DEF drawn
  <2> QED
    BY <1>2, <1>4, CollectionCovered DEF GpuInv
<1>7. WellFormed(queue', retirements', T) /\ Covered(queue', retirements', meshes')
  <2> HIDE DEF drawn, left
  <2> QED
    BY <1>3, <1>5, <1>6, SubmissionCovered DEF T
<1> QED
  BY <1>7 DEF GpuInv

\* Storage is destroyed only when no unfinished copy or frame uses it, whatever the
\* residency does between two frames and however long the GPU takes.
THEOREM StorageKept == GpuSpec => []StorageOutlivesUse
<1>1. GpuInit => GpuInv
  <2> SUFFICES ASSUME GpuInit PROVE GpuInv
    OBVIOUS
  <2>1. queue = <<{}>> /\ retirements = <<>> /\ meshes = {}
    BY DEF GpuInit
  <2>2. WellFormed(queue, retirements, {})
    BY <2>1 DEF WellFormed
  <2>3. Covered(queue, retirements, meshes)
    BY <2>1 DEF Covered
  <2> QED
    BY <2>2, <2>3 DEF GpuInv
<1>2. GpuInv /\ [GpuNext]_allVars => GpuInv'
  <2> SUFFICES ASSUME GpuInv, [GpuNext]_allVars PROVE GpuInv'
    OBVIOUS
  <2>1. CASE Next /\ React
    BY <2>1, ReactCovered
  <2>2. CASE Presents
    BY <2>2, PresentCovered DEF Presents
  <2>3. CASE UNCHANGED allVars
    BY <2>3 DEF GpuInv, Covered, WellFormed, allVars, gpuVars
  <2> QED
    BY <2>1, <2>2, <2>3 DEF GpuNext
<1>3. GpuInv => StorageOutlivesUse
  <2> SUFFICES ASSUME GpuInv, NEW i \in DOMAIN queue, NEW s \in queue[i]
               PROVE  s \in meshes \/ \E b \in ToSet(retirements) : s \in b
    BY DEF StorageOutlivesUse, Queued, Retired, ToSet
  <2>1. PICK S : WellFormed(queue, retirements, S)
    BY DEF GpuInv
  <2>2. i \in 1..Len(queue) /\ Len(retirements) \in Nat /\ DOMAIN retirements = 1..Len(retirements)
    BY <2>1 DEF WellFormed
  <2>3. CASE \E j \in i..Len(retirements) : s \in retirements[j]
    BY <2>2, <2>3 DEF ToSet
  <2> QED
    BY <2>2, <2>3 DEF GpuInv, Covered
<1> QED
  BY <1>1, <1>2, <1>3, PTL DEF GpuSpec

-----------------------------------------------------------------------------
(* World transfers: what every step keeps of the terrain.                  *)

TerrainInv == TerrainTypeOK /\ MapInv /\ JobInv /\ NoRetiredGeneration /\ GpuFollowsCpu

\* Steps that leave the terrain alone.
LEMMA SameTerrain ==
    ASSUME TerrainInv, UNCHANGED terrainVars
    PROVE  TerrainInv'
BY DEF TerrainInv, TerrainTypeOK, MapInv, JobInv, NoRetiredGeneration, GpuFollowsCpu, Plans,
   terrainVars

\* The entry asks for its tile.
LEMMA PrewarmTerrain ==
    ASSUME TerrainInv, NEW hint \in Locations, NEW room \in BOOLEAN, Prewarm(hint, room)
    PROVE  TerrainInv' /\ world' = world
<1>1. GpuFollowsCpu'
  BY DEF Prewarm, TerrainInv, GpuFollowsCpu, Plans
<1> QED BY <1>1, PrewarmTypes, PrewarmEpochs DEF TerrainInv, Prewarm

\* A world that ends or is replaced takes the frame with it.
LEMMA DisconnectTerrain ==
    ASSUME TerrainInv, Disconnect, world' \in Locations \union {None}, frame' = None
    PROVE  TerrainInv'
<1>1. GpuFollowsCpu'
  BY DEF Disconnect, GpuFollowsCpu
<1> QED BY <1>1, DisconnectTypes, DisconnectEpochs DEF TerrainInv

\* A worker ends.
LEMMA JobDoneTerrain ==
    ASSUME TerrainInv, JobDone
    PROVE  TerrainInv' /\ world' = world /\ frame' = frame
<1>1. GpuFollowsCpu'
  BY DEF JobDone, TerrainInv, GpuFollowsCpu, Plans
<1> QED BY <1>1, JobDoneTypes, JobDoneEpochs DEF TerrainInv, JobDone

\* The terrain follows the player.
LEMMA SynchronizeTerrainInv ==
    ASSUME TerrainInv, NEW room \in BOOLEAN, Synchronize(room)
    PROVE  TerrainInv'
BY SynchronizeTypes, SynchronizeEpochs, SynchronizeFollows DEF TerrainInv

\* The neighbours follow the camera.
LEMMA StreamingTerrain ==
    ASSUME TerrainInv, NEW w \in SUBSET Tiles, NEW room \in BOOLEAN, Streaming(w, room)
    PROVE  TerrainInv'
BY StreamingTypes, StreamingEpochs, StreamingFollows DEF TerrainInv

\* A frame of the world is replaced by another, never taken away, as long as the world
\* is there.
LEMMA FrameStays ==
    ASSUME TerrainInv, world # None, frame # None,
           \/ \E room \in BOOLEAN : Synchronize(room)
           \/ \E w \in SUBSET Tiles, room \in BOOLEAN : Streaming(w, room)
    PROVE  frame' # None /\ world' = world
<1>1. active # None
  BY DEF TerrainInv, GpuFollowsCpu
<1>2. Polled # None
  BY <1>1, PolledShape DEF TerrainInv, Kept
<1>3. CASE \E room \in BOOLEAN : Synchronize(room)
  <2>1. PICK room \in BOOLEAN : Synchronize(room)
    BY <1>3
  <2>2. world' = world
    BY <2>1 DEF Synchronize, SyncIdle, SyncPrefetched, SyncPromote, SyncCurrent, SyncWait,
       SyncPublish, SyncSubmit, SyncFail, Synced, Exit
  <2>3. CASE SyncPrefetched \/ SyncPromote \/ SyncPublish
    BY <2>2, <2>3, Publishes, Published DEF TerrainInv
  <2>4. CASE SyncCurrent \/ SyncWait \/ SyncSubmit(room) \/ SyncFail
    BY <2>2, <2>4 DEF SyncCurrent, SyncWait, SyncSubmit, SyncFail, Exit
  <2> QED BY <2>1, <2>3, <2>4, <2>2 DEF Synchronize, SyncIdle
<1>4. CASE \E w \in SUBSET Tiles, room \in BOOLEAN : Streaming(w, room)
  <2>1. PICK w \in SUBSET Tiles, room \in BOOLEAN : Streaming(w, room)
    BY <1>4
  <2>2. world' = world /\ (active' = Retained(w) \/ active' = active)
    BY <2>1 DEF Streaming, Exit
  <2>3. active' # None
    BY <1>1, <1>2, <2>2, RetainedOf DEF TerrainInv
  <2> QED BY <2>1, <2>2, <2>3, StreamingTerrain DEF TerrainInv, GpuFollowsCpu
<1> QED BY <1>3, <1>4
-----------------------------------------------------------------------------
(* Packets and budgets.                                                    *)

NewWorlds(w) == {i \in DOMAIN w : w[i].kind = "new"}
News(w) == Cardinality(NewWorlds(w))

\* The NEW_WORLD packets on a wire can be counted.
LEMMA NewsType ==
    ASSUME NEW w \in Seq(Packets)
    PROVE  IsFiniteSet(NewWorlds(w)) /\ News(w) \in Nat
<1>1. IsFiniteSet(1..Len(w)) /\ NewWorlds(w) \subseteq 1..Len(w)
  BY FS_Interval DEF NewWorlds
<1>2. IsFiniteSet(NewWorlds(w))
  BY <1>1, FS_Subset
<1> QED BY <1>2, FS_CardinalityType DEF News

\* An empty wire announces nothing.
LEMMA NoNews == News(<<>>) = 0
<1>1. NewWorlds(<<>>) = {}
  BY DEF NewWorlds
<1> QED BY <1>1, FS_EmptySet DEF News

\* A packet sent counts when it is a NEW_WORLD.
LEMMA NewsAppend ==
    ASSUME NEW w \in Seq(Packets), NEW p \in Packets
    PROVE  /\ Append(w, p) \in Seq(Packets)
           /\ News(Append(w, p)) = News(w) + (IF p.kind = "new" THEN 1 ELSE 0)
<1> DEFINE n == Len(w)
           longer == Append(w, p)
<1>1. /\ n \in Nat /\ DOMAIN w = 1..n
      /\ longer \in Seq(Packets) /\ DOMAIN longer = 1..(n + 1)
      /\ \A i \in 1..n : longer[i] = w[i]
      /\ longer[n + 1] = p
  <2>1. longer \in Seq(Packets) /\ Len(longer) = n + 1
    BY AppendProperties
  <2>2. DOMAIN longer = 1..(n + 1)
    BY <2>1
  <2> QED BY <2>1, <2>2, AppendProperties
<1> HIDE DEF n, longer
<1>2. n + 1 \notin NewWorlds(w)
  BY <1>1 DEF NewWorlds
<1>3. NewWorlds(longer) = IF p.kind = "new" THEN NewWorlds(w) \union {n + 1} ELSE NewWorlds(w)
  <2>1. 1..(n + 1) = 1..n \union {n + 1}
    BY <1>1
  <2> QED BY <1>1, <2>1 DEF NewWorlds
<1>4. Cardinality(NewWorlds(w) \union {n + 1}) = News(w) + 1
  BY <1>2, NewsType, FS_AddElement DEF News
<1>5. News(w) \in Nat
  BY NewsType
<1> QED BY <1>1, <1>3, <1>4, <1>5 DEF News, longer

\* A packet received is counted no more.
LEMMA NewsTail ==
    ASSUME NEW w \in Seq(Packets), w # <<>>
    PROVE  /\ Tail(w) \in Seq(Packets) /\ Len(w) \in Nat \ {0} /\ Head(w) = w[1]
           /\ Head(w) \in Packets
           /\ Len(Tail(w)) = Len(w) - 1
           /\ \A i \in 1..(Len(w) - 1) : Tail(w)[i] = w[i + 1]
           /\ News(w) = News(Tail(w)) + (IF Head(w).kind = "new" THEN 1 ELSE 0)
<1> DEFINE n == Len(w)
           rest == Tail(w)
           later == {i \in 2..n : w[i].kind = "new"}
<1>1. n \in Nat \ {0} /\ DOMAIN w = 1..n /\ Head(w) = w[1] /\ w[1] \in Packets
  BY EmptySeq
<1>2. rest \in Seq(Packets) /\ Len(rest) = n - 1 /\ \A i \in 1..(n - 1) : rest[i] = w[i + 1]
  BY HeadTailProperties
<1>3. DOMAIN rest = 1..(n - 1)
  BY <1>2
<1> HIDE DEF n, rest
<1>4. NewWorlds(w) = IF Head(w).kind = "new" THEN later \union {1} ELSE later
  BY <1>1 DEF NewWorlds
<1>5. 1 \notin later
  BY <1>1
<1>6. ExistsBijection(NewWorlds(rest), later)
  <2> DEFINE shorter == NewWorlds(rest)
             f == [i \in shorter |-> i + 1]
  <2>1. shorter \subseteq 1..(n - 1) /\ \A i \in shorter : i + 1 \in later
    BY <1>1, <1>2, <1>3 DEF NewWorlds
  <2>2. \A j \in later : j - 1 \in shorter /\ (j - 1) + 1 = j
    BY <1>1, <1>2, <1>3 DEF NewWorlds
  <2> HIDE DEF shorter, later
  <2>3. f \in [shorter -> later]
    BY <2>1
  <2>4. \A i, j \in shorter : f[i] = f[j] => i = j
    BY <1>1, <2>1
  <2>5. \A j \in later : \E i \in shorter : f[i] = j
    BY <2>2
  <2>6. f \in Bijection(shorter, later)
    BY <2>3, <2>4, <2>5 DEF Bijection, Injection, Surjection, IsInjective
  <2> QED BY <2>6 DEF ExistsBijection, shorter
<1>7. IsFiniteSet(NewWorlds(rest)) /\ News(rest) \in Nat
  BY <1>2, NewsType
<1> HIDE DEF later
<1>8. IsFiniteSet(later) /\ Cardinality(later) = News(rest)
  BY <1>6, <1>7, FS_Bijection DEF News
<1>9. Cardinality(later \union {1}) = Cardinality(later) + 1
  BY <1>5, <1>8, FS_AddElement
<1>10. News(w) = News(rest) + (IF Head(w).kind = "new" THEN 1 ELSE 0)
  BY <1>4, <1>7, <1>8, <1>9 DEF News
<1> QED BY <1>1, <1>2, <1>10 DEF n, rest

\* The bounds are numbers.
LEMMA BoundsFacts ==
    /\ DOMAIN Bounds = {"transfers", "entries", "faults"}
    /\ \A b \in DOMAIN Bounds : Bounds[b] \in Nat
BY TransferAssumption DEF Bounds

\* What is spent stays within the bounds.
LEMMA Spending ==
    ASSUME TransferTypeOK, NEW b \in DOMAIN Bounds, Spend(b)
    PROVE  /\ spent' \in [DOMAIN Bounds -> Nat]
           /\ \A c \in DOMAIN Bounds : spent'[c] <= Bounds[c]
           /\ spent'[b] = spent[b] + 1
           /\ \A c \in DOMAIN Bounds : c # b => spent'[c] = spent[c]
<1>1. spent \in [DOMAIN Bounds -> Nat] /\ \A c \in DOMAIN Bounds : spent[c] <= Bounds[c]
  BY DEF TransferTypeOK
<1>2. spent' = [spent EXCEPT ![b] = spent[b] + 1] /\ spent[b] < Bounds[b]
  BY DEF Spend, CanSpend
<1> HIDE DEF Bounds
<1> QED BY <1>1, <1>2, BoundsFacts
-----------------------------------------------------------------------------
(* The inductive invariant of world transfers.                             *)

\* The wire is empty outside a world, and the end of the session is the last packet.
WireInv ==
    /\ \A i \in 1..Len(wire) : wire[i].kind \in {"new", "verify"} => wire[i].at \in Locations
    /\ \A i \in 1..Len(wire) : wire[i].kind = "end" => ~server.live /\ i = Len(wire)
    /\ world = None => wire = <<>> /\ ~server.live /\ server.unacked = 0
    /\ server.unacked + (IF server.offered THEN 1 ELSE 0) <= spent["transfers"]

\* Who waits for what: a character entry has a card, a batch is dispatched with no map
\* loading, and the map that loads is the world's.
OwnersInv ==
    /\ entry => world = None /\ card # None
    /\ world = None /\ card # None => ~card.ready
    /\ at = "batch" => loading = None
    /\ scheduled > 0 => destination # None
    /\ loading # None => loading.at.map = world.map

\* Without a card, or with one about to go, the world is whole or being entered; so it
\* is from the announcement of a transfer on.
Whole == ui /\ player = "ready" /\ frame # None
CardInv == world # None => entering \/ Whole \/ (card # None /\ ~card.ready)
OfferInv ==
    world # None /\ (server.offered \/ \E i \in 1..Len(wire) : wire[i].kind = "aborted")
        => entering \/ Whole

OrderInv == WireInv /\ OwnersInv /\ CallbacksAccounted /\ PendingCardHeld
RevealInv == CardInv /\ OfferInv
TransferInv ==
    /\ TerrainInv /\ TransferTypeOK /\ OrderInv
    /\ ~EarlyTransfers => RevealInv

-----------------------------------------------------------------------------
(* Types and terrain.                                                      *)

ClientFlags == awaiting \in BOOLEAN /\ entering \in BOOLEAN /\ ui \in BOOLEAN /\ entry \in BOOLEAN

\* Steps that leave transfers, scene, wire and server alone.
Still ==
    \/ SkipDispatch \/ BeginBatch \/ EndBatch \/ BatchFault \/ SkipUi \/ SkipStream
    \/ Suspended \/ ServiceTerrain \/ StreamTerrain \/ WorkerEnds

\* Nothing of the transfer, the scene or the session changes.
LEMMA StillKeeps ==
    ASSUME Still
    PROVE  UNCHANGED <<transferVars, sceneVars, wire, server>>
BY DEF Still, SkipDispatch, BeginBatch, EndBatch, BatchFault, SkipUi, SkipStream, Suspended,
   ServiceTerrain, StreamTerrain, WorkerEnds

\* Flags stay flags.
LEMMA StepClientFlags ==
    ASSUME ClientFlags, TransferNext
    PROVE  ClientFlags'
<1> USE DEF ClientFlags, transferVars, sceneVars
<1>1. CASE Still
  BY <1>1, StillKeeps, Zenon
<1>2. CASE RequestEntry \/ Entered \/ Rejected
  BY <1>2, Zenon DEF RequestEntry, Entered, Rejected
<1>3. CASE TakeDeferred \/ ReceiveVerify
  BY <1>3, Zenon DEF TakeDeferred, ReceiveVerify, Replace
<1>4. CASE ReceivePending \/ ReceiveAborted \/ ReceiveNew \/ ReceiveCreate \/ ReceiveEnd
  BY <1>4, Zenon DEF ReceivePending, ReceiveAborted, ReceiveNew, ReceiveCreate, ReceiveEnd
<1>5. CASE PrepareUi \/ PlayerReady
  BY <1>5, Zenon DEF PrepareUi, PlayerReady
<1>6. CASE FinishService
  BY <1>6, Zenon DEF FinishService
<1>7. CASE PresentFrame
  BY <1>7, Zenon DEF PresentFrame
<1>8. CASE Server
  BY <1>8, Zenon DEF Server, ServerPending, ServerAborts, ServerMoves, ServerVerifies,
     ServerCreates, ServerEnds
<1> QED BY <1>1, <1>2, <1>3, <1>4, <1>5, <1>6, <1>7, <1>8 DEF TransferNext, Service, Events, Still

\* The frame stays at one of its stages.
LEMMA StepAt ==
    ASSUME TransferTypeOK, TransferNext
    PROVE  at' \in {"session", "batch", "terrain", "ui", "stream", "finish", "present"}
<1> USE DEF TransferTypeOK, GoOn, Surfaces, GoOnOrSurface
<1>1. CASE Still
  BY <1>1 DEF Still, SkipDispatch, BeginBatch, EndBatch, BatchFault, SkipUi, SkipStream, Suspended,
     ServiceTerrain, StreamTerrain, WorkerEnds
<1>2. CASE Events \/ Server
  BY <1>2 DEF Events, RequestEntry, Entered, Rejected, BatchFault, PlayerReady, Server,
     ServerPending, ServerAborts, ServerMoves, ServerVerifies, ServerCreates, ServerEnds
<1>3. CASE TakeDeferred \/ ReceiveVerify
  BY <1>3 DEF TakeDeferred, ReceiveVerify, Replace
<1>4. CASE ReceivePending \/ ReceiveAborted \/ ReceiveNew \/ ReceiveCreate \/ ReceiveEnd
  BY <1>4 DEF ReceivePending, ReceiveAborted, ReceiveNew, ReceiveCreate, ReceiveEnd
<1>5. CASE PrepareUi \/ FinishService \/ PresentFrame
  BY <1>5 DEF PrepareUi, FinishService, PresentFrame
<1> QED BY <1>1, <1>2, <1>3, <1>4, <1>5 DEF TransferNext, Service, Still

\* A step spends from one budget at most.
LEMMA StepSpends ==
    ASSUME TransferNext
    PROVE  spent' = spent \/ \E b \in DOMAIN Bounds : Spend(b)
<1> USE BoundsFacts DEF GoOn, Surfaces, GoOnOrSurface
<1>1. CASE Still
  BY <1>1 DEF Still, SkipDispatch, BeginBatch, EndBatch, BatchFault, SkipUi, SkipStream, Suspended,
     ServiceTerrain, StreamTerrain, WorkerEnds
<1>2. CASE Events \/ Server
  BY <1>2 DEF Events, RequestEntry, Entered, Rejected, BatchFault, PlayerReady, Server,
     ServerPending, ServerAborts, ServerMoves, ServerVerifies, ServerCreates, ServerEnds
<1>3. CASE TakeDeferred \/ ReceiveVerify
  BY <1>3 DEF TakeDeferred, ReceiveVerify, Replace
<1>4. CASE ReceivePending \/ ReceiveAborted \/ ReceiveNew \/ ReceiveCreate \/ ReceiveEnd
  BY <1>4 DEF ReceivePending, ReceiveAborted, ReceiveNew, ReceiveCreate, ReceiveEnd
<1>5. CASE PrepareUi \/ FinishService \/ PresentFrame
  BY <1>5 DEF PrepareUi, FinishService, PresentFrame
<1> QED BY <1>1, <1>2, <1>3, <1>4, <1>5 DEF TransferNext, Service, Still

\* A packet dispatched leaves the wire; the world is there to receive it.
LEMMA Dispatched ==
    ASSUME TransferTypeOK, WireInv, NEW kind, Dispatch(kind)
    PROVE  /\ world # None /\ at = "batch"
           /\ wire' \in Seq(Packets) /\ Len(wire) \in Nat \ {0}
           /\ Head(wire) = wire[1] /\ wire[1] \in Packets /\ wire[1].kind = kind
           /\ Len(wire') = Len(wire) - 1
           /\ \A i \in 1..Len(wire') : i + 1 \in 1..Len(wire) /\ wire'[i] = wire[i + 1]
           /\ News(wire') \in Nat
           /\ News(wire) = News(wire') + (IF kind = "new" THEN 1 ELSE 0)
<1>1. wire # <<>> /\ wire' = Tail(wire) /\ Head(wire).kind = kind /\ at = "batch"
  BY DEF Dispatch
<1>2. wire \in Seq(Packets) /\ world # None
  BY <1>1 DEF TransferTypeOK, WireInv
<1>3. News(Tail(wire)) \in Nat
  BY <1>1, <1>2, NewsTail, NewsType
<1> QED BY <1>1, <1>2, <1>3, NewsTail

\* A packet sent is the last one.
LEMMA SentLast ==
    ASSUME TransferTypeOK, NEW p \in Packets, wire' = Append(wire, p)
    PROVE  /\ wire' \in Seq(Packets) /\ Len(wire) \in Nat /\ Len(wire') = Len(wire) + 1
           /\ \A i \in 1..Len(wire) : wire'[i] = wire[i]
           /\ wire'[Len(wire) + 1] = p
           /\ News(wire) \in Nat
           /\ News(wire') = News(wire) + (IF p.kind = "new" THEN 1 ELSE 0)
<1>1. wire \in Seq(Packets)
  BY DEF TransferTypeOK
<1> QED BY <1>1, NewsAppend, NewsType, AppendProperties

\* Worlds change where an entry ends, a transfer replaces the world or the session ends.
LEMMA ReplaceTerrain ==
    ASSUME TerrainInv, NEW where \in Locations, NEW ack \in BOOLEAN, Replace(where, ack)
    PROVE  /\ TerrainInv' /\ world' = where /\ world' # None
BY DisconnectTerrain, NoneAssumption DEF Replace

\* Every step keeps what is known of the terrain.
LEMMA StepTerrain ==
    ASSUME TransferInv, TransferNext
    PROVE  TerrainInv'
<1>0. TerrainInv /\ TransferTypeOK /\ WireInv /\ OwnersInv
  BY DEF TransferInv, OrderInv
<1>1. CASE Still
  <2>1. CASE ServiceTerrain
    BY <1>0, <2>1, SynchronizeTerrainInv DEF ServiceTerrain
  <2>2. CASE StreamTerrain
    BY <1>0, <2>2, StreamingTerrain DEF StreamTerrain
  <2>3. CASE WorkerEnds
    BY <1>0, <2>3, JobDoneTerrain DEF WorkerEnds
  <2>4. CASE SkipDispatch \/ BeginBatch \/ EndBatch \/ BatchFault \/ SkipUi \/ SkipStream \/ Suspended
    BY <1>0, <2>4, SameTerrain
       DEF SkipDispatch, BeginBatch, EndBatch, BatchFault, SkipUi, SkipStream, Suspended
  <2> QED BY <1>1, <2>1, <2>2, <2>3, <2>4 DEF Still
<1>2. CASE RequestEntry
  BY <1>0, <1>2, PrewarmTerrain DEF RequestEntry
<1>3. CASE Entered
  <2>1. PICK where \in Locations : world' = where
    BY <1>3 DEF Entered
  <2>2. world = None /\ UNCHANGED <<epoch, active, window, pending, pendingStream, prefetched, frame,
                                    uploaded, over>>
    BY <1>0, <1>3 DEF Entered, OwnersInv
  <2>3. active = None
    BY <1>0, <2>2 DEF TerrainInv, MapInv
  <2> QED
    BY <1>0, <2>1, <2>2, <2>3 DEF TerrainInv, TerrainTypeOK, MapInv, JobInv, NoRetiredGeneration,
       GpuFollowsCpu, Plans
<1>4. CASE TakeDeferred
  <2>1. destination \in Locations
    BY <1>0, <1>4 DEF TakeDeferred, OwnersInv, TransferTypeOK
  <2> QED BY <1>0, <1>4, <2>1, ReplaceTerrain DEF TakeDeferred
<1>5. CASE ReceiveVerify
  <2>1. Head(wire).at \in Locations
    BY <1>0, <1>5, Dispatched DEF ReceiveVerify, WireInv
  <2> QED BY <1>0, <1>5, <2>1, ReplaceTerrain, SameTerrain DEF ReceiveVerify
<1>6. CASE ReceiveEnd
  BY <1>0, <1>6, DisconnectTerrain DEF ReceiveEnd
<1>7. CASE Rejected \/ ReceivePending \/ ReceiveAborted \/ ReceiveNew \/ ReceiveCreate
             \/ PrepareUi \/ PlayerReady \/ FinishService \/ PresentFrame
  BY <1>0, <1>7, SameTerrain
     DEF Rejected, ReceivePending, ReceiveAborted, ReceiveNew, ReceiveCreate, PrepareUi,
         PlayerReady, FinishService, PresentFrame
<1>8. CASE Server
  BY <1>0, <1>8, SameTerrain
     DEF Server, ServerPending, ServerAborts, ServerMoves, ServerVerifies, ServerCreates, ServerEnds
<1> QED BY <1>1, <1>2, <1>3, <1>4, <1>5, <1>6, <1>7, <1>8
        DEF TransferNext, Service, Events, Still

-----------------------------------------------------------------------------
(* Steps.                                                                  *)

\* The part of the types that a step may disturb besides flags, terrain and budgets.
ClientTypes ==
    /\ destination \in Locations \union {None}
    /\ scheduled \in Nat
    /\ loading \in Replacements \union {None}
    /\ card \in Cards \union {None}
    /\ player \in {"absent", "created", "ready"}
    /\ wire \in Seq(Packets)
    /\ server \in [live: BOOLEAN, unacked: Nat, offered: BOOLEAN, owed: BOOLEAN,
                   map: Maps \union {None}]
    /\ world = None => loading = None /\ scheduled = 0 /\ ~awaiting /\ ~entering

\* The types without their bounds.
LEMMA TypesOf == TransferTypeOK => ClientTypes
BY TransferAssumption DEF TransferTypeOK, ClientTypes

TransferOrder == ClientTypes /\ OrderInv /\ (~EarlyTransfers => RevealInv)

\* Steps that only move the frame on or complete the scene.
LEMMA QuietKeeps ==
    ASSUME TransferInv,
           UNCHANGED <<transferVars, card, entry, wire, server, world>>,
           player' \in {"absent", "created", "ready"},
           at' = "batch" => at = "batch" \/ loading = None,
           ui => ui', player = "ready" => player' = "ready",
           world # None /\ frame # None => frame' # None,
           spent'["transfers"] >= spent["transfers"], spent'["transfers"] \in Nat
    PROVE  TransferOrder'
<1>0. /\ ClientTypes /\ WireInv /\ OwnersInv /\ CallbacksAccounted /\ PendingCardHeld
      /\ spent["transfers"] \in Nat
  BY TypesOf, BoundsFacts DEF TransferInv, OrderInv, TransferTypeOK
<1>1. ClientTypes'
  BY <1>0 DEF ClientTypes, transferVars
<1>2. WireInv'
  BY <1>0 DEF WireInv, ClientTypes
<1>3. OwnersInv'
  BY <1>0 DEF OwnersInv, transferVars
<1>4. CallbacksAccounted' /\ PendingCardHeld'
  BY <1>0 DEF CallbacksAccounted, PendingCardHeld, transferVars
<1>5. Whole /\ world # None => Whole'
  BY DEF Whole
<1>6. ~EarlyTransfers => RevealInv'
  BY <1>5 DEF TransferInv, RevealInv, CardInv, OfferInv, transferVars
<1> QED BY <1>1, <1>2, <1>3, <1>4, <1>6 DEF TransferOrder, OrderInv

\* What is spent is never given back.
LEMMA BudgetGrows ==
    ASSUME TransferTypeOK, TransferNext
    PROVE  /\ spent["transfers"] \in Nat /\ spent'["transfers"] \in Nat
           /\ spent'["transfers"] >= spent["transfers"]
<1>1. "transfers" \in DOMAIN Bounds /\ spent["transfers"] \in Nat
  BY BoundsFacts DEF TransferTypeOK
<1>2. CASE spent' = spent
  BY <1>1, <1>2
<1>3. ASSUME NEW b \in DOMAIN Bounds, Spend(b)
      PROVE  spent'["transfers"] \in Nat /\ spent'["transfers"] >= spent["transfers"]
  BY <1>1, <1>3, Spending
<1> QED BY <1>1, <1>2, <1>3, StepSpends

\* The frame goes on, or the scene is completed.
LEMMA QuietSteps ==
    ASSUME TransferInv, TransferNext, Still \/ PlayerReady \/ PrepareUi
    PROVE  TransferOrder'
<1>0. TransferTypeOK /\ TerrainInv /\ player \in {"absent", "created", "ready"}
  BY DEF TransferInv, TransferTypeOK
<1>1. CASE ServiceTerrain \/ StreamTerrain
  <2>1. UNCHANGED <<transferVars, sceneVars, wire, server>> /\ at' # "batch"
    BY <1>1 DEF ServiceTerrain, StreamTerrain, GoOn
  <2>2. world # None /\ frame # None => frame' # None
    BY <1>0, <1>1, FrameStays DEF ServiceTerrain, StreamTerrain
  <2>3. world' = world
    BY <1>1 DEF ServiceTerrain, StreamTerrain, Streaming, Synchronize, SyncIdle, SyncPrefetched,
       SyncPromote, SyncCurrent, SyncWait, SyncPublish, SyncSubmit, SyncFail, Synced, Exit
  <2> QED BY <1>0, <2>1, <2>2, <2>3, BudgetGrows, QuietKeeps DEF sceneVars
<1>2. CASE WorkerEnds
  BY <1>0, <1>2, JobDoneTerrain, BudgetGrows, QuietKeeps DEF WorkerEnds, sceneVars
<1>3. CASE SkipDispatch \/ BeginBatch \/ EndBatch \/ BatchFault \/ SkipUi \/ SkipStream \/ Suspended
  <2>1. /\ UNCHANGED <<terrainVars, transferVars, sceneVars, wire, server>>
        /\ at' = "batch" => loading = None \/ at = "batch"
    BY <1>3 DEF SkipDispatch, BeginBatch, EndBatch, BatchFault, SkipUi, SkipStream, Suspended,
       GoOn, Surfaces
  <2> QED BY <1>0, <2>1, BudgetGrows, QuietKeeps DEF sceneVars, terrainVars
<1>4. CASE PlayerReady \/ PrepareUi
  <2>1. /\ UNCHANGED <<terrainVars, transferVars, card, entry, wire, server>>
        /\ at' # "batch" /\ player' \in {"absent", "created", "ready"}
        /\ ui => ui'
        /\ player = "ready" => player' = "ready"
    BY <1>0, <1>4 DEF PlayerReady, PrepareUi, CanPrepareUi, GoOn, Surfaces
  <2> QED BY <1>0, <2>1, BudgetGrows, QuietKeeps DEF terrainVars
<1> QED BY <1>1, <1>2, <1>3, <1>4 DEF Still

\* A new card is neither shown nor ready.
LEMMA FreshFacts == FreshCard \in Cards /\ FreshCard # None /\ ~FreshCard.ready
<1>1. FreshCard \in Cards /\ ~FreshCard.ready
  BY DEF FreshCard, Cards
<1> QED BY <1>1, AbsenceAssumption

\* A character enters a world or is rejected.
LEMMA EntrySteps ==
    ASSUME TransferInv, TransferNext, RequestEntry \/ Entered \/ Rejected
    PROVE  TransferOrder'
<1>0. /\ ClientTypes /\ WireInv /\ OwnersInv /\ CallbacksAccounted /\ PendingCardHeld
      /\ world = None
      /\ spent["transfers"] \in Nat /\ spent'["transfers"] \in Nat
      /\ spent'["transfers"] >= spent["transfers"]
  BY TypesOf, BudgetGrows DEF TransferInv, OrderInv, RequestEntry, Entered, Rejected, OwnersInv
<1>1. loading = None /\ scheduled = 0 /\ ~awaiting /\ ~entering /\ wire = <<>> /\ ~server.live
      /\ server.unacked = 0
  BY <1>0 DEF ClientTypes, WireInv
<1>2. CASE RequestEntry
  <2>1. /\ world' = world /\ card' = FreshCard /\ at' = at
        /\ UNCHANGED <<transferVars, player, wire, server>>
    BY <1>2 DEF RequestEntry, Prewarm
  <2>2. ClientTypes' /\ WireInv'
    BY <1>0, <2>1, FreshFacts DEF ClientTypes, WireInv, transferVars
  <2>3. OwnersInv' /\ CallbacksAccounted' /\ PendingCardHeld' /\ RevealInv'
    BY <1>0, <1>1, <2>1, FreshFacts
       DEF OwnersInv, CallbacksAccounted, PendingCardHeld, RevealInv, CardInv, OfferInv, transferVars
  <2> QED BY <2>2, <2>3 DEF TransferOrder, OrderInv
<1>3. CASE Entered
  <2>1. PICK where \in Locations :
            /\ world' = where /\ ~entry' /\ player' = "absent" /\ entry
            /\ server' = [Offline EXCEPT !.live = TRUE, !.owed = TRUE, !.map = where.map]
            /\ UNCHANGED <<transferVars, card, ui, at, wire, spent>>
    BY <1>3 DEF Entered
  <2>2. world' # None /\ where.map \in Maps
    BY <2>1, NoneAssumption DEF Locations
  <2>3. /\ server' \in [live: BOOLEAN, unacked: Nat, offered: BOOLEAN, owed: BOOLEAN,
                        map: Maps \union {None}]
        /\ server'.unacked = 0 /\ ~server'.offered
    BY <2>1, <2>2 DEF Offline
  <2>4. card # None /\ ~card.ready /\ card' = card
    BY <1>0, <2>1 DEF OwnersInv
  <2> HIDE DEF Offline
  <2>5. ClientTypes'
    BY <1>0, <1>1, <2>1, <2>2, <2>3 DEF ClientTypes, transferVars
  <2>8. WireInv'
    <3>1. wire' = <<>> /\ world' # None /\ server'.unacked = 0 /\ ~server'.offered /\ spent' = spent
      BY <1>1, <2>1, <2>2, <2>3
    <3>2. \A i \in 1..Len(wire') : FALSE
      BY <3>1
    <3> QED BY <1>0, <3>1, <3>2 DEF WireInv
  <2>6. OwnersInv' /\ PendingCardHeld' /\ RevealInv'
    BY <1>0, <1>1, <2>1, <2>2, <2>3, <2>4
       DEF OwnersInv, PendingCardHeld, RevealInv, CardInv, OfferInv, transferVars
  <2>7. CallbacksAccounted'
    BY <1>1, <2>1, <2>3, NoNews DEF CallbacksAccounted, News, NewWorlds, transferVars
  <2> QED BY <2>5, <2>6, <2>7, <2>8 DEF TransferOrder, OrderInv
<1>4. CASE Rejected
  <2>1. /\ world' = world /\ card' = None /\ ~entry'
        /\ UNCHANGED <<transferVars, player, at, wire, server>>
    BY <1>4 DEF Rejected, terrainVars
  <2>2. ClientTypes' /\ WireInv'
    BY <1>0, <2>1 DEF ClientTypes, WireInv, transferVars
  <2>3. OwnersInv' /\ CallbacksAccounted' /\ PendingCardHeld' /\ RevealInv'
    BY <1>0, <1>1, <2>1
       DEF OwnersInv, CallbacksAccounted, PendingCardHeld, RevealInv, CardInv, OfferInv, transferVars
  <2> QED BY <2>2, <2>3 DEF TransferOrder, OrderInv
<1> QED BY <1>2, <1>3, <1>4

\* What is dispatched leaves the front of the wire.
Shortened ==
    /\ wire' \in Seq(Packets) /\ Len(wire) \in Nat /\ Len(wire') \in Nat
    /\ \E d \in {0, 1} : /\ Len(wire') + d = Len(wire)
                         /\ \A i \in 1..Len(wire') : i + d \in 1..Len(wire) /\ wire'[i] = wire[i + d]

\* A dispatch shortens the wire by one packet at most.
LEMMA ShortenedWire ==
    ASSUME TransferTypeOK, WireInv, wire' = wire \/ \E kind : Dispatch(kind)
    PROVE  Shortened
<1>1. CASE wire' = wire
  <2>1. wire \in Seq(Packets) /\ Len(wire) \in Nat
    BY DEF TransferTypeOK
  <2>2. Len(wire') + 0 = Len(wire) /\ \A i \in 1..Len(wire') : i + 0 \in 1..Len(wire) /\ wire'[i] = wire[i + 0]
    BY <1>1, <2>1
  <2> QED BY <1>1, <2>1, <2>2 DEF Shortened
<1>2. ASSUME NEW kind, Dispatch(kind) PROVE Shortened
  <2>1. /\ wire' \in Seq(Packets) /\ Len(wire) \in Nat \ {0} /\ Len(wire') = Len(wire) - 1
        /\ \A i \in 1..Len(wire') : i + 1 \in 1..Len(wire) /\ wire'[i] = wire[i + 1]
    BY <1>2, Dispatched
  <2> QED BY <2>1 DEF Shortened
<1> QED BY <1>1, <1>2

\* What is known of the packets holds of those that are left.
LEMMA ShortenedKeeps ==
    ASSUME ClientTypes, WireInv, Shortened, server' = server, world' # None,
           spent["transfers"] \in Nat, spent'["transfers"] \in Nat,
           spent'["transfers"] >= spent["transfers"]
    PROVE  /\ WireInv'
           /\ (\E i \in 1..Len(wire') : wire'[i].kind = "aborted") =>
                 \E i \in 1..Len(wire) : wire[i].kind = "aborted"
<1>1. PICK d \in {0, 1} :
          /\ Len(wire') + d = Len(wire)
          /\ \A i \in 1..Len(wire') : i + d \in 1..Len(wire) /\ wire'[i] = wire[i + d]
  BY DEF Shortened
<1>2. \A i \in 1..Len(wire') : wire'[i].kind \in {"new", "verify"} => wire'[i].at \in Locations
  BY <1>1 DEF WireInv
<1>3. \A i \in 1..Len(wire') : wire'[i].kind = "end" => ~server.live /\ i = Len(wire')
  <2> SUFFICES ASSUME NEW i \in 1..Len(wire'), wire'[i].kind = "end"
               PROVE  ~server.live /\ i = Len(wire')
    OBVIOUS
  <2>1. i + d \in 1..Len(wire) /\ wire[i + d].kind = "end"
    BY <1>1
  <2>2. ~server.live /\ i + d = Len(wire)
    BY <2>1 DEF WireInv
  <2> QED BY <1>1, <2>2 DEF Shortened
<1>4. server.unacked \in Nat
  BY DEF ClientTypes
<1>5. WireInv'
  BY <1>2, <1>3, <1>4 DEF WireInv
<1> QED BY <1>1, <1>5

\* A world is replaced when no map is loading.
LEMMA ReplaceKeeps ==
    ASSUME TransferInv, TransferNext,
           NEW where \in Locations, NEW ack \in BOOLEAN, Replace(where, ack),
           world # None, loading = None,
           destination' \in Locations \union {None}, scheduled' \in Nat,
           scheduled' > 0 => destination' # None, Shortened,
           News(wire) + scheduled = News(wire') + scheduled' + (IF ack THEN 1 ELSE 0)
    PROVE  TransferOrder'
<1>0. /\ ClientTypes /\ WireInv /\ OwnersInv /\ CallbacksAccounted
      /\ spent["transfers"] \in Nat /\ spent'["transfers"] \in Nat
      /\ spent'["transfers"] >= spent["transfers"]
  BY TypesOf, BudgetGrows DEF TransferInv, OrderInv
<1>1. /\ loading' = [at |-> where, ack |-> ack] /\ ~awaiting' /\ entering'
      /\ world' = where /\ player' = "absent" /\ at' # "batch"
      /\ UNCHANGED <<card, ui, entry, server>>
  BY DEF Replace, GoOnOrSurface, GoOn, Surfaces
<1>2. loading' \in Replacements /\ loading' # None /\ loading'.at = where /\ loading'.ack = ack
      /\ world' # None
  BY <1>1, AbsenceAssumption, NoneAssumption DEF Replacements
<1>3. ClientTypes'
  BY <1>0, <1>1, <1>2 DEF ClientTypes, Shortened
<1>4. WireInv'
  BY <1>0, <1>1, <1>2, ShortenedKeeps
<1>5. OwnersInv' /\ PendingCardHeld' /\ RevealInv'
  BY <1>0, <1>1, <1>2 DEF OwnersInv, PendingCardHeld, RevealInv, CardInv, OfferInv
<1>6. CallbacksAccounted'
  <2>1. wire \in Seq(Packets) /\ wire' \in Seq(Packets) /\ scheduled \in Nat
    BY <1>0 DEF ClientTypes, Shortened
  <2>2. News(wire) \in Nat /\ News(wire') \in Nat
    BY <2>1, NewsType
  <2>3. server.unacked = News(wire) + scheduled
    BY <1>0, <2>1, <2>2 DEF CallbacksAccounted, News, NewWorlds
  <2>4. server'.unacked = News(wire') + scheduled' + (IF ack THEN 1 ELSE 0)
    BY <1>1, <2>3
  <2> QED BY <1>2, <2>4 DEF CallbacksAccounted, News, NewWorlds
<1> QED BY <1>3, <1>4, <1>5, <1>6 DEF TransferOrder, OrderInv

\* A packet that changes no more than the scene and who waits for what.
LEMMA ShorterWire ==
    ASSUME TransferInv, TransferNext, Shortened,
           UNCHANGED <<server, world, loading, entry, entering, ui, frame>>,
           at' = "batch" => at = "batch",
           destination' \in Locations \union {None}, scheduled' \in Nat,
           scheduled' > 0 => destination' # None, world # None,
           News(wire) + scheduled = News(wire') + scheduled',
           card' \in Cards \union {None}, PendingCardHeld',
           player' \in {"absent", "created", "ready"}, player = "ready" => player' = "ready",
           ~EarlyTransfers => CardInv'
    PROVE  TransferOrder'
<1>0. /\ ClientTypes /\ WireInv /\ OwnersInv /\ CallbacksAccounted
      /\ spent["transfers"] \in Nat /\ spent'["transfers"] \in Nat
      /\ spent'["transfers"] >= spent["transfers"]
  BY TypesOf, BudgetGrows DEF TransferInv, OrderInv
<1>1. ClientTypes'
  BY <1>0 DEF ClientTypes, Shortened
<1>2. WireInv' /\ ((\E i \in 1..Len(wire') : wire'[i].kind = "aborted") =>
                     \E i \in 1..Len(wire) : wire[i].kind = "aborted")
  BY <1>0, ShortenedKeeps
<1>3. OwnersInv'
  BY <1>0 DEF OwnersInv
<1>4. CallbacksAccounted'
  <2> DEFINE owed == IF loading # None /\ loading.ack THEN 1 ELSE 0
  <2>1. wire \in Seq(Packets) /\ wire' \in Seq(Packets) /\ scheduled \in Nat
    BY <1>0 DEF ClientTypes, Shortened
  <2>2. News(wire) \in Nat /\ News(wire') \in Nat
    BY <2>1, NewsType
  <2>3. server.unacked = News(wire) + scheduled + owed
    BY <1>0, <2>1, <2>2 DEF CallbacksAccounted, News, NewWorlds
  <2>4. server.unacked = News(wire') + scheduled' + owed
    BY <2>1, <2>2, <2>3
  <2> QED BY <2>4 DEF CallbacksAccounted, News, NewWorlds
<1>5. ~EarlyTransfers => OfferInv'
  BY <1>2 DEF TransferInv, RevealInv, OfferInv, Whole
<1> QED BY <1>1, <1>2, <1>3, <1>4, <1>5 DEF TransferOrder, OrderInv, RevealInv

\* Both ways in which a world is replaced.
LEMMA ReplaceSteps ==
    ASSUME TransferInv, TransferNext, TakeDeferred \/ ReceiveVerify
    PROVE  TransferOrder'
<1>0. /\ TransferTypeOK /\ ClientTypes /\ WireInv /\ OwnersInv /\ CallbacksAccounted
      /\ PendingCardHeld /\ TerrainInv
  BY TypesOf DEF TransferInv, OrderInv
<1>1. CASE TakeDeferred
  <2>1. /\ loading = None /\ scheduled > 0 /\ scheduled' = scheduled - 1
        /\ Replace(destination, TRUE) /\ destination' = destination /\ wire' = wire
    BY <1>1 DEF TakeDeferred
  <2>2. world # None /\ destination # None /\ destination \in Locations /\ scheduled \in Nat
    BY <1>0, <2>1 DEF ClientTypes, OwnersInv
  <2>3. wire \in Seq(Packets) /\ Len(wire) \in Nat /\ News(wire) \in Nat
    BY <1>0, NewsType DEF ClientTypes
  <2>4. scheduled' \in Nat
    BY <2>1, <2>2
  <2>5. News(wire) + scheduled = News(wire') + scheduled' + (IF TRUE THEN 1 ELSE 0)
    BY <2>1, <2>2, <2>3
  <2>6. Shortened
    BY <1>0, <2>1, ShortenedWire
  <2> QED BY <2>1, <2>2, <2>4, <2>5, <2>6, ReplaceKeeps
<1>2. CASE ReceiveVerify
  <2> DEFINE where == Head(wire).at
  <2>1. Dispatch("verify")
    BY <1>2 DEF ReceiveVerify
  <2>2. /\ where \in Locations /\ world # None /\ loading = None
        /\ News(wire') \in Nat /\ News(wire) = News(wire')
    BY <1>0, <2>1, Dispatched DEF WireInv, OwnersInv
  <2>3. Shortened /\ scheduled \in Nat /\ where # None
    BY <1>0, <2>1, <2>2, ShortenedWire, NoneAssumption DEF ClientTypes
  <2> HIDE DEF where
  <2>4. CASE where.map # world.map
    <3>1. Replace(where, FALSE) /\ destination' = where /\ scheduled' = scheduled
      BY <1>2, <2>4 DEF ReceiveVerify, where
    <3>2. News(wire) + scheduled = News(wire') + scheduled' + (IF FALSE THEN 1 ELSE 0)
      BY <2>2, <2>3, <3>1
    <3> QED BY <2>2, <2>3, <3>1, <3>2, ReplaceKeeps
  <2>5. CASE where.map = world.map
    <3>1. UNCHANGED <<terrainVars, transferVars, sceneVars, at, server, spent>>
      BY <1>2, <2>5 DEF ReceiveVerify, where
    <3>2. /\ UNCHANGED <<server, world, loading, entry, entering, ui, frame, at, scheduled, destination,
                         card, player, awaiting>>
      BY <3>1 DEF terrainVars, transferVars, sceneVars
    <3>3. /\ News(wire) + scheduled = News(wire') + scheduled'
          /\ destination' \in Locations \union {None} /\ scheduled' \in Nat
          /\ scheduled' > 0 => destination' # None
          /\ card' \in Cards \union {None} /\ player' \in {"absent", "created", "ready"}
      BY <1>0, <2>2, <3>2 DEF ClientTypes, OwnersInv
    <3>4. PendingCardHeld' /\ (~EarlyTransfers => CardInv')
      BY <1>0, <3>2 DEF PendingCardHeld, TransferInv, RevealInv, CardInv, Whole
    <3> QED BY <2>2, <2>3, <3>2, <3>3, <3>4, ShorterWire
  <2> QED BY <2>4, <2>5
<1> QED BY <1>1, <1>2

\* The packets that announce, deny, move and create.
LEMMA PacketSteps ==
    ASSUME TransferInv, TransferNext,
           ReceivePending \/ ReceiveAborted \/ ReceiveNew \/ ReceiveCreate
    PROVE  TransferOrder'
<1>0. /\ TransferTypeOK /\ ClientTypes /\ WireInv /\ OwnersInv /\ PendingCardHeld
      /\ ~EarlyTransfers => CardInv /\ OfferInv
  BY TypesOf DEF TransferInv, OrderInv, RevealInv
<1>1. CASE ReceivePending
  <2>1. /\ Dispatch("pending") /\ card' = FreshCard
        /\ UNCHANGED <<server, world, loading, entry, entering, ui, frame, at, destination,
                       scheduled, player>>
    BY <1>1 DEF ReceivePending, terrainVars
  <2>2. /\ world # None /\ Shortened
        /\ News(wire) + scheduled = News(wire') + scheduled'
    BY <1>0, <2>1, Dispatched, ShortenedWire DEF ClientTypes
  <2>3. /\ card' \in Cards \union {None} /\ PendingCardHeld' /\ CardInv'
    BY <2>1, FreshFacts DEF PendingCardHeld, CardInv
  <2>4. /\ destination' \in Locations \union {None} /\ scheduled' \in Nat
        /\ scheduled' > 0 => destination' # None
        /\ player' \in {"absent", "created", "ready"}
    BY <1>0, <2>1 DEF ClientTypes, OwnersInv
  <2> QED BY <2>1, <2>2, <2>3, <2>4, ShorterWire
<1>2. CASE ReceiveAborted
  <2>1. /\ Dispatch("aborted") /\ card' = None /\ ~awaiting' /\ at' \in {"batch", "present"}
        /\ UNCHANGED <<server, world, loading, entry, entering, ui, frame, destination,
                       scheduled, player>>
    BY <1>2 DEF ReceiveAborted, GoOnOrSurface, GoOn, Surfaces, terrainVars
  <2>2. /\ world # None /\ at = "batch" /\ Shortened
        /\ 1 \in 1..Len(wire) /\ wire[1].kind = "aborted"
        /\ News(wire) + scheduled = News(wire') + scheduled'
    BY <1>0, <2>1, Dispatched, ShortenedWire DEF ClientTypes
  <2>3. ~EarlyTransfers => entering \/ Whole
    BY <1>0, <2>2 DEF OfferInv
  <2>4. PendingCardHeld' /\ (~EarlyTransfers => CardInv')
    BY <2>1, <2>3 DEF PendingCardHeld, CardInv, Whole
  <2>5. /\ destination' \in Locations \union {None} /\ scheduled' \in Nat
        /\ scheduled' > 0 => destination' # None
        /\ player' \in {"absent", "created", "ready"}
    BY <1>0, <2>1 DEF ClientTypes, OwnersInv
  <2> QED BY <2>1, <2>2, <2>4, <2>5, ShorterWire
<1>3. CASE ReceiveNew
  <2>1. /\ Dispatch("new") /\ destination' = Head(wire).at /\ scheduled' = scheduled + 1
        /\ UNCHANGED <<server, world, loading, entry, entering, ui, frame, at, card,
                       player, awaiting>>
    BY <1>3 DEF ReceiveNew, terrainVars, sceneVars
  <2>2. /\ world # None /\ Shortened
        /\ News(wire') \in Nat /\ News(wire) = News(wire') + 1
        /\ Head(wire) = wire[1] /\ wire[1].kind = "new" /\ 1 \in 1..Len(wire)
    BY <1>0, <2>1, Dispatched, ShortenedWire
  <2>7. Head(wire).at \in Locations
    BY <1>0, <2>2 DEF WireInv
  <2>3. scheduled \in Nat /\ News(wire) + scheduled = News(wire') + scheduled'
    BY <1>0, <2>1, <2>2 DEF ClientTypes
  <2>4. /\ destination' \in Locations /\ destination' # None /\ scheduled' \in Nat
    BY <2>1, <2>3, <2>7, NoneAssumption
  <2>5. PendingCardHeld' /\ (~EarlyTransfers => CardInv')
    BY <1>0, <2>1 DEF PendingCardHeld, CardInv, Whole
  <2>6. card' \in Cards \union {None} /\ player' \in {"absent", "created", "ready"}
    BY <1>0, <2>1 DEF ClientTypes
  <2> QED BY <2>1, <2>2, <2>3, <2>4, <2>5, <2>6, ShorterWire
<1>4. CASE ReceiveCreate
  <2>1. /\ Dispatch("create")
        /\ player' = IF player = "absent" THEN "created" ELSE player
        /\ UNCHANGED <<server, world, loading, entry, entering, ui, frame, at, card, destination,
                       scheduled, awaiting>>
    BY <1>4 DEF ReceiveCreate, terrainVars, transferVars
  <2>2. /\ world # None /\ Shortened
        /\ News(wire) + scheduled = News(wire') + scheduled'
    BY <1>0, <2>1, Dispatched, ShortenedWire DEF ClientTypes
  <2>3. PendingCardHeld' /\ (~EarlyTransfers => CardInv')
    BY <1>0, <2>1 DEF PendingCardHeld, CardInv, Whole
  <2>4. /\ destination' \in Locations \union {None} /\ scheduled' \in Nat
        /\ scheduled' > 0 => destination' # None
        /\ card' \in Cards \union {None} /\ player' \in {"absent", "created", "ready"}
        /\ player = "ready" => player' = "ready"
    BY <1>0, <2>1 DEF ClientTypes, OwnersInv
  <2> QED BY <2>1, <2>2, <2>3, <2>4, ShorterWire
<1> QED BY <1>1, <1>2, <1>3, <1>4

\* The last packet of a session leaves nothing behind.
LEMMA EndStep ==
    ASSUME TransferInv, TransferNext, ReceiveEnd
    PROVE  TransferOrder'
<1>0. /\ TransferTypeOK /\ WireInv /\ OwnersInv
      /\ spent'["transfers"] \in Nat
  BY BudgetGrows DEF TransferInv, OrderInv
<1>1. /\ Dispatch("end") /\ world' = None /\ destination' = None /\ scheduled' = 0
      /\ loading' = None /\ ~awaiting' /\ ~entering' /\ card' = None /\ player' = "absent"
      /\ server' = Offline /\ at' # "batch" /\ entry' = entry
  BY DEF ReceiveEnd, GoOnOrSurface, GoOn, Surfaces
<1>2. /\ world # None /\ wire' \in Seq(Packets) /\ Len(wire') = Len(wire) - 1
      /\ Len(wire) \in Nat \ {0} /\ wire[1].kind = "end"
  BY <1>0, <1>1, Dispatched
<1>3. 1 = Len(wire)
  BY <1>0, <1>2 DEF WireInv
<1>4. wire' = <<>>
  <2>1. Len(wire) = 1 /\ Len(wire') = Len(wire) - 1
    BY <1>2, <1>3
  <2>2. Len(wire') = 0
    BY <2>1
  <2> QED BY <1>2, <2>2, EmptySeq
<1>5. /\ Offline \in [live: BOOLEAN, unacked: Nat, offered: BOOLEAN, owed: BOOLEAN,
                      map: Maps \union {None}]
      /\ ~Offline.live /\ Offline.unacked = 0 /\ ~Offline.offered
  BY DEF Offline
<1> HIDE DEF Offline
<1>6. ClientTypes'
  BY <1>1, <1>2, <1>5 DEF ClientTypes
<1>7. WireInv'
  <2>1. \A i \in 1..Len(wire') : FALSE
    BY <1>4
  <2> QED BY <1>0, <1>1, <1>4, <1>5, <2>1 DEF WireInv
<1>8. OwnersInv' /\ CallbacksAccounted' /\ PendingCardHeld' /\ RevealInv'
  BY <1>0, <1>1, <1>2
     DEF OwnersInv, CallbacksAccounted, PendingCardHeld, RevealInv, CardInv, OfferInv
<1> QED BY <1>6, <1>7, <1>8 DEF TransferOrder, OrderInv

\* A card that is shown or completed keeps its other fields.
LEMMA CardFields ==
    ASSUME card \in Cards \union {None}, card # None, NEW b \in BOOLEAN
    PROVE  /\ [card EXCEPT !.ready = b] \in Cards /\ [card EXCEPT !.ready = b].ready = b
           /\ [card EXCEPT !.shown = TRUE, !.final = card.ready] \in Cards
           /\ [card EXCEPT !.shown = TRUE, !.final = card.ready].ready = card.ready
BY DEF Cards

\* What a frame shows.
LEMMA PresentStep ==
    ASSUME TransferInv, TransferNext, PresentFrame
    PROVE  TransferOrder'
<1>0. /\ ClientTypes /\ WireInv /\ OwnersInv /\ CallbacksAccounted /\ PendingCardHeld
      /\ ~EarlyTransfers => CardInv /\ OfferInv
      /\ spent["transfers"] \in Nat /\ spent'["transfers"] \in Nat
      /\ spent'["transfers"] >= spent["transfers"]
  BY TypesOf, BudgetGrows DEF TransferInv, OrderInv, RevealInv
<1>1. /\ UNCHANGED <<world, frame, transferVars, ui, player, entry, wire, server>>
      /\ at' = "session"
      /\ card' = IF card = None \/ CardDone THEN None
                 ELSE [card EXCEPT !.shown = TRUE, !.final = card.ready]
  BY DEF PresentFrame, GoOn, terrainVars
<1>2. CASE card = None \/ CardDone
  <2>1. card' = None /\ (card # None => card.ready)
    BY <1>1, <1>2 DEF CardDone
  <2>2. ClientTypes' /\ WireInv' /\ OwnersInv' /\ PendingCardHeld'
    BY <1>0, <1>1, <2>1 DEF ClientTypes, WireInv, OwnersInv, PendingCardHeld, transferVars
  <2> QED
    BY <1>0, <1>1, <2>1, <2>2
       DEF TransferOrder, OrderInv, CallbacksAccounted, RevealInv, CardInv, OfferInv, Whole,
           transferVars
<1>3. CASE card # None /\ ~CardDone
  <2>1. card' \in Cards /\ card' # None /\ card'.ready = card.ready
    <3>1. card \in Cards
      BY <1>0, <1>3 DEF ClientTypes
    <3>2. /\ [card EXCEPT !.shown = TRUE, !.final = card.ready] \in Cards
          /\ [card EXCEPT !.shown = TRUE, !.final = card.ready].ready = card.ready
      BY <1>3, <3>1, CardFields
    <3> QED BY <1>1, <1>3, <3>2, AbsenceAssumption
  <2>2. ClientTypes' /\ WireInv' /\ OwnersInv' /\ PendingCardHeld'
    BY <1>0, <1>1, <1>3, <2>1 DEF ClientTypes, WireInv, OwnersInv, PendingCardHeld, transferVars
  <2> QED
    BY <1>0, <1>1, <1>3, <2>1, <2>2
       DEF TransferOrder, OrderInv, CallbacksAccounted, RevealInv, CardInv, OfferInv, Whole,
           transferVars
<1> QED BY <1>2, <1>3

\* The map, the player and the card are completed in this order.
LEMMA FinishStep ==
    ASSUME TransferInv, TransferNext, FinishService
    PROVE  TransferOrder'
<1>0. /\ ClientTypes /\ WireInv /\ OwnersInv /\ CallbacksAccounted /\ PendingCardHeld
      /\ ~EarlyTransfers => CardInv /\ OfferInv
      /\ spent["transfers"] \in Nat /\ spent'["transfers"] \in Nat
      /\ spent'["transfers"] >= spent["transfers"]
  BY TypesOf, BudgetGrows DEF TransferInv, OrderInv, RevealInv
<1>1. /\ UNCHANGED <<world, frame, destination, scheduled, awaiting, ui, player, entry, wire>>
      /\ at' = "present"
      /\ entering' = (entering /\ ~CompletesPlayer)
      /\ \/ card' = IF card = None THEN None ELSE [card EXCEPT !.ready = @ \/ SceneReady]
         \/ card' = card
  BY DEF FinishService, GoOn, Surfaces, terrainVars
<1>2. PICK room \in BOOLEAN :
          /\ loading' = IF MapComplete(room) THEN None ELSE loading
          /\ server' = IF MapComplete(room) /\ loading.ack
                       THEN [server EXCEPT !.unacked = @ - 1] ELSE server
  BY DEF FinishService
<1>3. /\ server' \in [live: BOOLEAN, unacked: Nat, offered: BOOLEAN, owed: BOOLEAN,
                      map: Maps \union {None}]
      /\ server'.live = server.live /\ server'.offered = server.offered
      /\ server'.unacked <= server.unacked
      /\ world # None =>
            server'.unacked + (IF loading # None /\ loading.ack THEN 1 ELSE 0)
                = server.unacked + (IF loading' # None /\ loading'.ack THEN 1 ELSE 0)
  <2>1. CASE MapComplete(room) /\ loading.ack
    <3>1. loading # None /\ world # None /\ loading' = None
      BY <1>0, <1>2, <2>1 DEF MapComplete, ClientTypes
    <3>2. wire \in Seq(Packets) /\ News(wire) \in Nat /\ scheduled \in Nat
      BY <1>0, NewsType DEF ClientTypes
    <3>3. server.unacked = News(wire) + scheduled + 1
      BY <1>0, <2>1, <3>1 DEF CallbacksAccounted, News, NewWorlds
    <3>4. server' = [server EXCEPT !.unacked = server.unacked - 1] /\ server.unacked - 1 \in Nat
      BY <1>2, <2>1, <3>2, <3>3
    <3>5. /\ server \in [live: BOOLEAN, unacked: Nat, offered: BOOLEAN, owed: BOOLEAN,
                         map: Maps \union {None}]
      BY <1>0 DEF ClientTypes
    <3> HIDE DEF MapComplete
    <3> QED BY <2>1, <3>1, <3>4, <3>5
  <2>2. CASE ~(MapComplete(room) /\ loading.ack)
    <3>1. server' = server /\ server.unacked \in Nat
      BY <1>0, <1>2, <2>2 DEF ClientTypes
    <3>2. loading' = loading \/ (loading' = None /\ ~loading.ack)
      BY <1>2, <2>2
    <3> QED BY <1>0, <3>1, <3>2 DEF ClientTypes
  <2> QED BY <2>1, <2>2
<1>4. /\ card' \in Cards \union {None} /\ (card' = None <=> card = None)
      /\ card' # None /\ card'.ready => card.ready \/ SceneReady
  <2>1. CASE card' = card
    BY <1>0, <2>1 DEF ClientTypes
  <2>2. CASE card # None /\ card' = [card EXCEPT !.ready = card.ready \/ SceneReady]
    <3>1. (card.ready \/ SceneReady) \in BOOLEAN /\ card \in Cards \union {None}
      BY <1>0 DEF ClientTypes
    <3> HIDE DEF SceneReady
    <3>2. card' \in Cards /\ card'.ready = (card.ready \/ SceneReady)
      BY <2>2, <3>1, CardFields
    <3> QED BY <2>2, <3>2, AbsenceAssumption
  <2> QED BY <1>1, <2>1, <2>2
<1>5. ClientTypes'
  <2>1. loading' \in Replacements \union {None} /\ (world = None => loading' = None)
    BY <1>0, <1>2 DEF ClientTypes
  <2> QED BY <1>0, <1>1, <1>3, <1>4, <2>1 DEF ClientTypes
<1>6. WireInv'
  <2>1. world = None => server' = server
    BY <1>0, <1>2 DEF ClientTypes, MapComplete
  <2>2. server.unacked \in Nat /\ server'.unacked \in Nat
    BY <1>0, <1>3 DEF ClientTypes
  <2> QED BY <1>0, <1>1, <1>3, <2>1, <2>2 DEF WireInv
<1>7. OwnersInv'
  <2>1. SceneReady => world # None
    BY DEF SceneReady
  <2> QED BY <1>0, <1>1, <1>2, <1>4, <2>1 DEF OwnersInv
<1>8. CallbacksAccounted'
  <2>1. wire \in Seq(Packets) /\ News(wire) \in Nat /\ scheduled \in Nat
        /\ server.unacked \in Nat /\ server'.unacked \in Nat
    BY <1>0, <1>3, NewsType DEF ClientTypes
  <2>2. world # None => server.unacked = News(wire) + scheduled
                                         + (IF loading # None /\ loading.ack THEN 1 ELSE 0)
    BY <1>0 DEF CallbacksAccounted, News, NewWorlds
  <2>3. world # None => server'.unacked = News(wire) + scheduled
                                         + (IF loading' # None /\ loading'.ack THEN 1 ELSE 0)
    BY <1>3, <2>1, <2>2
  <2> QED BY <1>1, <2>3 DEF CallbacksAccounted, News, NewWorlds
<1>9. PendingCardHeld'
  BY <1>0, <1>1, <1>4 DEF PendingCardHeld, SceneReady, HoldsCard
<1>10. SceneReady \/ CompletesPlayer => Whole
  BY DEF SceneReady, CompletesPlayer, Whole
<1>11. ~EarlyTransfers => RevealInv'
  <2>1. Whole' <=> Whole
    BY <1>1 DEF Whole
  <2> QED BY <1>0, <1>1, <1>3, <1>4, <1>10, <2>1 DEF RevealInv, CardInv, OfferInv
<1> QED BY <1>5, <1>6, <1>7, <1>8, <1>9, <1>11 DEF TransferOrder, OrderInv

\* The server sends while the session lives.
LEMMA Sent ==
    ASSUME TransferInv, TransferNext, Outside,
           UNCHANGED <<terrainVars, transferVars, sceneVars, at>>,
           NEW p \in Packets, wire' = Append(wire, p),
           p.kind \in {"new", "verify"} => p.at \in Locations,
           p.kind = "end" => ~server'.live,
           server' \in [live: BOOLEAN, unacked: Nat, offered: BOOLEAN, owed: BOOLEAN,
                        map: Maps \union {None}],
           server'.unacked = server.unacked + (IF p.kind = "new" THEN 1 ELSE 0),
           server'.unacked + (IF server'.offered THEN 1 ELSE 0) <= spent'["transfers"],
           ~EarlyTransfers /\ (server'.offered \/ p.kind = "aborted") => entering \/ Whole
    PROVE  TransferOrder'
<1>0. /\ TransferTypeOK /\ ClientTypes /\ WireInv /\ OwnersInv /\ CallbacksAccounted
      /\ PendingCardHeld
      /\ ~EarlyTransfers => CardInv /\ OfferInv
  BY TypesOf DEF TransferInv, OrderInv, RevealInv
<1> DEFINE n == Len(wire)
<1>1. /\ wire' \in Seq(Packets) /\ n \in Nat /\ Len(wire') = n + 1
      /\ \A i \in 1..n : wire'[i] = wire[i]
      /\ wire'[n + 1] = p
      /\ News(wire) \in Nat
      /\ News(wire') = News(wire) + (IF p.kind = "new" THEN 1 ELSE 0)
  BY <1>0, SentLast
<1>2. world # None /\ server.live /\ world' # None
  BY <1>0 DEF Outside, WireInv, terrainVars
<1>3. \A i \in 1..n : wire[i].kind # "end"
  BY <1>0, <1>2 DEF WireInv
<1>4. \A i \in 1..Len(wire') : (i \in 1..n /\ wire'[i] = wire[i]) \/ (i = n + 1 /\ wire'[i] = p)
  BY <1>1
<1>5. ClientTypes'
  BY <1>0, <1>1, <1>2 DEF ClientTypes, transferVars, sceneVars
<1>6. WireInv'
  <2>1. \A i \in 1..Len(wire') : wire'[i].kind \in {"new", "verify"} => wire'[i].at \in Locations
    BY <1>0, <1>4 DEF WireInv
  <2>2. \A i \in 1..Len(wire') : wire'[i].kind = "end" => ~server'.live /\ i = Len(wire')
    BY <1>1, <1>3, <1>4
  <2> QED BY <1>2, <2>1, <2>2 DEF WireInv
<1>11. UNCHANGED <<world, frame, destination, scheduled, loading, awaiting, entering, card, ui,
                  player, entry, at>>
  BY DEF terrainVars, transferVars, sceneVars
<1>7. OwnersInv' /\ PendingCardHeld'
  BY <1>0, <1>11 DEF OwnersInv, PendingCardHeld
<1>8. CallbacksAccounted'
  <2> DEFINE owed == IF loading # None /\ loading.ack THEN 1 ELSE 0
  <2>1. scheduled \in Nat /\ scheduled' = scheduled /\ loading' = loading
    BY <1>0 DEF ClientTypes, transferVars
  <2>2. server.unacked = News(wire) + scheduled + owed
    BY <1>0, <1>2 DEF CallbacksAccounted, News, NewWorlds
  <2>3. server'.unacked = News(wire') + scheduled' + owed
    BY <1>1, <2>1, <2>2
  <2> QED BY <2>1, <2>3 DEF CallbacksAccounted, News, NewWorlds
<1>9. Whole' <=> Whole
  BY <1>11 DEF Whole
<1>10. ~EarlyTransfers => RevealInv'
  <2>1. (\E i \in 1..Len(wire') : wire'[i].kind = "aborted") =>
           p.kind = "aborted" \/ \E i \in 1..n : wire[i].kind = "aborted"
    BY <1>4
  <2>2. ~EarlyTransfers => CardInv'
    BY <1>0, <1>9, <1>11 DEF CardInv
  <2>3. ~EarlyTransfers => OfferInv'
    BY <1>0, <1>2, <1>9, <1>11, <2>1 DEF OfferInv
  <2> QED BY <2>2, <2>3 DEF RevealInv
<1> QED BY <1>5, <1>6, <1>7, <1>8, <1>10 DEF TransferOrder, OrderInv

\* A packet is what it was made of.
LEMMA PacketType ==
    ASSUME NEW kind \in {"pending", "aborted", "new", "verify", "create", "end"},
           NEW where \in Locations \union {None}
    PROVE  /\ Packet(kind, where) \in Packets
           /\ Packet(kind, where).kind = kind /\ Packet(kind, where).at = where
BY DEF Packet, Packets

\* Every packet of the server.
LEMMA ServerSteps ==
    ASSUME TransferInv, TransferNext, Server
    PROVE  TransferOrder'
<1> DEFINE Memory == [live: BOOLEAN, unacked: Nat, offered: BOOLEAN, owed: BOOLEAN,
                      map: Maps \union {None}]
<1>0. /\ TransferTypeOK /\ WireInv /\ server \in Memory
      /\ ~EarlyTransfers => CardInv /\ OfferInv
  BY TypesOf DEF TransferInv, OrderInv, RevealInv, ClientTypes
<1>1. /\ spent["transfers"] \in Nat /\ spent'["transfers"] \in Nat
      /\ spent'["transfers"] >= spent["transfers"]
      /\ Spend("transfers") => spent'["transfers"] = spent["transfers"] + 1
  BY <1>0, BudgetGrows, Spending, BoundsFacts
<1>2. /\ server.unacked \in Nat
      /\ server.unacked + (IF server.offered THEN 1 ELSE 0) <= spent["transfers"]
      /\ server.live => world # None
  BY <1>0 DEF WireInv
<1>3. CASE ServerPending
  <2> DEFINE p == Packet("pending", None)
  <2>1. /\ Outside /\ ~server.offered /\ Spend("transfers")
        /\ wire' = Append(wire, p)
        /\ server' = [server EXCEPT !.offered = TRUE]
        /\ UNCHANGED <<terrainVars, transferVars, sceneVars, at>>
    BY <1>3 DEF ServerPending, Sends
  <2>2. server' \in Memory /\ server'.unacked = server.unacked /\ server'.offered
    BY <1>0, <2>1
  <2>3. ~EarlyTransfers => entering \/ Whole
    BY <1>0, <1>3 DEF ServerPending, Revealed, CardDone, CardInv
  <2>4. server'.unacked + (IF server'.offered THEN 1 ELSE 0) <= spent'["transfers"]
    BY <1>1, <1>2, <2>1, <2>2
  <2>5. p \in Packets /\ p.kind = "pending"
    BY PacketType
  <2> HIDE DEF p
  <2>6. p.kind \in {"new", "verify"} => p.at \in Locations
    BY <2>5
  <2>7. p.kind = "end" => ~server'.live
    BY <2>5
  <2>8. server'.unacked = server.unacked + (IF p.kind = "new" THEN 1 ELSE 0)
    BY <1>2, <2>2, <2>5
  <2>9. ~EarlyTransfers /\ (server'.offered \/ p.kind = "aborted") => entering \/ Whole
    BY <2>3
  <2> QED BY <2>1, <2>2, <2>4, <2>5, <2>6, <2>7, <2>8, <2>9, Sent
<1>4. CASE ServerAborts
  <2> DEFINE p == Packet("aborted", None)
  <2>1. /\ Outside /\ wire' = Append(wire, p)
        /\ server' = [server EXCEPT !.offered = FALSE]
        /\ UNCHANGED <<terrainVars, transferVars, sceneVars, at>>
    BY <1>4 DEF ServerAborts, Sends
  <2>2. server' \in Memory /\ server'.unacked = server.unacked /\ ~server'.offered
    BY <1>0, <2>1
  <2>3. ~EarlyTransfers => entering \/ Whole
    BY <1>0, <1>2, <1>4 DEF ServerAborts, OfferInv, Outside
  <2>4. server'.unacked + (IF server'.offered THEN 1 ELSE 0) <= spent'["transfers"]
    BY <1>1, <1>2, <2>2
  <2>5. p \in Packets /\ p.kind = "aborted"
    BY PacketType
  <2> HIDE DEF p
  <2>6. p.kind \in {"new", "verify"} => p.at \in Locations
    BY <2>5
  <2>7. p.kind = "end" => ~server'.live
    BY <2>5
  <2>8. server'.unacked = server.unacked + (IF p.kind = "new" THEN 1 ELSE 0)
    BY <1>2, <2>2, <2>5
  <2>9. ~EarlyTransfers /\ (server'.offered \/ p.kind = "aborted") => entering \/ Whole
    BY <2>3
  <2> QED BY <2>1, <2>2, <2>4, <2>5, <2>6, <2>7, <2>8, <2>9, Sent
<1>5. CASE ServerMoves
  <2>1. PICK where \in Locations :
            /\ Outside /\ (server.offered \/ Spend("transfers"))
            /\ wire' = Append(wire, Packet("new", where))
            /\ server' = [server EXCEPT !.unacked = @ + 1, !.offered = FALSE, !.owed = TRUE,
                                        !.map = where.map]
            /\ UNCHANGED <<terrainVars, transferVars, sceneVars, at>>
    BY <1>5 DEF ServerMoves, Sends
  <2>2. where.map \in Maps
    BY DEF Locations
  <2>3. server' \in Memory /\ server'.unacked = server.unacked + 1 /\ ~server'.offered
    <3>1. server.unacked + 1 \in Nat
      BY <1>2
    <3> QED BY <1>0, <2>1, <2>2, <3>1
  <2>4. server'.unacked + (IF server'.offered THEN 1 ELSE 0) <= spent'["transfers"]
    BY <1>1, <1>2, <2>1, <2>3
  <2>5. /\ Packet("new", where) \in Packets
        /\ Packet("new", where).kind = "new" /\ Packet("new", where).at = where
    BY <2>1, PacketType
  <2> QED BY <1>2, <2>1, <2>3, <2>4, <2>5, Sent
<1>6. CASE ServerVerifies
  <2>1. PICK where \in Locations :
            /\ Outside /\ ~server.offered
            /\ wire' = Append(wire, Packet("verify", where))
            /\ server' = [server EXCEPT !.owed = @ \/ where.map # server.map, !.map = where.map]
            /\ UNCHANGED <<terrainVars, transferVars, sceneVars, at>>
    BY <1>6 DEF ServerVerifies, Sends
  <2>2. where.map \in Maps
    BY DEF Locations
  <2>3. server' \in Memory /\ server'.unacked = server.unacked /\ ~server'.offered
    BY <1>0, <2>1, <2>2
  <2>4. server'.unacked + (IF server'.offered THEN 1 ELSE 0) <= spent'["transfers"]
    BY <1>1, <1>2, <2>3
  <2>5. /\ Packet("verify", where) \in Packets
        /\ Packet("verify", where).kind = "verify" /\ Packet("verify", where).at = where
    BY <2>1, PacketType
  <2> QED BY <1>2, <2>1, <2>3, <2>4, <2>5, Sent
<1>7. CASE ServerCreates \/ ServerEnds
  <2>1. PICK kind \in {"create", "end"} :
            /\ Outside /\ wire' = Append(wire, Packet(kind, None))
            /\ \/ kind = "create" /\ server' = [server EXCEPT !.owed = FALSE]
               \/ kind = "end" /\ server' = [server EXCEPT !.live = FALSE]
            /\ UNCHANGED <<terrainVars, transferVars, sceneVars, at>>
    BY <1>7 DEF ServerCreates, ServerEnds, Sends
  <2>2. /\ server' \in Memory /\ server'.unacked = server.unacked
        /\ server'.offered = server.offered /\ (kind = "end" => ~server'.live)
    BY <1>0, <2>1
  <2>3. ~EarlyTransfers /\ server'.offered => entering \/ Whole
    BY <1>0, <1>2, <2>1, <2>2 DEF OfferInv, Outside
  <2>4. server'.unacked + (IF server'.offered THEN 1 ELSE 0) <= spent'["transfers"]
    BY <1>1, <1>2, <2>2
  <2>5. /\ Packet(kind, None) \in Packets
        /\ Packet(kind, None).kind = kind /\ Packet(kind, None).at = None
    BY <2>1, PacketType
  <2> QED BY <1>2, <2>1, <2>2, <2>3, <2>4, <2>5, Sent
<1> QED BY <1>3, <1>4, <1>5, <1>6, <1>7 DEF Server

-----------------------------------------------------------------------------
(* World transfers: the theorems.                                          *)

\* Every step keeps what is known of transfers, packets and the card.
LEMMA StepOrder ==
    ASSUME TransferInv, TransferNext
    PROVE  TransferOrder'
BY QuietSteps, EntrySteps, ReplaceSteps, PacketSteps, EndStep, PresentStep, FinishStep, ServerSteps
   DEF TransferNext, Service, Events, Still

\* No more is owed than was ever announced, so that every count stays in its bound.
LEMMA StepTypes ==
    ASSUME TransferInv, TransferNext
    PROVE  TransferTypeOK'
<1>1. TransferTypeOK /\ TerrainTypeOK' /\ ClientTypes' /\ WireInv' /\ CallbacksAccounted'
  BY StepTerrain, StepOrder DEF TransferInv, TerrainInv, TransferOrder, OrderInv
<1>2. ClientFlags'
  <2>1. ClientFlags
    BY <1>1 DEF TransferTypeOK, ClientFlags
  <2> QED BY <2>1, StepClientFlags
<1>3. at' \in {"session", "batch", "terrain", "ui", "stream", "finish", "present"}
  BY <1>1, StepAt
<1>4. spent' \in [DOMAIN Bounds -> Nat] /\ \A b \in DOMAIN Bounds : spent'[b] <= Bounds[b]
  <2>1. spent \in [DOMAIN Bounds -> Nat] /\ \A b \in DOMAIN Bounds : spent[b] <= Bounds[b]
    BY <1>1 DEF TransferTypeOK
  <2>2. ASSUME NEW b \in DOMAIN Bounds, Spend(b)
        PROVE  spent' \in [DOMAIN Bounds -> Nat] /\ \A c \in DOMAIN Bounds : spent'[c] <= Bounds[c]
    BY <1>1, <2>2, Spending
  <2> QED BY <2>1, <2>2, StepSpends
<1>5. spent'["transfers"] \in Nat /\ spent'["transfers"] <= MaxTransfers /\ MaxTransfers \in Nat
  BY <1>4, BoundsFacts, TransferAssumption DEF Bounds
<1>6. server'.unacked \in 0..MaxTransfers
  <2>1. server'.unacked \in Nat
        /\ server'.unacked + (IF server'.offered THEN 1 ELSE 0) <= spent'["transfers"]
    BY <1>1 DEF ClientTypes, WireInv
  <2> QED BY <1>5, <2>1
<1>7. scheduled' \in 0..MaxTransfers
  <2>1. scheduled' \in Nat /\ wire' \in Seq(Packets) /\ (world' = None => scheduled' = 0)
    BY <1>1 DEF ClientTypes
  <2>2. News(wire') \in Nat
    BY <2>1, NewsType
  <2>3. world' # None => scheduled' <= server'.unacked
    BY <1>1, <1>6, <2>1, <2>2 DEF CallbacksAccounted, News, NewWorlds
  <2> QED BY <1>5, <1>6, <2>1, <2>3
<1>8. server' \in [live: BOOLEAN, unacked: 0..MaxTransfers, offered: BOOLEAN, owed: BOOLEAN,
                   map: Maps \union {None}]
  BY <1>1, <1>6 DEF ClientTypes
<1>9. /\ awaiting' \in BOOLEAN /\ entering' \in BOOLEAN /\ ui' \in BOOLEAN /\ entry' \in BOOLEAN
  BY <1>2, Zenon DEF ClientFlags
<1> QED BY <1>1, <1>3, <1>4, <1>7, <1>8, <1>9 DEF TransferTypeOK, ClientTypes

\* The invariant from which the theorems about world transfers follow.
THEOREM TransferInvariant == TransferSpec => []TransferInv
<1>1. TransferInit => TransferInv
  <2> SUFFICES ASSUME TransferInit PROVE TransferInv
    OBVIOUS
  <2>1. /\ world = None /\ loading = None /\ card = None /\ ~entry /\ wire = <<>> /\ at = "session"
        /\ destination = None /\ scheduled = 0 /\ ~awaiting /\ ~entering
        /\ spent = [b \in DOMAIN Bounds |-> 0] /\ server = Offline
    BY DEF TransferInit, TerrainInit
  <2>2. TerrainInv
    BY DEF TransferInit, TerrainInit, TerrainInv, TerrainTypeOK, MapInv, JobInv, NoRetiredGeneration,
       GpuFollowsCpu
  <2>3. /\ spent \in [DOMAIN Bounds -> Nat] /\ \A b \in DOMAIN Bounds : spent[b] <= Bounds[b]
        /\ spent["transfers"] = 0
    BY <2>1, BoundsFacts
  <2>4. /\ server \in [live: BOOLEAN, unacked: 0..MaxTransfers, offered: BOOLEAN, owed: BOOLEAN,
                       map: Maps \union {None}]
        /\ ~server.live /\ server.unacked = 0 /\ ~server.offered
    BY <2>1, TransferAssumption DEF Offline
  <2>5. wire \in Seq(Packets) /\ 0 \in 0..MaxTransfers /\ \A i \in 1..Len(wire) : FALSE
    BY <2>1, EmptySeq, TransferAssumption
  <2>6. TransferTypeOK
    BY <2>1, <2>2, <2>3, <2>4, <2>5 DEF TransferInit, TransferTypeOK, TerrainInv
  <2>7. WireInv
    BY <2>1, <2>3, <2>4, <2>5 DEF WireInv
  <2>8. OwnersInv /\ CallbacksAccounted /\ PendingCardHeld /\ RevealInv
    BY <2>1 DEF OwnersInv, CallbacksAccounted, PendingCardHeld, RevealInv, CardInv, OfferInv
  <2> QED BY <2>2, <2>6, <2>7, <2>8 DEF TransferInv, OrderInv
<1>2. TransferInv /\ [TransferNext]_clientVars => TransferInv'
  <2> SUFFICES ASSUME TransferInv, [TransferNext]_clientVars PROVE TransferInv'
    OBVIOUS
  <2>1. CASE TransferNext
    BY <2>1, StepTerrain, StepOrder, StepTypes DEF TransferInv, TransferOrder
  <2>2. CASE UNCHANGED clientVars
    <3>1. UNCHANGED <<terrainVars, world, active, frame, destination, scheduled, loading, awaiting,
                      entering, card, ui, player, entry, at, wire, server, spent>>
      BY <2>2 DEF clientVars, transferVars, sceneVars, terrainVars
    <3>2. TerrainInv'
      BY <3>1, SameTerrain DEF TransferInv
    <3>3. TransferTypeOK'
      BY <3>1, <3>2 DEF TransferInv, TransferTypeOK, TerrainInv
    <3>4. OrderInv' /\ (~EarlyTransfers => RevealInv')
      BY <3>1 DEF TransferInv, OrderInv, WireInv, OwnersInv, CallbacksAccounted, PendingCardHeld,
         RevealInv, CardInv, OfferInv, Whole
    <3> QED BY <3>2, <3>3, <3>4 DEF TransferInv
  <2> QED BY <2>1, <2>2
<1> QED BY <1>1, <1>2, PTL DEF TransferSpec

\* The client's transfer state, card, packets and terrain keep their types.
THEOREM TransferTypes == TransferSpec => []TransferTypeOK
<1>1. TransferInv => TransferTypeOK
  BY DEF TransferInv
<1> QED BY <1>1, TransferInvariant, PTL

\* Every NEW_WORLD the server waits for is on the wire, scheduled or being loaded,
\* however transfers overlap and whatever interface error cuts a frame short.
THEOREM CallbacksAnswered == TransferSpec => []CallbacksAccounted
<1>1. TransferInv => CallbacksAccounted
  BY DEF TransferInv, OrderInv
<1> QED BY <1>1, TransferInvariant, PTL

\* The card of an announced transfer is up and not completed, even when the server
\* announces or denies transfers behind a loading card.
THEOREM AnnouncedCardHeld == TransferSpec => []PendingCardHeld
<1>1. TransferInv => PendingCardHeld
  BY DEF TransferInv, OrderInv
<1> QED BY <1>1, TransferInvariant, PTL

\* With a server that announces transfers to a world in view only, what is revealed
\* is whole and is the world the server published.
THEOREM CardHides == ASSUME ~EarlyTransfers PROVE TransferSpec => []CardHidesTransfer
<1>1. TransferInv => CardHidesTransfer
  <2> SUFFICES ASSUME TransferInv PROVE CardHidesTransfer
    OBVIOUS
  <2>1. TerrainInv /\ PendingCardHeld /\ CardInv
    BY DEF TransferInv, OrderInv, RevealInv
  <2>2. RevealedWorldComplete
    <3> SUFFICES ASSUME Revealed
                 PROVE  ui /\ player = "ready" /\ frame # None /\ frame.map = world.map
      BY DEF RevealedWorldComplete
    <3>1. ui /\ player = "ready" /\ frame # None
      BY <2>1 DEF Revealed, CardDone, CardInv, Whole
    <3>2. frame.map = active.map /\ active # None /\ active.map = world.map
      BY <2>1, <3>1 DEF TerrainInv, GpuFollowsCpu, MapInv
    <3> QED BY <3>1, <3>2
  <2> QED BY <2>1, <2>2 DEF CardHidesTransfer
<1> QED BY <1>1, TransferInvariant, PTL

\* The server's count falls only where the client acknowledges or the session ends.
LEMMA CountFalls ==
    ASSUME TransferInv, TransferNext, world' # None, server'.unacked < server.unacked
    PROVE  FinishService
<1>0. TransferTypeOK /\ WireInv /\ server.unacked \in Nat
  BY DEF TransferInv, OrderInv, TransferTypeOK
<1>1. server' # server
  BY <1>0
<1>2. CASE Still
  BY <1>1, <1>2, StillKeeps
<1>3. CASE TakeDeferred \/ ReceiveVerify
  BY <1>1, <1>3 DEF TakeDeferred, ReceiveVerify, Replace
<1>4. CASE RequestEntry \/ Rejected \/ PlayerReady \/ PrepareUi \/ PresentFrame
  BY <1>1, <1>4 DEF RequestEntry, Rejected, PlayerReady, PrepareUi, PresentFrame
<1>5. CASE ReceivePending \/ ReceiveAborted \/ ReceiveNew \/ ReceiveCreate
  BY <1>1, <1>5 DEF ReceivePending, ReceiveAborted, ReceiveNew, ReceiveCreate
<1>6. CASE ReceiveEnd
  BY <1>6 DEF ReceiveEnd
<1>7. CASE Entered
  <2>1. world = None
    BY <1>7 DEF Entered, TransferInv, OrderInv, OwnersInv
  <2>2. server.unacked = 0
    BY <1>0, <2>1 DEF WireInv
  <2>3. server'.unacked = 0
    BY <1>7 DEF Entered, Offline
  <2> QED BY <2>2, <2>3
<1>8. CASE Server
  <2>1. server \in [live: BOOLEAN, unacked: 0..MaxTransfers, offered: BOOLEAN, owed: BOOLEAN,
                    map: Maps \union {None}]
    BY <1>0 DEF TransferTypeOK
  <2>2. server'.unacked \in {server.unacked, server.unacked + 1}
    BY <1>8, <2>1 DEF Server, ServerPending, ServerAborts, ServerMoves, ServerVerifies,
       ServerCreates, ServerEnds
  <2> QED BY <1>0, <2>2
<1> QED BY <1>2, <1>3, <1>4, <1>5, <1>6, <1>7, <1>8 DEF TransferNext, Service, Events, Still

\* An acknowledgement leaves only when the destination's own terrain, of the current
\* ownership generation, is what the renderer shows.
THEOREM AckAtDestination == TransferSpec => AckMeansDestination
<1> DEFINE Step == world' # None /\ server'.unacked < server.unacked =>
                     /\ frame # None
                     /\ \A g \in frame.tiles : g.map = loading.at.map /\ g.epoch = epoch
<1>1. TransferInv /\ [TransferNext]_clientVars => [Step]_clientVars
  <2> SUFFICES ASSUME TransferInv, TransferNext, world' # None, server'.unacked < server.unacked
               PROVE  /\ frame # None
                      /\ \A g \in frame.tiles : g.map = loading.at.map /\ g.epoch = epoch
    OBVIOUS
  <2>1. FinishService /\ TerrainInv /\ OwnersInv /\ server.unacked \in Nat
    BY CountFalls DEF TransferInv, OrderInv, TransferTypeOK
  <2>2. PICK room \in BOOLEAN : MapComplete(room)
    BY <2>1 DEF FinishService
  <2>3. frame # None /\ loading # None /\ loading.at.map = world.map
    BY <2>1, <2>2 DEF MapComplete, OwnersInv
  <2>4. /\ active # None /\ frame.map = active.map /\ active.map = world.map
        /\ \A g \in frame.tiles : g.map = frame.map
        /\ \A g \in frame.tiles : g.epoch = epoch
    BY <2>1, <2>3 DEF TerrainInv, GpuFollowsCpu, MapInv, TerrainTypeOK, IsResident,
       NoRetiredGeneration
  <2> QED BY <2>3, <2>4
<1> QED BY <1>1, TransferInvariant, PTL DEF TransferSpec, AckMeansDestination
=============================================================================
