----------------------------- MODULE TerrainLoop -----------------------------
(***************************************************************************)
(* Terrain residency under the frames of the main thread and a world that  *)
(* is entered, walked through, replaced and left at any time.  It is the      *)
(* most general use client_services.rs makes of the coordinator: an error  *)
(* between its two services skips the second, and the streaming service    *)
(* also needs a camera.  A worker's result is looked at by those services     *)
(* only, so a job finishes before one of them.                             *)
(* Bounds: MaxOwners ownership generations; a player may walk for ever.    *)
(***************************************************************************)
EXTENDS TerrainResidency

CONSTANT MaxOwners

ASSUME LoopAssumption == MaxOwners \in Nat

VARIABLE stage      \* where the main thread is in its frame

vars == <<terrainVars, stage>>

TypeOK ==
    /\ TerrainTypeOK
    /\ stage \in {"events", "terrain", "stream"}
    /\ epoch \in 0..MaxOwners

Init == TerrainInit /\ stage = "events"

\* A character is about to enter: its last known position is prepared.
PrewarmCharacter ==
    \E hint \in Locations, room \in BOOLEAN :
        /\ stage = "events" /\ world = None
        /\ Prewarm(hint, room)
        /\ UNCHANGED stage

EnterWorld ==
    \E where \in Locations :
        /\ stage = "events" /\ world = None
        /\ world' = where
        /\ UNCHANGED <<epoch, active, window, pending, pendingStream, prefetched, frame,
                       uploaded, over, stage>>

Move ==
    \E t \in Tiles :
        /\ stage = "events" /\ world # None /\ world.tile # t
        /\ world' = [world EXCEPT !.tile = t]
        /\ UNCHANGED <<epoch, active, window, pending, pendingStream, prefetched, frame,
                       uploaded, over, stage>>

\* begin_world_replacement drops the frame without retiring its plans.
ReplaceWorld ==
    \E where \in Locations :
        /\ stage = "events" /\ world # None /\ epoch < MaxOwners
        /\ Disconnect
        /\ world' = where
        /\ frame' = None /\ UNCHANGED <<uploaded, stage>>

\* retire_world, also at the Glue screens.
RetireWorld ==
    /\ stage = "events" /\ epoch < MaxOwners
    /\ Disconnect
    /\ world' = None
    /\ frame' = None /\ uploaded' = uploaded \ Plans(frame)
    /\ UNCHANGED stage

BeginFrame == stage = "events" /\ stage' = "terrain" /\ UNCHANGED terrainVars

SynchronizeTerrain ==
    \E room \in BOOLEAN :
        /\ stage = "terrain"
        /\ Synchronize(room)
        /\ stage' \in {"stream", "events"}

ServiceStreaming ==
    \E w \in SUBSET Tiles, room \in BOOLEAN :
        /\ stage = "stream"
        /\ Streaming(w, room)
        /\ stage' = "events"

SkipStreaming == stage = "stream" /\ stage' = "events" /\ UNCHANGED terrainVars

Worker == stage # "terrain" /\ JobDone /\ UNCHANGED stage

Frame == BeginFrame \/ SynchronizeTerrain \/ ServiceStreaming \/ SkipStreaming
World == PrewarmCharacter \/ EnterWorld \/ Move \/ ReplaceWorld \/ RetireWorld

Next == ~over /\ (Frame \/ World \/ Worker)

Spec == Init /\ [][Next]_vars

\* The frame loop and the worker run, and the CPU pool has room again and
\* again.
Fairness ==
    /\ SF_vars(~over /\ Frame)
    /\ SF_vars(~over /\ Worker)
    /\ SF_vars(~over /\ stage = "terrain" /\ Synchronize(TRUE) /\ stage' \in {"stream", "events"})

FairSpec == Spec /\ Fairness
=============================================================================
