------------------------------ MODULE TerrainGpu ------------------------------
(***************************************************************************)
(* What the residency of TerrainLoop does to the GPU (crates/rendering     *)
(* device/vulkan_terrain_mesh and vulkan_renderer/terrain_retirement.rs).  *)
(*                                                                         *)
(* Uploads, frames and retirement fences are submissions to one queue, and *)
(* none of them is waited for.  A fence signals when every submission      *)
(* before it has finished.  Only fences are polled, so the work between    *)
(* two of them is one element of queue, the storage it uses.               *)
(* Bound: with MaxBatches retirements outstanding no new frame begins; one *)
(* frame retires at most twice.                                            *)
(***************************************************************************)
EXTENDS TerrainLoop, Sequences, SequencesExt

CONSTANT MaxBatches

ASSUME GpuAssumption == MaxBatches \in Nat \ {0}

VARIABLES
    queue,        \* unfinished work before, between and behind the unsignalled fences
    meshes,       \* TerrainMeshRegistry: the storage of the plans uploaded
    retirements   \* terrain_retirements: storage taken from the registry

gpuVars == <<queue, meshes, retirements>>
allVars == <<vars, gpuVars>>

\* An allocation: the plan it was made for, and which of its allocations.
Storage == [plan: Generations, copy: 1..MaxBatches + 2]

Queued == UNION ToSet(queue)
Retired == UNION ToSet(retirements)
Of(plans) == {s \in meshes : s.plan \in plans}

GpuTypeOK ==
    /\ TypeOK
    /\ queue \in Seq(SUBSET Storage) /\ queue # <<>>
    /\ meshes \subseteq Storage
    /\ retirements \in Seq(SUBSET Storage) /\ Len(retirements) <= MaxBatches + 1

GpuInit ==
    /\ Init
    /\ queue = <<{}>> /\ meshes = {} /\ retirements = <<>>

-----------------------------------------------------------------------------
\* Work submitted behind the newest fence.
Submitted(work, used) == [work EXCEPT ![Len(work)] = @ \union used]

\* upload: new storage for each new plan, filled by a copy on the queue.
Allocated(plans) ==
    {CHOOSE s \in [plan: {p}, copy: 1..MaxBatches + 2] :
        s \notin Queued \union Retired : p \in plans}

\* A step of TerrainLoop with the uploads and retirements it makes: new plans are
\* uploaded, then departed ones leave the registry for a batch behind an empty
\* submission with a fence.
React ==
    /\ stage = "events" => Len(retirements) < MaxBatches
    /\ LET added == Allocated(uploaded' \ uploaded)
           departed == Of(uploaded \ uploaded')
       IN  /\ meshes' = (meshes \ departed) \union added
           /\ IF departed = {}
              THEN /\ queue' = Submitted(queue, added)
                   /\ UNCHANGED retirements
              ELSE /\ queue' = Append(Submitted(queue, added), {})
                   /\ retirements' = Append(retirements, departed)

\* Defect: a batch is destroyed whether its fence has signalled or not.
Present_Unpolled(signalled) ==
    /\ stage = "events" /\ ~over
    /\ retirements' = <<>>
    /\ LET left == SubSeq(queue, signalled + 1, Len(queue))
       IN  queue' = Submitted(left, Of(Plans(frame)))
    /\ UNCHANGED <<vars, meshes>>

\* A frame is presented.  Fences signal in the order of submission: the batches of those
\* seen signalled are destroyed (collect_retired_terrain).  The frame then draws the plans
\* of the terrain frame; the interface alone would use none of them.
Present(signalled) ==
    /\ stage = "events" /\ ~over
    /\ retirements' = SubSeq(retirements, signalled + 1, Len(retirements))
    /\ LET left == SubSeq(queue, signalled + 1, Len(queue))
       IN  queue' = Submitted(left, Of(Plans(frame)))
    /\ UNCHANGED <<vars, meshes>>

Presents == \E signalled \in 0..Len(retirements) : Present(signalled)

GpuNext == (Next /\ React) \/ Presents

GpuSpec == GpuInit /\ [][GpuNext]_allVars

\* The fairness of TerrainLoop, and frames that find the oldest fence signalled again and
\* again: the GPU finishes what it is given.
FairGpuSpec ==
    /\ GpuSpec /\ Fairness
    /\ SF_allVars(retirements # <<>> /\ Present(1))

-----------------------------------------------------------------------------
(* Properties *)

\* No storage is destroyed while unfinished work reads or writes it: a tile evicted
\* between two frames outlives the frames in flight and its own upload
\* (terrain_retirement.rs:63-68).
StorageOutlivesUse == Queued \subseteq meshes \union Retired
=============================================================================
