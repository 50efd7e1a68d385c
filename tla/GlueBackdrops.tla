---------------------------- MODULE GlueBackdrops ----------------------------
(***************************************************************************)
(* The scenes behind the Glue screens (crates/runtime application/         *)
(* login_model.rs, login_model/backdrop_loader.rs and script_models.rs).   *)
(*                                                                         *)
(* A scene is read from the archives by a worker, at most one at a time;   *)
(* its result is kept, failures too.  A scene read is planned by a second  *)
(* job and then published on the presentation thread.  The racial          *)
(* backdrops are read in order whenever nothing else is asked for; the     *)
(* character screens' Model widget is assigned scenes of its own, not all  *)
(* of them backdrops, and asks for the last one every frame until it is    *)
(* read.                                                                   *)
(***************************************************************************)
EXTENDS Naturals, Sequences, FiniteSets

CONSTANTS
    Scenes,        \* the models Glue screens can show
    Missing,       \* those the archives do not hold
    Backdrops,     \* STOCK_CHARACTER_BACKDROPS, the scenes prewarmed
    NoScene,       \* no read is pending, no scene assigned
    Lanes          \* the in-flight limit of speculative work

ASSUME BackdropAssumption ==
    /\ Missing \subseteq Scenes /\ NoScene \notin Scenes
    /\ Backdrops \in Seq(Scenes) /\ Backdrops # <<>> /\ Lanes \in Nat \ {0}

VARIABLES
    paths,         \* backdrop_paths
    ready,         \* GlueBackdropLoader.ready: the paths whose result is kept
    reading,       \* GlueBackdropLoader.pending
    readEnded,     \* ... and its task has ended
    generation,    \* each scene's generation: absent, loaded (loaded_backdrops),
                   \* planning or planned (pending), prepared
    scene,         \* the scene assigned to the Model widget
    waiting        \* ... whose model has not arrived

loaderVars == <<ready, reading, readEnded>>
backdropVars == <<paths, loaderVars, generation, scene, waiting>>

BackdropTypeOK ==
    /\ paths \in Seq(Scenes) /\ ready \subseteq Scenes
    /\ reading \in Scenes \union {NoScene} /\ readEnded \in BOOLEAN
    /\ generation \in [Scenes -> {"absent", "loaded", "planning", "planned", "prepared"}]
    /\ scene \in Scenes \union {NoScene} /\ waiting \in BOOLEAN

\* prewarm_backdrops at startup, the pool having room or not.
BackdropInit ==
    /\ paths = Backdrops /\ ready = {}
    /\ reading = NoScene /\ readEnded = FALSE
    /\ generation = [s \in Scenes |-> "absent"]
    /\ scene = NoScene /\ waiting = FALSE

InState(generations, state) == {s \in Scenes : generations[s] = state}

\* can_admit_speculative: the pool is spared by its other owners, and these
\* scenes' jobs leave a lane.
CanAdmit(spare, read, ended, generations) ==
    /\ spare
    /\ Cardinality(InState(generations, "planning"))
         + (IF read = NoScene \/ ended THEN 0 ELSE 1) < Lanes

-----------------------------------------------------------------------------
(* The loader and the archive queue, as parts of the frames below.         *)

\* GlueBackdropLoader::poll: a finished read is collected under its own path,
\* then the path is asked for unless its result is kept or a read is pending.
PollScene(s, room) ==
    LET free == reading = NoScene \/ readEnded
    IN  /\ ready' = IF free THEN ready \union ({reading} \ {NoScene}) ELSE ready
        /\ reading' = CASE ~free -> reading
                        [] free /\ room /\ s \notin ready' -> s
                        [] OTHER -> NoScene
        /\ readEnded' = FALSE

\* service_backdrop_reads; a failed read only leaves the queue.
ServiceReads(spare) ==
    IF paths # <<>> /\ CanAdmit(spare, reading, readEnded, generation)
    THEN /\ PollScene(Head(paths), TRUE)
         /\ paths' = IF Head(paths) \in ready' THEN Tail(paths) ELSE paths
    ELSE UNCHANGED <<paths, loaderVars>>

\* loaded_backdrops after service_backdrop_reads.
Loaded ==
    [s \in Scenes |->
        IF paths # paths' /\ s = Head(paths) /\ s \notin Missing /\ generation[s] = "absent"
        THEN "loaded" ELSE generation[s]]

\* One generation, if there is one to advance, goes from one state to the next.
Advance(generations, from, to) ==
    IF InState(generations, from) = {} THEN {generations}
    ELSE {[generations EXCEPT ![s] = to] : s \in InState(generations, from)}

\* service_backdrop_prewarms: at most one plan admitted and one generation
\* published in a frame.
ServicePrewarms(spare) ==
    /\ ServiceReads(spare)
    /\ \E planned \in IF CanAdmit(spare, reading', readEnded', Loaded)
                      THEN Advance(Loaded, "loaded", "planning") ELSE {Loaded} :
           generation' \in Advance(planned, "planned", "prepared")
    /\ UNCHANGED <<scene, waiting>>

\* What it returns.
BackdropsComplete ==
    /\ paths = <<>> /\ reading = NoScene
    /\ \A s \in Scenes : generation[s] \in {"absent", "prepared"}

-----------------------------------------------------------------------------
(* Frames of the screens and jobs of the workers.                          *)

\* SetModel: the widget's former scene is no longer asked for.
AssignScene(s, room) ==
    /\ PollScene(s, room)
    /\ scene' = s /\ waiting' = (s \notin ready' \ Missing)
    /\ UNCHANGED <<paths, generation>>

\* ClearModel.
ClearScene ==
    /\ scene' = NoScene /\ waiting' = FALSE
    /\ UNCHANGED <<paths, loaderVars, generation>>

\* service_script_instance, on every Glue frame, the widget visible or not; a
\* scene that is missing is asked for, and fails, in every one.
AskAgain(room) ==
    /\ waiting
    /\ PollScene(scene, room)
    /\ waiting' = (scene \notin ready' \ Missing)
    /\ UNCHANGED <<paths, generation, scene>>

\* The error, which is recorded, cuts the frame short before its own scene.
Fails ==
    /\ waiting /\ scene \in Missing
    /\ scene \in ready \/ (readEnded /\ scene = reading)

\* synchronize with a resident scene of another screen.
OtherSceneFrame ==
    /\ ~Fails
    /\ ServiceReads(TRUE)
    /\ generation' = Loaded
    /\ UNCHANGED <<scene, waiting>>

\* synchronize with the assigned scene visible.
SceneFrame(room) ==
    /\ scene # NoScene /\ ~Fails
    /\ \/ /\ generation[scene] \in {"absent", "loaded"}
          /\ PollScene(scene, room)
          /\ generation' = IF room /\ scene \in ready' \ Missing
                           THEN [generation EXCEPT ![scene] = "planning"] ELSE generation
          /\ UNCHANGED paths
       \/ /\ generation[scene] \in {"planned", "prepared"}
          /\ ServiceReads(room)
          /\ generation' = [Loaded EXCEPT ![scene] = "prepared"]
    /\ UNCHANGED <<scene, waiting>>

\* BackdropArchiveOwner::load on the worker.
ReadEnds ==
    /\ reading # NoScene /\ ~readEnded
    /\ readEnded' = TRUE
    /\ UNCHANGED <<paths, ready, reading, generation, scene, waiting>>

\* prepare_glue_cpu_task on the worker.
PlanEnds ==
    /\ \E s \in InState(generation, "planning") : generation' = [generation EXCEPT ![s] = "planned"]
    /\ UNCHANGED <<paths, loaderVars, scene, waiting>>

\* A read of a scene that was replaced before it was read: nothing polls for
\* it once the backdrops are read.
ReadAbandoned == reading # NoScene /\ paths = <<>> /\ ~waiting
=============================================================================
