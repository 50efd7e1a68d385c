# Solarity client: formal models

These modules model the parts of the client (`src/`, a Cargo workspace of nine
crates) whose difficulty is order: threads and futures that share a session, a
socket or an archive reader, and a frame loop that polls all of them without
ever waiting. Everything below names code by its path under `src/`;
`gameplay_coordinator.rs`, `client_services.rs` and the like are in
`crates/runtime/src/application/`.

- `tlc -config X.cfg M` checks a run; `tlapm M.tla` checks the proofs of a
  module named `*Proofs`.
- `PROJECT.json` lists components, runs, the source lines of every definition
  (`map`), the defect each property was tried against (`mutants`), hazards,
  findings and theorems.

## 1. The system

### 1.1 Crates

| crate | what it is |
|---|---|
| `cpu` | bounded executor for finite CPU work, over a rayon pool |
| `network` | SRP login, realm list, encrypted world session, packet formats |
| `runtime` | the application: frame loop, coordinators, loading card, input, platform |
| `ecs`, `systems` | the replicated world; movement, collision, camera arithmetic |
| `ui` | FrameXML and Lua: glue screens and world interface |
| `rendering` | Vulkan renderer and its resource registries |
| `asset` | archives, file stack, decoders |
| `media` | sound engine, cinematics, video encoder |

### 1.2 Threads, and who owns what

The *main thread* runs frames (`client.rs`, `ClientServices::service_login`,
`present_frame`). It owns every coordinator, the interface and the renderer, and
never blocks. A *tokio runtime* runs one network task at a time per coordinator;
its result comes back through a one-shot channel polled once a frame, or, for the
active world, through a bounded packet channel. *CPU workers* run closures
admitted by `CpuExecutor`; a result is joined only after `is_finished`. The audio
callback and the video encoder have threads of their own.

So state is shared by *moving* it: a realmd session, an encrypted world session
or an archive reader is either in a coordinator field or inside a running job.
The recurring questions are: who has it now; does it come back on every path,
cancellation and failure included; and is what a job brings back still wanted.

### 1.3 Components

| component | state | operations | hard because | correct when |
|---|---|---|---|---|
| CPU executor (`cpu/src/pool`) | counter and gate under a mutex, leases, task handles | reserve, submit, run, join, drop, shutdown | worker/owner interleavings, panics, wake-ups | slots balance, shutdown returns exactly when drained |
| Active-world connection (`gameplay_coordinator.rs`) | socket halves, two bounded channels, pump state | read, write, ping, offer, drain, send, hand over | back-pressure in both directions, hand-over, loss | nothing lost or reordered, the socket changes owner on a packet boundary, nobody waits for ever |
| Login and realm list (`login_coordinator.rs`) | task, cancellation, realmd stream, dialog | begin, refresh, cancel, poll, choose realm | cancelled exchange on a stream that lives on | one owner, stream in step, dialogs close |
| Glue backdrops (`login_model.rs`, `login_model/backdrop_loader.rs`) | paths, one pending read, results, plans, the Model widget's scene | prewarm, poll, plan, publish, assign | reads outlive the scene that asked; the pool refuses; the login waits for them | the login is not held back |
| Character screen and world entry (`world_coordinator.rs`) | session, phase, worker, list, dialog, card | enumerate, create, delete, rename, enter, cancel, log out | operation cancelled while its frame is half read; refresh pending across phases | one owner, session handed back between frames, the list shown is the server's |
| Terrain residency (`terrain_coordinator.rs`) | resident tiles, two job slots, one archive reader, renderer image | prewarm, synchronise, stream, promote, evict, disconnect | jobs outlive the world they were started for | no retired tile is published; renderer and coordinator agree; the tile asked for is shown |
| World transfers and loading card (`world_transfer.rs`, `client_services/world_transfer.rs`) | destination, callbacks, loading map, card, interface | pending, abort, new world, verify, replace, acknowledge, complete | four parties wait for each other; recoverable errors in the middle of a frame | each callback acknowledged once and for its own map; nothing incomplete is drawn; the card goes |
| Frame and video capture (`recording/session.rs`, `screenshot.rs`, `vulkan_renderer.rs`, `media/recording`) | recording, screenshot, two readback slots, `is_idle`, encoder channels | keys, poll, request, submit, collect, resize, stop | copies in flight while slots, swapchain and recordings go; failed presentations; minimised windows | the GPU never writes to what is gone; a picture is the one asked for; a stopped session ends |
| Sound loading and playback (`sound_coordinator`, `media/audio`) | reservations, one archive read, decode jobs, tracks, samples, owners | reserve, cancel, read, decode, start, fade, steal, restart, shut down | reservations cancelled at every stage, voices that end by themselves | every reservation is served or given up, resources are held exactly by their voices |
| Template and name caches (`gameplay_coordinator`, `template_cache.rs`) | entries, registrations, retained queries | bind, ask, answer, drop, retry | answers after the asker has gone, changed its entry, or left the world | one question per pending entry, whoever waits is called |
| Requests of the active world (`player_movement.rs`, `client_services.rs`, `world_ui/logout.rs`) | a queue per source, the writer, logout flags of both sides | ask, send, give up with the world, log out | a full writer, replaced worlds, crossing logout answers | nothing lost, repeated, reordered or of an old world; logout can be asked for again |
| Remote movement (`player_movement/remote`, `movement/remote/clock.rs`) | per unit: inbox, delay samples, retained snapshots, time | receive, place, apply, retain, play | late, reordered packets on clocks that wrap | time goes forward, what is retained is in order and is played when due |
| Vulkan retirement of terrain (`terrain_retirement.rs`, `vulkan_terrain_mesh`) | registry, queue, batches behind fences | upload, draw, retire, collect | nothing waits for the GPU | storage outlives its last use |
| everything else | | | | reasons in `PROJECT.json` |

### 1.4 Interactions

- Login hands an authenticated stream to the character screen, which hands an
  encrypted session to `gameplay_coordinator`; logout hands it back. It shows the
  session only when the Glue backdrops are there.
- Every loader, terrain included, takes its slots from the one `CpuExecutor`.
- `service_login` runs in a fixed order: glue actions, polls, world transfers,
  terrain, interface, player resources, streaming, transfer completion, card;
  then `present_frame`. Recoverable interface errors leave this sequence early.
- Template queries, interface requests, movement and the worldport acknowledgement
  share the one writer channel; each has its place in the frame.
- What the terrain coordinator publishes and evicts, the renderer uploads and retires.
- A loading map suspends the draining of packets, which fills the packet
  channel, which blocks the reader.

## 2. Modules

| module | models | composed with |
|---|---|---|
| `BoundedAdmission` | abstract promise of the executor: a gate with a bound, and a drain | refined by `CpuExecutor` |
| `CpuExecutor` | `cpu/src/pool`: each action is one critical section or one worker statement | |
| `CpuExecutorProofs` | theorems about `CpuExecutor` | EXTENDS it |
| `WorldPump` | reader, writer and pump futures, both channels, main thread's batches | |
| `GlueBackdrops` | the backdrop loader, its frames and its jobs; no Next of its own | |
| `LoginCoordinator` | login task, realm refresh, cancellation, realmd stream, dialog | EXTENDS `GlueBackdrops` |
| `CharacterScreen` | session owners, operations, list refresh, entry, logout | |
| `TerrainResidency` | operations of the terrain coordinator and of the terrain frame; no Next of its own | |
| `TerrainLoop` | those operations under arbitrary frames and worlds | EXTENDS `TerrainResidency` |
| `TerrainGpu` | meshes, the graphics queue and the retirement batches under `TerrainLoop` | EXTENDS it |
| `TerrainProofs` | theorems about `TerrainLoop`, `TerrainGpu` and `WorldTransfer` | EXTENDS `TerrainGpu` and `WorldTransfer` |
| `WorldTransfer` | transfers, card, interface and server, frame by frame | EXTENDS `TerrainResidency` |
| `TemplateQueries` | the three caches, their registrations, queries and answers over objects and worlds | shares the writer channel's contract with `WorldPump` |
| `WorldOutbox` | movement, corpse, death, tutorial and logout requests, and the worldport ACK, up to the writer | same |
| `SoundLoading` | reservation, read, decode, voice, track, sample cache, owners, fades | |
| `RemoteMovement` | one unit's inbox, clock and retained snapshots, on wrapping clocks | |
| `Capture` | recording, screenshot, readback slots, GPU queue, encoder | |
| `GlueProofs` | theorems about `LoginCoordinator` and `SoundLoading` | EXTENDS both |
| `WorldProofs` | theorems about `WorldPump` and `RemoteMovement` | EXTENDS both |
| `CharacterScreenProofs`, `TemplateQueriesProofs`, `WorldOutboxProofs`, `CaptureProofs` | theorems about the module each is named for | EXTENDS it |
| `MC*` | model values for TLC | |

A variable named like a Rust field is that field; the comment beside each
declaration names it otherwise. Variables marked "history" are read by properties
only. An operator `Op_Something` preceded by "Defect:" is not part of the model:
it is a variant of `Op` with a plausible bug, and shows that a property can fail.

### 2.1 What an action is

- *CpuExecutor*: owner and workers interleave between critical sections of the
  lifecycle mutex. `SpuriousWake` is the condition variable's licence. The worker
  releases its slot, stores the finished flag and sends the outcome in three steps,
  as in `executor.rs`.
- *WorldPump*: one action per stretch of a future between two awaits. A write to
  the socket is two steps, so that cancellation in the middle can be seen. The
  main thread's frame is `BeginFrame`, `DrainPacket`*, `EndBatch`, `Send`*,
  `FinishFrame`.
- *LoginCoordinator*, *CharacterScreen*: the main thread's steps are glue actions
  and polls; the worker's are request, wait, (partial) read, finish. The server
  answers in order or closes. In *CharacterScreen* a realm is chosen at once, or
  after the login task's query has settled: `begin_pending_world` is then called by
  the poll, whatever the character worker, an entry or gameplay does meanwhile.
  `apart` says that gameplay's session is of an older connection than the coordinator's.
- *GlueBackdrops*: one action per frame of a screen (prewarm, the assigned scene, any
  other scene, a script model still waiting) and one per job that ends. Each is a
  function of the code with all it calls; `synchronize` services the script models
  first and the visible scene after them, which are two actions.
- *TerrainResidency*: `Synchronize` is one call of `synchronize_async` *and* the
  publication arm of `client_services.rs` that follows it in the same frame. The
  polls it starts with are the operators `Stream`, `Polled`, `Kept`, `Demand`.
  `epoch` counts calls of `disconnect`; a tile is (map, coordinates, epoch), which
  stands for the identity of its `Arc`.
- *TerrainGpu*: a step of `TerrainLoop` with what it uploads and retires, or a frame
  presented. `queue[i]` is the work submitted before the i-th unsignalled fence; the
  last element is the work behind all of them.
- *TemplateQueries*, *WorldOutbox*: `at` walks the frame: the packet batch, each owner
  at its place, and the writer beside them. A queue keeps what the writer refuses.
  *WorldOutbox* ends its frame at "present": `Present` draws the interface and goes on
  to `send_world_ui_actions` (logout, death, tutorial); `PresentNothing` is each early
  return of `present_frame`, which ends the frame before it (suspended window, loading
  card, a world being entered, an error). `EnterReplacement` is `complete_player`.
  Movement, corpse queries and the worldport ACK come before and are served by any frame.
- *SoundLoading*: one action per stage of the frame (settings, glue commands, voices,
  loader, decoder, repeat), and one per job that ends on a worker.
- *RemoteMovement*: the world brings events between frames; `serving` takes them one
  by one, then plays what is due.
- *Capture*: `at` walks events, the recording poll, the screenshot poll and the
  presentation; GPU, encoder and the screenshot writer run beside it.
- *WorldTransfer*: `at` walks one frame in source order. Every point at which the
  code surfaces a recoverable interface error offers `Surfaces`.

### 2.2 Abstractions to know of

- *WorldPump*: the ping round trip is not measured. A malformed data packet ends
  the client as a malformed sync does, so the passing run uses one of them. The
  `Disconnected` branch of the packet channel (`gameplay_coordinator.rs:601-610`)
  and the malformed-logout branch are unreachable here. Commands admitted behind
  `Handoff` are dropped with the writer, as in the code.
- *LoginCoordinator*: a cancel during the backdrop prewarm keeps the session; a
  realm list once shown stays shown; a realm choice survives a failed login; a
  Cancel click that meets a refresh already finished loses the session. These are
  behaviours of the code that no document contradicts. `AsksAgain` is FALSE in the
  run: what happens when the user asks again while a cancelled query settles is told
  in section 6.
- *GlueBackdrops*: a scene missing from the archives is asked for in every frame until
  the screen replaces it. Each answer is an error that is recorded and cuts the frame
  short before its own scene (`Fails`): it does not end the client. One Model widget
  stands for those of the character screens; the login's own scene is resident from the
  start. `loaded_backdrops` and `pending` lose their order, which nothing observes.
- *CharacterScreen*: the login task is `query`, which settles with a list, with none or
  by cancellation, at any time; its inside is `LoginCoordinator`. A deferred choice that
  meets no listed realm is forgotten. Modal GlueXML dialogs, name validation, the send-only
  requests of `CharacterSelect_OnShow` and quit-after-logout are external. The
  server drops unprocessed requests of a closed connection.
- *TerrainResidency*: nearest-first becomes "some missing tile". Placement
  conflicts and decoding are left out. A terrain error ends the client
  (`over`), which is why `failed_stream` and `failed_request` have no variable.
- *TerrainLoop*, *WorldTransfer*: a worker's result is read by the two terrain services
  only, so `Worker` (`WorkerEnds`) fires only where one of them is next, and packets
  arrive while the frame has not yet begun its batch. Nothing reads them earlier.
- *WorldTransfer*: the dynamic transport card, unknown maps and texts are left
  out. The server sends PENDING only with nothing unacknowledged.
  `EarlyTransfers = FALSE` means that it announces or denies transfers only in a
  world already revealed; section 6 tells what TRUE shows.
- *TerrainGpu*: a GPU that is slow is worse than one that is fast, so work counts as
  unfinished until a fence behind it has been seen signalled. Every frame presented
  draws all plans of the terrain frame, which is the most it can use. Materials and
  descriptor pools travel in the same batch; staging memory, slots of the swapchain
  and the liquid registry, which repeats the scheme, are left out.
- *TemplateQueries*: "waiting" and "missing" of a binding differ for the properties
  only. Bounded lives exclude one schedule: entries that change for ever, always
  answered as empty, with room in the writer only in the middle of a frame, could keep
  an earlier cache's query waiting.
- *WorldOutbox*: why a frame presents nothing is left open, except that a world being
  entered never presents its interface. An area trigger retained before movement has an
  owner is kept when the world is replaced under a full writer (kind "early");
  `OfThisWorld` is about the rest. Movement waits until its owner stands on something,
  which nothing promises, so `RequestsSent` leaves it out; a tutorial flag waits exactly
  as a logout does, and the run spends its requests on the latter. Cancelling a logout
  and asking again before the cancellation is confirmed clears `pending` while the
  server logs the player out: the client may ask twice, it is never locked.
- *SoundLoading*: the weakest track is any track; gains, priorities, positions and
  the sounds of units, models, zones and cinematics are left out. A music kit of the
  glue screens whose file cannot be read is reserved again every frame.
- *RemoteMovement*: control that passes to or from the player, finished paths and the
  250 ms cap on a frame change nothing the properties see. Commands received before a
  later baseline of the same inbox are judged by the later baseline's path
  (`service.rs:119`). A snapshot applied at once to a unit on a path may put its time
  ahead of the frame; the unit then stands until the frame catches up.
- *Capture*: device loss ends the program; an out-of-date swapchain comes back in the
  other size. `LateAfterIdle` is FALSE in the passing run and TRUE in `stale_idle`.

## 3. Runs

| run | bounds | what it shows |
|---|---|---|
| `cpu_executor` | 4 jobs (2 speculative, 1 panics), 2 slots, 2 workers | a lane stays free of advice, every wait ends; refinement of `BoundedAdmission` |
| `world_pump` | channels of 1, 3 packets, 1 command, 1 ping | both channels exact, the end kept; clean hand-over; one ACK per NEW_WORLD; nobody waits for ever |
| `login` | 2 logins, 3 requests, 1 backdrop, which is missing, and 1 other scene, 1 lane | one stream owner, uncancelled stream in step, what waits for a query or for the backdrops goes on |
| `characters` | 1 character, 2 requests, 3 realm queries and choices, 2 setup packets, 4 of these together | one session owner, handed back in step; only a deferred realm choice leaves a card up; settled list = server's list; characters appear |
| `terrain_loop` | 2 maps (one global), 2 tiles, 1 disconnection, 2 retirements | no retired tile is published, the renderer follows, storage outlives its use, the player's tile is shown |
| `world_transfer` | 1 login, 2 transfers, 1 interface fault, 1 tile | callbacks accounted, ACK means destination, the card hides the transfer, loading ends |
| `template_queries` | writer of 1, 2 creatures and 2 templates, 1 game object, 1 player name, 2 lives, 2 worlds, 2 turns | one question per pending entry, waiters are known to it, units are bound as they are shown, answers arrive |
| `world_outbox` | writer of 1, 2 worlds, 4 requests: up to 2 of movement, 1 corpse query, 3 of logout, 1 of death | order kept, nothing lost but with its world, nothing of an old world, logout never locked, what waits for an interface is sent by a frame that presents one |
| `sound_loading` | 1 sample, 1 stream, 1 track, cache of 0, 2 loads | reservations have one holder, resources are counted, owners hold their voices, loads end |
| `remote_movement` | clock of 34 that wraps at the first tick, delays up to 4, 2 samples, lags 0 and 3, 3 events, 2 lives | time forward, retained in order, nothing overdue |
| `capture` | 2 buffers, 2 frames in flight | copies have live targets, pictures are fresh, captures end |
| `stale_idle` | the same, `LateAfterIdle` | a finding, section 6 |

Several properties are conjunctions of named parts (`ChannelsExact`, `NobodyWaits`,
`QueriesSettle`, `SessionInStep`, `CardHidesTransfer`, `CapturesEnd`, `WaitsEnd`): one
question each, so one property. The type invariants (`TypeOK`, `TerrainTypeOK`,
`TransferTypeOK`, `SoundTypeOK`) are theorems of section 5, except those of `TerrainGpu`
and `RemoteMovement` (`RemoteTypeOK`), which hold in the runs when they are added to a
cfg as an INVARIANT.

*Why these bounds suffice.* A channel of one entry is full as soon as anything is
queued, so every sender meets back-pressure; three packets let one be read, one
queued and one held by the blocked reader. With two slots for four jobs both the
refusal and the drain over live work happen, and two speculative jobs could fill
both workers. Three realm requests let a cancelled answer meet two later ones;
two logins let state leak from the first to the second, a read begun for a scene that
was left included. Two ownership
generations (one disconnection) and two tiles let a job outlive its world and come
back to the same key, be promoted, be evicted while running, and fail late; two
retirements outstanding let a tile be uploaded again while its old storage still
waits, and stand behind an older fence. Two transfers let a
second NEW_WORLD arrive in the same batch, while the first loads, and after it was
acknowledged; the fault can hit each recoverable point once. Two creatures share a
template or not; a second life reuses a GUID or changes its entry while the first
answer is under way; two worlds let an answer cross the change. A sound cache of
nothing evicts whatever it may, a single track makes every second voice steal. A
clock that stands one before its end wraps in every behaviour in which time passes, a
lag of 3 is later than both limits of adjustment, and a third snapshot finds a delay that
has fallen since the first. Two frames in flight and two buffers let a copy be pending while the
next frame is recorded and the slot is given up.

Larger instances were checked by hand for safety: `sound_loading` with three loads on
one track with a cache of one (6.7 million states) and on two tracks with two effects
(8.5 million); `remote_movement` with frames of 2 and three events in one life (8.8
million), with quiet periods of 3 (10.9 million), and with frames of 2, quiet periods of
4 and two events (3 million); `terrain_loop` with two disconnections (2.2 million).
`login` was checked, liveness included, with two requests and two backdrops of which one
(86 thousand) or both (45 thousand) are missing: a failed read holds nothing back.

Counters that would grow for ever (pings, requests, transfers, generations, loads)
are capped in the guards by the constants of those names. `CHECK_DEADLOCK FALSE`
stands where the bounds, or a finished program, really stop everything.

## 4. Fairness

- *CpuExecutor*: weak fairness of each worker's next statement (operations are
  finite, rayon threads run while they hold work) and of an owner inside shutdown.
  Nothing is assumed of callers: they may never join.
- *WorldPump*: weak fairness of each future (tokio polls what is ready), of the
  main loop and of terrain loading. The server owes nothing; it may stay silent.
- *LoginCoordinator*: weak fairness of the worker, of the frame loop's poll, of the
  backdrop jobs, and of a prewarm frame and a waiting script model that find room in
  the pool, whose slots come back (`cpu_executor`) and which nothing else fills while
  the login's dialog is up. realmd owes no answer: what must happen even so (a
  cancellation settles, a dialog closes once nothing runs) does.
- *CharacterScreen*: weak fairness of the frame loop (admission and poll) and of the
  worker, none of the realm query, and of a server that answers the requests it has read
  for as long as the connection is open; it may close it at any time.
- *TerrainLoop*: strong fairness of frames and the worker, and of a
  synchronisation that finds room in the pool: the pool is shared, but
  `cpu_executor` shows that each slot is returned.
  With `TerrainGpu`, frames find the oldest fence signalled again and again: a GPU
  finishes what it was given.
- *TemplateQueries*: weak fairness of the frame and of the writer; strong fairness of a
  server that answers each entry it is asked for: an answer once sent waits in the
  packet channel until a batch takes it.
- *WorldOutbox*: weak fairness of the frame and of the writer; strong fairness of
  presenting the interface (a window is not minimised for ever) and of entering a world
  (its terrain and player arrive, which is `LoadingEnds` of `world_transfer`). Without
  the latter two nothing bounds how long a logout waits. The server owes nothing.
- *SoundLoading*: weak fairness of the frame and of jobs on workers; strong fairness of
  room in the pool (`cpu_executor`) and of a frame whose glue commands come to an end.
- *RemoteMovement*: none; its properties are safety of the steps.
- *Capture*: weak fairness of the main thread, the GPU, the encoder and the screenshot
  worker; strong fairness of presentation (a window is not minimised for ever) and of
  room for the encoder's next frame.
- *WorldTransfer*: weak fairness of the frame; strong fairness of room in the
  pool and in the writer queue (`world_pump` shows that the queue drains), of
  presenting (a window is not minimised for ever), and of `Duties`: worker, player
  resources, and a server that answers the login and resolves what it announced.
  One condition covers the duties because each can be done finitely often.

## 5. Proofs

Each inductive invariant was an INVARIANT of the module's run before it was proved.
Bounds on requests, packets, lives and the like are constants too: a theorem holds for
every value of them, hence of behaviours of any length.

`CpuExecutorProofs` proves, for every number of tasks, slots and workers, under
`CpuAssumption` only:

- `TypeCorrect`: `TypeOK` is inductive; `inFlight` stays within the bound because
  `CanReserve` is checked in the section that increments.
- `LeasesAccounted`: `inFlight = Cardinality(Leases)`. `StepLeases` says what a
  step does to the set: one element more, one less, or the same set; the rest is
  cardinality arithmetic from `FiniteSetTheorems`.
- `ShutdownDrains`: not inductive by itself. `ShutdownInv` adds that the gate is
  closed as soon as the owner is in shutdown, so no lease can appear after the
  count was seen at zero; the count speaks of leases by `LeasesAccounted`.
- `AdviceStaysGood`, `LaneReserved`: `AdviceInv` records what a "yes" implies at
  the moment it is used: the load can only have fallen, since the one owner makes
  both the check and the reservation.
- `Implementation`: every step is an admission, a finish, the closing or the
  drain of `BoundedAdmission`, or leaves its variables alone. It needs
  `LeaseAccounting` (a full count is a full set) and `ShutdownInv` (the gate is
  closed once, and nothing finishes after the drain).

`TerrainProofs` proves of `TerrainLoop`, for every set of maps and tiles and every number of
ownership generations, under `TerrainAssumption`, `NoneAssumption` (None is no
tile, location, resident or job) and `LoopAssumption`:

- `TypeCorrect`: `TypeOK` with `MapInv`. A neighbour joined by the poll must be a
  tile the resident lacks; on a world-model map all tiles are None, so this
  needs that no neighbour is asked for there, which needs that the residents are
  of the world's map.
- `ArchivesLentOnce`: `OneArchiveOwner` is inductive as it stands.
- `RetiredStaysRetired`: `NoRetiredGeneration` is not, since a job's result may
  become resident later. `JobInv` adds that a job which may still be published or
  kept is of the current generation; `disconnect` preserves it by stripping both.
- `RendererFollows`: `GpuFollowsCpu`, given the types: a publication sets both
  images, what the poll adds is shown by a later frame.
- `StaleFailuresDropped`: the action property `StaleFailureHarmless`, from all of
  the above: a job whose failure is returned is eligible, hence current by
  `JobInv`; the other exit, a frame that lacks the resident tile, cannot be
  taken by `GpuFollowsCpu`.

and of `TerrainGpu`, for every number of retirements outstanding besides:

- `StorageKept`: `StorageOutlivesUse` is not inductive, for a batch may go while older
  work is under way. `Covered` says where: what the work before fence i uses is in
  the registry, or in the batch of fence i or a later one. `SubmissionCovered`,
  `RetirementCovered` and `CollectionCovered` are facts about sequences of sets; the
  steps of the residency and of presentation are compositions of them. Nothing is
  needed of the residency itself: the renderer is right under any caller.

and of `WorldTransfer`, for every number of transfers, character logins and recoverable
interface errors, under the assumptions of the residency, `TransferAssumption` and
`AbsenceAssumption` (None is no replacement and no card). `TransferInv` is inductive. It
takes the invariant of the residency over (`TerrainInv`: the steps of the frame compose
the same operations, so the lemmas about them are shared) and adds `OrderInv` and
`RevealInv`:

- `CallbacksAnswered`: `CallbacksAccounted` counts packets of a sequence; `NewsAppend` and
  `NewsTail` say what a packet sent or received does to that number. `WireInv` adds that
  nothing is on the wire outside a world, that the end of a session is its last packet
  (so `ReceiveEnd` leaves no callback behind), and that transfers are owed within their
  bound, which makes the counts of `TransferTypes` bounded.
- `AckAtDestination`: the action property `AckMeansDestination`. `CountFalls` shows that
  of all steps in a world only `FinishService` acknowledges. `OwnersInv` says that the map
  being loaded is the world's, `MapInv` and `GpuFollowsCpu` that the frame is of the
  world's map, `NoRetiredGeneration` that it is of the current generation.
- `AnnouncedCardHeld`: `PendingCardHeld`, for either value of `EarlyTransfers`.
- `CardHides`: `CardHidesTransfer` for `EarlyTransfers = FALSE`, the case in which it holds
  (section 6). `CardInv` says that a world without a card, or with one that is complete,
  is whole unless it is still being entered; a denial removes the card, so `OfferInv` says
  the same as soon as a transfer is announced or its denial is on the wire.

`GlueProofs` proves of `LoginCoordinator`, for every set of scenes and every number of logins
and requests, under `LoginAssumption` (and, from `GlueBackdrops`, that its bound is a
number and its scenes are told apart):

- `StreamOwned`: `OneStreamOwner` needs `OwnerInv`: a result is in the channel exactly
  when its worker has ended, so the poll that takes the stream back takes it from a
  task that no longer has it.
- `ExchangesInStep`: `StreamInStep` needs `ExchangeInv`, which ties the place of the
  worker to the numbers of requests and answers on the stream, and says that only a
  cancelled query leaves answers behind. It speaks of streams on which nothing was
  cancelled: a cancelled query is dropped in the middle of its frame
  (`login_coordinator.rs:415`), and nothing is claimed of what is read after it.

and of `SoundLoading`, for any number of tracks and reservations, any sound files and
any limits, under `SoundAssumption` and `SilenceAssumption` (None is nothing else):

- `LoadsServed`: `ReservationsServed` needs `LoaderInv`: the queue, the active read and
  the decode hold different reservations, and nothing that plays. Then a cancellation
  may leave a reservation at its stage and a stage may be skipped, but no reservation
  is lost. At shutdown all of them are held, so all are cancelled, and what is left of
  the decodes was cancelled too (`JobsInv`): draining them ends with none.
- `VoicesAccountedFor`: `VoicesAccounted` needs that generations are unique
  (`VoicesInv`). `ReleasedFacts` counts the references that go with voices, `VoicesKept`
  carries the accounts over every step that ends some, and `StartedVoices` over the one
  that starts one and replaces another.
- `OwnersHoldVoices`: `OwnersHold` needs `ReservedInv`: what is reserved for music or
  ambience is what its owner waits for, so what starts finds its owner (`StartedOwners`).

`CharacterScreenProofs`, for every finite set of characters, under `ScreenAssumption`:

- `SessionKept`: `SessionInStep` follows from `OwnerInv` (phase and worker say who has
  the session) and `ExchangeInv`, the protocol itself: behind one request at most one
  answer is on its way, of the right kind, among the set-up packets that come unasked.
- `RosterShown`: `SettledShowsRoster` needs `ListInv`. The list a screen shows may be
  older than the server's while an answer that grants a change is under way
  (`Granting`), a refresh is pending, or a cancelled operation succeeded
  unseen. After that last case nothing is claimed until the next list.
- `InputReturns`: the action property `CardComesDown`. `InputInv` says that over the
  screens the card is up only while a world is entered, so every step that ends an
  entry or gameplay (refusal, rejection, error, loss, logout) takes it down. The one
  that does not is the deferred realm choice, which the property names (section 6).

`WorldProofs`, of `WorldPump`, for channels of any capacity and every script of the server,
under `PumpAssumption`:

- `ChannelsKept`: of `ChannelsExact` the part about packets needs `DataInv` (a packet
  that was read is in the reader's hand, queued or applied, and in this order) and
  `EntriesInv` (nothing is queued behind the end of the connection).
- `HandoverClean`: `HandoverInv` follows the socket through the hand-over. The reader
  stands behind LOGOUT_COMPLETE, and the writer that took `Handoff` has written all of
  `accepted`, which `CommandsInOrder` gives.
- `AcksCounted`: acknowledgements sent, scheduled and owed for the world that loads add
  up to the NEW_WORLDs applied; `CountAppend` counts, step by step.

and of `RemoteMovement`, for a clock of any length, any limits, delays and number of
samples, and any number of events and lives, under `RemoteAssumption` (None is no number)
and `WindowAssumption`: the times in play are within half a turn of the clock, 24 days, of
each other, without which a signed difference of two of them means nothing. `SignedIs`
and what follows it say that inside that window the reading of a time from now (`Off`) is
a number like any other: it falls by one with a tick, and differences of readings are the
signed differences the code computes.

- `RemoteInvariant`: `RemoteInv` bounds every reading: what the inbox holds came since the
  last service (`InboxInv`), the server's clock was seen within a frame and a quiet
  period and the unit's is not far from it (`ClockInv`), a unit's time and what it
  retains are near the frame (`Timely`). Its heart is `AdmittedAt`, where a snapshot is
  placed, for every history of delays.
- `SnapshotsOrdered`: `Ordered` is `Timely` read through the signed differences;
  `RetainFits` puts a snapshot in its place, `AdvanceFits` takes the due ones away.
- `TimelinesForward`: the action property `TimelineForward`, from the last part of
  `AdmittedAt`: the clamp may move a snapshot back, but not before the unit's time.
- `NothingLeftDue`: the action property `NothingOverdue`, from `AdvanceFits`: in an
  ordered list nothing due stands behind the first that is not.

`WorldOutboxProofs`, for a writer of any capacity, under `OutboxAssumption`:

- `NoneLost`: `RequestsKept` compares concatenations. The proof keeps `LineInv`
  instead: the numbers of each source's requests rise along the wire, the channel and
  the queue, and each that was not given up is in one of them. `LineQueue`,
  `LineGiveUp`, `LineSend` and `LineWrite` are the ways a line moves.
- `LogoutUnderWay`: `LogoutInv` says where the request that counts can be: behind any
  cancellation, in the queue or the channel, or with the server.
- `NothingOfOldWorlds`: the action property `OfThisWorld` from `WorldInv`: what death
  and movement retain is of the world of their owner, which the replacement clears
  before anything is sent.

`TemplateQueriesProofs`, for any objects and entries and a writer of any capacity,
under `QueriesAssumption` and `NoneAssumption` (None is no lifetime and no binding):

- `AskedExactlyOnce`: `QueriesInStep` counts an entry's questions in three places.
  `CountAppend`, `CountTail` and `CountJoin` say what a step does to the sum; binding
  asks for the entries that were absent, each once, however many objects share it
  (`BindCounts`).
- `WaitersCalled`: `WaitersRegistered` is inductive with the types: an answer completes
  everyone registered, and a binding that is dropped or replaced is registered anew.
- `UnitsBoundAsShown`: `UnitsFollow` holds only outside the packet batch. `UnitsInv`
  says so inside it too: as long as no change was applied, units are bound as shown.

`CaptureProofs`, for any number of buffers and of frames in flight, under
`CaptureAssumption` and `NoneAssumption` (None is no slot, session or picture):

- `TypeCorrect`: the pixel buffers of a live encoder are at every moment the recycled
  ones, the one in hand, the queued and the one being encoded (`Accounted`), and the
  session is where the frame's step says (`SessionInv`).
- `PicturesFresh`: `ImagesFresh` needs `QueueInv`: the queue holds at most one fence,
  behind every copy into the video slot, so a slot whose fence has signalled holds the
  picture asked for. This is so for either value of `LateAfterIdle`.
- `TargetsOutliveCopies`: `CopyTargetsAlive` for `LateAfterIdle = FALSE`, the case in
  which it holds (`stale_idle` shows the other). `TargetsInv` adds that a renderer that
  believes the device idle has no frame in the queue, and that a request not yet
  recorded fits the swapchain.

Only model-checked:

- all liveness (`WaitsEnd`, `TerrainFollows`, `NobodyWaits`, `CapturesEnd` and the like):
  the prover knows neither fairness nor ENABLED;
- `RemoteTypeOK`: what a unit does after the due snapshots were played is a fold over a
  sequence, which is induction over data. The theorems need only the times.

## 6. Where code and documents part

`stale_idle` ends in a counterexample: `wait_idle` trusts `is_idle`, which a frame
submitted but refused by `vkQueuePresentKHR` does not clear. When that frame is the
first after an idle wait, the next idle wait returns at once, and a resize or the end
of a recording destroys what the frame's copy still writes to. The quotation is in
`PROJECT.json`.

The others keep their statement in the module, with a reference to this section; each
counterexample appears when the operator is added to the cfg as an INVARIANT
(`DialogAlwaysCloses` and `SlotGivenBack` as a PROPERTY), with the constant named.

- `LossReachesLifecycle` (`WorldPump`): a sender that runs after the pump has failed
  and before its terminal event is drained meets a closed channel and ends the client
  with `TaskEnded` instead of the disconnect lifecycle. The same window follows
  `Handoff` on an ordinary logout.
- `RefreshAnswersItself` (`LoginCoordinator`): a cancelled realm query leaves its
  answer on the stream; every later query returns the answer to an earlier one.
- `DialogHasOwner` (`LoginCoordinator`, `AsksAgain = TRUE`): a second request while a
  cancelled query settles is swallowed, and its Cancel dialog stays.
- `LimitMeansFlood` (`CharacterScreen`): the limit on setup packets counts over a whole
  session.
- `CardNeverLeftUp` (`CharacterScreen`): a realm chosen while a realm query runs waits for
  it, and the old realm's world may be entered meanwhile. When the query settles,
  `begin_pending_world` (`client_services.rs:2116`, `3333`) disconnects the entry and
  leaves its loading card up, which withholds the input from the screens. No document
  speaks of the case; `CardComesDown` shows that it is the only one. A logout
  that meets another world already begun drops its connection
  (`CompleteLogout`), although `docs/architecture/session-lifecycle.md:70` says
  "Logout retains the authenticated transport".
- `NoOrphanedPlans` (`TerrainLoop`): a world replacement drops the terrain frame
  without retiring its plans, so the renderer keeps the old world's tiles.
- `RevealedWorldComplete` (`WorldTransfer`, `EarlyTransfers = TRUE`): a denial received
  behind the first loading card removes it, and the world is drawn without its
  interface.
- `DialogAlwaysCloses` (`LoginCoordinator`): a scene that is no racial backdrop (the
  Death Knight's) is left for one already read before its own read has ended. If
  nothing is assigned until the next login, nobody polls the loader again:
  `has_pending` stays true, the prewarm never completes, and the login succeeds behind
  a dialog that only its Cancel button takes down.
- `SlotGivenBack` (`Capture`): a recording whose frame step fails while its copy is in
  flight is dropped, and its slot left to the renderer "until fence retirement or its
  normal device-idle teardown" (`recording/session.rs:215`). Nobody retires the slot at
  the fence: it stays occupied, and every later recording finds it so and is refused.

## 7. Plan

Done: `CpuExecutor`, `TerrainResidency`/`TerrainLoop` and `TerrainGpu`,
`WorldPump`, `LoginCoordinator` with `GlueBackdrops`, `CharacterScreen`, `WorldTransfer`, `TemplateQueries`,
`WorldOutbox`, `SoundLoading`, `RemoteMovement`, `Capture`.

Theorems cover `CpuExecutor`, `TerrainLoop`, `TerrainGpu`, `WorldTransfer`, `WorldPump`,
`RemoteMovement`, `LoginCoordinator`, `SoundLoading`, `CharacterScreen`, `WorldOutbox`,
`TemplateQueries` and `Capture`: every safety property of every run.

An abstract "one reader, one job, results by key", which `TerrainResidency`, the sound
loader, `GlueBackdrops` and the game object loader would refine, is worth stating if a run
is free for it; so are the other sound owners in `SoundLoading`.

## 8. Not modelled

Decoders, packet formats, SRP, rendering, collision, movement integration, camera,
weather and audio mixing are functions on bytes or floating-point numbers with
tests of their own, and out of TLC's reach; they are most of the repository's lines.
Layout and Lua run sequentially inside the interface, and packet handlers on the main
thread one after the other: no order to get wrong beyond the queues modelled here. The
character and game object loaders repeat the scheme of `SoundLoading` and
`TerrainResidency` with less at stake. Platform, configuration and scripts are start-up
and I/O. Device loss, mutex poisoning and out-of-memory end the program.
