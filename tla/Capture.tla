------------------------------- MODULE Capture -------------------------------
(***************************************************************************)
(* Screenshots and video recording                                         *)
(* (runtime application/recording/session.rs and screenshot.rs, rendering  *)
(* device/vulkan_renderer.rs and vulkan_capture/video.rs, media            *)
(* recording/session.rs).                                                  *)
(*                                                                         *)
(* Three parties run beside each other: the main thread (at walks its      *)
(* frame: events, the recording poll, the screenshot poll, presentation),  *)
(* the graphics queue, which executes submitted work in order, and the     *)
(* encoder thread.  A frame copies its picture into at most one readback   *)
(* slot; the video slot has a fence of its own, the screenshot slot is     *)
(* read after a device-idle wait.                                          *)
(* Device loss is not modelled: the next presentation ends the program.    *)
(* An out-of-date swapchain always comes back in the other size.           *)
(***************************************************************************)
EXTENDS Naturals, Sequences, FiniteSets, SequencesExt

CONSTANTS
    None,
    Buffers,        \* VIDEO_BUFFERS, the pixel buffers of one recording
    FramesInFlight, \* frame slots, one per swapchain image
    LateAfterIdle   \* the first frame after a device-idle wait may fail after its
                    \* submission (vkQueuePresentKHR), as every other frame may

ASSUME CaptureAssumption ==
    Buffers \in Nat \ {0} /\ FramesInFlight \in Nat \ {0} /\ LateAfterIdle \in BOOLEAN

VARIABLES
    at,         \* where the main thread is in its frame
    recording,  \* RuntimeRecording::active
    encoder,    \* the VideoRecorder's channels and worker
    video,      \* VulkanRenderer::video_capture
    still,      \* VulkanRenderer::capture
    shots,      \* RuntimeScreenshots
    gpu,        \* submitted and not yet executed work, oldest first
    extent,     \* size of the current swapchain
    idle        \* VulkanRenderer::is_idle

renderer == <<video, still, gpu, extent, idle>>
vars == <<at, recording, encoder, shots, renderer>>

Extents == {1, 2}
Pictures == {"blank", "fresh", "stale"}
Recordings == [buffer: {None, "empty"} \union Pictures, stopping: BOOLEAN, stopSent: BOOLEAN,
               attached: BOOLEAN, failed: BOOLEAN, completed: BOOLEAN]
Encoders == [open: BOOLEAN, input: Seq(Pictures), recycled: Nat,
             worker: {"opening", "ready", "encoding", "done"}]
VideoSlots == [source: Extents, requested: BOOLEAN, submitted: BOOLEAN, presented: BOOLEAN,
               signaled: BOOLEAN, image: Pictures]
StillSlots == [source: Extents, captured: BOOLEAN]
Work == [work: {"frame", "fence"}, copy: {"none", "video", "still"}, swapchain: Extents \union {0}]

ASSUME NoneAssumption ==
    /\ None \notin Recordings /\ None \notin Encoders /\ None \notin VideoSlots
    /\ None \notin StillSlots /\ None \notin Pictures \union {"empty"}

Resized(size) == 3 - size

\* ActiveRecording.  buffer is "empty" or the picture in the held pixels.
NewRecording == [buffer |-> None, stopping |-> FALSE, stopSent |-> FALSE,
                 attached |-> TRUE, failed |-> FALSE, completed |-> FALSE]

\* VideoRecorder: its sender, the bounded input, the returned buffers, the worker.
NewEncoder == [open |-> TRUE, input |-> <<>>, recycled |-> Buffers, worker |-> "opening"]
Stopped(e) == [e EXCEPT !.open = FALSE]

\* VideoReadback.  image says what its storage shows: nothing, the frame copied for
\* the present request, or one that was already collected.
NewVideo(size) == [source |-> size, requested |-> FALSE, submitted |-> FALSE,
             presented |-> FALSE, signaled |-> FALSE, image |-> "blank"]
NewStill(size) == [source |-> size, captured |-> FALSE]

Pending(v) == v # None /\ v.requested /\ ~v.submitted
Complete(v) == ~v.submitted \/ v.signaled
Wanted(s) == s # None /\ ~s.captured
FrameWork(copy, size) == [work |-> "frame", copy |-> copy, swapchain |-> size]
Fence == [work |-> "fence", copy |-> "none", swapchain |-> 0]

\* VideoReadback::resize leaves a slot alone whose copy is in the queue.
Fitted(v, size) == IF v = None \/ v.submitted \/ v.source = size THEN v
                   ELSE [v EXCEPT !.source = size, !.image = "blank"]

\* What executing one piece of work does to the video slot.
Executed(v, item) ==
    IF v = None THEN v
    ELSE IF item.copy = "video" THEN [v EXCEPT !.image = "fresh"]
    ELSE IF item.work = "fence" THEN [v EXCEPT !.signaled = TRUE]
    ELSE v
ExecutedAll(v, queue) ==
    IF v = None THEN v
    ELSE [v EXCEPT !.image = IF \E i \in DOMAIN queue : queue[i].copy = "video" THEN "fresh" ELSE @,
                   !.signaled = @ \/ \E i \in DOMAIN queue : queue[i].work = "fence"]

Init ==
    /\ at = "events" /\ recording = None /\ encoder = None
    /\ shots = [pending |-> FALSE, capturing |-> FALSE, writing |-> "none"]
    /\ video = None /\ still = None /\ gpu = <<>> /\ extent = 1 /\ idle = FALSE

\* The pixel buffers of the recording, wherever they are.
Held == IF recording.buffer = None THEN 0 ELSE 1
Encoding == IF encoder.worker = "encoding" THEN 1 ELSE 0

\* Shapes, and the buffer accounting the bounded channels rely on: while the worker
\* lives every pixel buffer is returned, held, queued or being encoded, and the
\* image queue has the room submit needs (VIDEO_BUFFERS - 1).
TypeOK ==
    /\ at \in {"events", "collect", "end", "sample", "shots", "present", "closing", "closed"}
    /\ recording \in Recordings \union {None} /\ encoder \in Encoders \union {None}
    /\ video \in VideoSlots \union {None} /\ still \in StillSlots \union {None}
    /\ gpu \in Seq(Work)
    /\ shots \in [pending: BOOLEAN, capturing: BOOLEAN, writing: {"none", "running", "done"}]
    /\ extent \in Extents /\ idle \in BOOLEAN
    /\ recording = None <=> encoder = None
    /\ encoder # None /\ encoder.worker # "done" =>
        /\ encoder.recycled + Held + Len(encoder.input) + Encoding = Buffers
        /\ Len(encoder.input) <= Buffers - 1

----------------------------------------------------------------------------
\* The player's keys.

\* VulkanRenderer::end_video_capture, a slot whose copy is not in flight.
\* Defect: the slot is freed whatever is in flight.
EndsVideo_Any(v) == TRUE
EndsVideo(v) == v = None \/ Complete(v)
AfterEnd(v) == IF EndsVideo(v) THEN None ELSE v

\* RuntimeRecording::service_event: F9 stops the live session or starts one.
PressStop ==
    /\ at = "events" /\ recording # None
    /\ recording' = [recording EXCEPT !.stopping = TRUE]
    /\ UNCHANGED <<at, encoder, shots, renderer>>

\* start.  An occupied slot, mono output, a failed allocation or encoder thread only
\* shows a notice; a mixer that refuses the tap leaves a session that is over.
PressStart(attaches) ==
    /\ at = "events" /\ recording = None /\ video = None
    /\ IF attaches
        THEN /\ video' = NewVideo(extent)
             /\ recording' = NewRecording /\ encoder' = NewEncoder
        ELSE /\ video' = None
             /\ recording' = [NewRecording EXCEPT !.attached = FALSE, !.stopping = TRUE,
                                                  !.failed = TRUE, !.stopSent = TRUE]
             /\ encoder' = Stopped(NewEncoder)
    /\ UNCHANGED <<at, shots, still, gpu, extent, idle>>

\* take_process_action: repeated keys coalesce into one pending request.
PressScreenshot ==
    /\ at = "events"
    /\ shots' = [shots EXCEPT !.pending = TRUE]
    /\ UNCHANGED <<at, recording, encoder, renderer>>

----------------------------------------------------------------------------
\* RuntimeRecording::poll, one step per look at the GPU, the mixer or the worker.

\* The error arm: the session is over, its slot is ended once, and the mixer is asked
\* (once more) to let go of the tap.
\* Defect: a failed session leaves its input open.
StepFails_KeepsInput(r, e, v) ==
    /\ recording' = [r EXCEPT !.stopping = TRUE, !.failed = TRUE, !.stopSent = TRUE]
    /\ encoder' = e /\ video' = AfterEnd(v) /\ at' = "shots"
    /\ UNCHANGED <<shots, still, gpu, extent, idle>>
StepFails(r, e, v) ==
    /\ \E refuses \in BOOLEAN :
        recording' = [r EXCEPT !.stopping = TRUE, !.failed = TRUE, !.stopSent = TRUE,
                               !.attached = @ /\ refuses]
    /\ encoder' = Stopped(e)
    /\ video' = AfterEnd(v)
    /\ at' = "shots"
    /\ UNCHANGED <<shots, still, gpu, extent, idle>>

\* The session is dropped when its input has ended and its worker's result is in.
Over(r) == r.stopSent /\ r.completed
Settles(r, e) ==
    /\ recording' = IF Over(r) THEN None ELSE r
    /\ encoder' = IF Over(r) THEN None ELSE e
    /\ at' = "shots"

PollInactive ==
    /\ at = "events" /\ recording = None
    /\ at' = "shots"
    /\ UNCHANGED <<recording, encoder, shots, renderer>>

\* A finished worker is joined once and stops the session.
WorkerEnded == encoder.worker = "done" /\ ~recording.completed
Noticed == IF WorkerEnded THEN [recording EXCEPT !.completed = TRUE, !.stopping = TRUE]
                          ELSE recording
Detaches == Noticed.stopping /\ Noticed.attached /\ ~Noticed.failed

Poll ==
    /\ at = "events" /\ recording # None
    /\ IF Noticed.failed
        THEN Settles(Noticed, encoder)
        ELSE /\ recording' = IF Detaches THEN [Noticed EXCEPT !.attached = FALSE] ELSE Noticed
             /\ at' = "collect"
             /\ UNCHANGED encoder
    /\ UNCHANGED <<shots, renderer>>

\* The mixer refuses to let go of the tap.
DetachFails ==
    /\ at = "events" /\ recording # None /\ Detaches
    /\ StepFails(Noticed, encoder, video)

\* take_buffer when no buffer is held.
Takes == recording.buffer = None /\ encoder.recycled > 0
WithBuffer == IF Takes THEN [recording EXCEPT !.buffer = "empty"] ELSE recording
Taken == IF Takes THEN [encoder EXCEPT !.recycled = @ - 1] ELSE encoder
Collects == WithBuffer.buffer # None /\ video # None /\ video.submitted /\ Complete(video)
NextStep == IF recording.stopping THEN "end" ELSE "sample"
Collected == [video EXCEPT !.requested = FALSE, !.submitted = FALSE, !.image = "stale"]

CollectNothing ==
    /\ at = "collect" /\ (Collects => ~video.presented)
    /\ recording' = WithBuffer /\ encoder' = Taken
    /\ video' = IF Collects THEN Collected ELSE video
    /\ at' = NextStep
    /\ UNCHANGED <<shots, still, gpu, extent, idle>>

\* VideoReadback::poll copied the picture; submit never waits for the encoder.
CollectFrame ==
    /\ at = "collect" /\ Collects /\ video.presented
    /\ LET accepted == /\ Taken.open /\ Taken.worker # "done"
                       /\ Len(Taken.input) < Buffers - 1
       IN /\ recording' = [recording EXCEPT !.buffer = IF accepted THEN None ELSE video.image]
          /\ encoder' = IF accepted THEN [Taken EXCEPT !.input = Append(@, video.image)]
                                    ELSE Taken
    /\ video' = Collected
    /\ at' = NextStep
    /\ UNCHANGED <<shots, still, gpu, extent, idle>>

\* The completed storage could not be read.
CollectFails ==
    /\ at = "collect" /\ Collects /\ video.presented
    /\ StepFails(WithBuffer, Taken, Collected)

\* A stopping session frees its slot as soon as no copy is in flight, then ends the input.
EndVideo ==
    /\ at = "end"
    /\ video' = AfterEnd(video)
    /\ IF EndsVideo(video) THEN Settles([recording EXCEPT !.stopSent = TRUE], Stopped(encoder))
                           ELSE Settles(recording, encoder)
    /\ UNCHANGED <<shots, still, gpu, extent, idle>>

\* No sample is due.
SkipSample ==
    /\ at = "sample"
    /\ Settles(recording, encoder)
    /\ UNCHANGED <<shots, renderer>>

\* request_video_frame declines without a buffer, or when a screenshot has the next frame.
Sample ==
    /\ at = "sample"
    /\ Settles(WithBuffer, Taken)
    /\ video' = IF WithBuffer.buffer = None \/ Wanted(still) THEN video
                ELSE [Fitted(video, extent) EXCEPT !.requested = TRUE]
    /\ UNCHANGED <<shots, still, gpu, extent, idle>>

\* The slot could not be resized to the new swapchain.
SampleFails ==
    /\ at = "sample" /\ WithBuffer.buffer # None /\ ~Wanted(still)
    /\ video.source # extent /\ ~video.submitted
    /\ StepFails(WithBuffer, Taken, video)

----------------------------------------------------------------------------
\* RuntimeScreenshots::poll.

\* wait_idle: nothing to wait for when the renderer already believes the device idle.
QueueAfterWait(queue) == IF idle THEN queue ELSE <<>>
VideoAfterWait(v, queue) == IF idle THEN v ELSE ExecutedAll(v, queue)

ShotWritten ==
    /\ at = "shots" /\ shots.writing = "done"
    /\ shots' = [shots EXCEPT !.writing = "none"]
    /\ at' = "present"
    /\ UNCHANGED <<recording, encoder, renderer>>

\* The executor is full, the frame is not presented yet, or nothing is to do.
ShotWaits ==
    /\ at = "shots" /\ shots.writing # "done"
    /\ shots.capturing \/ ~shots.pending \/ shots.writing = "running"
    /\ at' = "present"
    /\ UNCHANGED <<recording, encoder, shots, renderer>>

\* take_captured_frame; reading the storage may fail, which releases it all the same.
TakeFrame(reads) ==
    /\ at = "shots" /\ shots.writing # "done" /\ shots.capturing
    /\ still # None /\ still.captured
    /\ video' = VideoAfterWait(video, gpu) /\ gpu' = QueueAfterWait(gpu) /\ idle' = TRUE
    /\ still' = None
    /\ shots' = [shots EXCEPT !.capturing = FALSE, !.writing = IF reads THEN "running" ELSE @]
    /\ at' = "present"
    /\ UNCHANGED <<recording, encoder, extent>>

\* request_frame_capture; an occupied slot or a failed allocation drops the request.
RequestShot(allocates) ==
    /\ at = "shots" /\ shots.writing = "none" /\ ~shots.capturing /\ shots.pending
    /\ LET granted == allocates /\ still = None IN
        /\ shots' = [shots EXCEPT !.pending = FALSE, !.capturing = granted]
        /\ still' = IF granted THEN NewStill(extent) ELSE still
    /\ at' = "present"
    /\ UNCHANGED <<recording, encoder, video, gpu, extent, idle>>

----------------------------------------------------------------------------
\* Presentation.

\* Minimised, or a recoverable error before anything is submitted.
SkipPresent ==
    /\ at = "present" /\ at' = "events"
    /\ UNCHANGED <<recording, encoder, shots, renderer>>

Frames(queue) == Len(SelectSeq(queue, LAMBDA item : item.work = "frame"))
Selected(s, v) == IF Wanted(s) THEN "still" ELSE IF Pending(v) THEN "video" ELSE "none"

\* with_swapchain_retry after the attempt: the video fence follows whatever was
\* submitted, and a success marks the screenshot as captured.
\* Defect: the video slot is marked although a screenshot took the frame.
Fenced_Always(s, v) == Pending(v)
Fenced(s, v) == ~Wanted(s) /\ Pending(v)
Submitted(s, v, presented) ==
    /\ video' = IF Fenced(s, v) THEN [v EXCEPT !.submitted = TRUE, !.signaled = FALSE,
                                               !.presented = presented]
                ELSE v
    /\ still' = IF s # None /\ presented THEN [s EXCEPT !.captured = TRUE] ELSE s
Queued(s, v, queue, frames) ==
    queue \o frames \o (IF Fenced(s, v) THEN <<Fence>> ELSE <<>>)

\* The frame reaches the queue and the screen; the wait for a frame slot is the guard.
Present ==
    /\ at = "present" /\ Frames(gpu) < FramesInFlight
    /\ Submitted(still, video, TRUE)
    /\ gpu' = Queued(still, video, gpu, <<FrameWork(Selected(still, video), extent)>>)
    /\ idle' = FALSE
    /\ at' = "events"
    /\ UNCHANGED <<recording, encoder, shots, extent>>

\* What the first attempt submitted before the swapchain proved stale.
Attempted(late) == IF late THEN <<FrameWork(Selected(still, video), extent)>> ELSE <<>>

\* The swapchain is rebuilt, the readback slots follow its size, and the frame is
\* presented again.
PresentStale(late) ==
    /\ at = "present" /\ Frames(gpu) < FramesInFlight
    /\ late /\ idle => LateAfterIdle
    /\ LET size == Resized(extent)
           queue == gpu \o Attempted(late)
           v == Fitted(VideoAfterWait(video, queue), size)
           s == IF Wanted(still) THEN NewStill(size) ELSE still
       IN /\ Submitted(s, v, TRUE)
          /\ gpu' = Queued(s, v, QueueAfterWait(queue), <<FrameWork(Selected(s, v), size)>>)
          /\ extent' = size
    /\ idle' = FALSE
    /\ at' = "events"
    /\ UNCHANGED <<recording, encoder, shots>>

\* Any other failure ends the program.
PresentFails(late) ==
    /\ at = "present" /\ Frames(gpu) < FramesInFlight
    /\ late /\ idle => LateAfterIdle
    /\ Submitted(still, video, FALSE)
    /\ gpu' = Queued(still, video, gpu, Attempted(late))
    /\ at' = "closing"
    /\ UNCHANGED <<recording, encoder, shots, extent, idle>>

Quit ==
    /\ at = "events" /\ at' = "closing"
    /\ UNCHANGED <<recording, encoder, shots, renderer>>

\* RuntimeRecording::shutdown ends the input and joins the worker.
FinishRecording ==
    /\ at = "closing" /\ recording # None /\ encoder.open
    /\ recording' = [recording EXCEPT !.attached = FALSE]
    /\ encoder' = Stopped(encoder)
    /\ UNCHANGED <<at, shots, renderer>>

\* The renderer waits for the device and drops what it owns.
Close ==
    /\ at = "closing"
    /\ recording # None => ~encoder.open /\ encoder.worker = "done"
    /\ recording' = None /\ encoder' = None
    /\ gpu' = QueueAfterWait(gpu) /\ idle' = TRUE
    /\ video' = None /\ still' = None
    /\ at' = "closed"
    /\ UNCHANGED <<shots, extent>>

Closed == at = "closed" /\ UNCHANGED vars

----------------------------------------------------------------------------
\* The other parties.

Execute ==
    /\ gpu # <<>>
    /\ video' = Executed(video, Head(gpu)) /\ gpu' = Tail(gpu)
    /\ UNCHANGED <<at, recording, encoder, shots, still, extent, idle>>

EncoderStep == UNCHANGED <<at, recording, shots, renderer>>

\* The worker's result is in; queued pictures are dropped with its receiver.
Done(e) == [e EXCEPT !.worker = "done", !.input = <<>>]

OpenFiles(opens) ==
    /\ encoder # None /\ encoder.worker = "opening"
    /\ encoder' = IF opens THEN [encoder EXCEPT !.worker = "ready"] ELSE Done(encoder)
    /\ EncoderStep

ReceiveImage ==
    /\ encoder # None /\ encoder.worker = "ready" /\ encoder.input # <<>>
    /\ encoder' = [encoder EXCEPT !.worker = "encoding", !.input = Tail(@)]
    /\ EncoderStep

\* The pixels are returned before the codec's verdict is looked at.
EncodeImage(encodes) ==
    /\ encoder # None /\ encoder.worker = "encoding"
    /\ LET returned == [encoder EXCEPT !.recycled = @ + 1, !.worker = "ready"]
       IN encoder' = IF encodes THEN returned ELSE Done(returned)
    /\ EncoderStep

\* The input ended and is empty, or the audio device changed its format.
EndEncoding ==
    /\ encoder # None /\ encoder.worker = "ready"
    /\ ~encoder.open /\ encoder.input = <<>>
    /\ encoder' = Done(encoder)
    /\ EncoderStep

ChangeFormat ==
    /\ encoder # None /\ encoder.worker = "ready"
    /\ encoder' = Done(encoder)
    /\ EncoderStep

WriteShot ==
    /\ shots.writing = "running"
    /\ shots' = [shots EXCEPT !.writing = "done"]
    /\ UNCHANGED <<at, recording, encoder, renderer>>

----------------------------------------------------------------------------
Keys == PressStop \/ (\E attaches \in BOOLEAN : PressStart(attaches)) \/ PressScreenshot \/ Quit
PollRecording ==
    \/ PollInactive \/ Poll \/ DetachFails
    \/ CollectNothing \/ CollectFrame \/ CollectFails
    \/ EndVideo \/ SkipSample \/ Sample \/ SampleFails
PollScreenshots == ShotWritten \/ ShotWaits \/ \E ok \in BOOLEAN : TakeFrame(ok) \/ RequestShot(ok)
PresentFrame == SkipPresent \/ Present \/ \E late \in BOOLEAN : PresentStale(late) \/ PresentFails(late)
Main == PollRecording \/ PollScreenshots \/ PresentFrame \/ FinishRecording \/ Close
Encode ==
    \/ \E ok \in BOOLEAN : OpenFiles(ok) \/ EncodeImage(ok)
    \/ ReceiveImage \/ EndEncoding
Next == Keys \/ Main \/ Closed \/ Execute \/ Encode \/ ChangeFormat \/ WriteShot

\* The main loop, the GPU and the worker threads keep running; the window is shown and
\* the executor has room again and again.
Fairness ==
    /\ WF_vars(Main) /\ WF_vars(Execute) /\ WF_vars(Encode) /\ WF_vars(WriteShot)
    /\ SF_vars(Present)
    /\ SF_vars(\E reads \in BOOLEAN : TakeFrame(reads))

Spec == Init /\ [][Next]_vars /\ Fairness

----------------------------------------------------------------------------
\* Storage the GPU still writes to is alive and of the size the commands were recorded
\* for: no copy in the queue has lost its readback slot, no frame its swapchain
\* (recreate_swapchain, VideoReadback::resize, end_video_capture, Drop).
CopyTargetsAlive == \A i \in DOMAIN gpu :
    gpu[i].work = "frame" =>
        /\ at # "closed" /\ gpu[i].swapchain = extent
        /\ gpu[i].copy = "video" => video # None /\ video.source = extent
        /\ gpu[i].copy = "still" => still # None /\ still.source = extent

\* A picture handed to the encoder is the one copied for that very request: not the
\* previous one again, not storage no frame was copied to, however screenshots,
\* resizes and failed presentations take frames away (vulkan_renderer.rs:678).
ImagesFresh == encoder # None => \A i \in DOMAIN encoder.input : encoder.input[i] = "fresh"

\* A session that stops, by key, failure or a finished worker, is over after some frames,
\* even while the window is minimised or a copy is in flight.
RecordingEnds == (recording # None /\ recording.stopping) ~> (recording = None)

\* A screenshot, from its request's admission on, is written or reported as failed, and
\* makes room for the next.
ScreenshotEnds ==
    shots.capturing \/ shots.writing # "none"
        ~> (~shots.capturing /\ shots.writing = "none") \/ at = "closed"

\* Neither kind of capture outlives its own end.
CapturesEnd == RecordingEnds /\ ScreenshotEnds

\* What the documents promise; the code does not keep it (README, section 6): storage a
\* failed recording left to its copy goes with it: recording/session.rs:215 "The
\* renderer retains in-flight storage until fence retirement or".
SlotGivenBack == (video # None /\ recording = None) ~> (video = None)
=============================================================================
