---------------------------- MODULE CaptureProofs ----------------------------
(***************************************************************************)
(* Theorems about Capture, for any number of pixel buffers and of frames   *)
(* in flight.                                                              *)
(***************************************************************************)
EXTENDS Capture, SequenceTheorems, TLAPS

\* Where the main thread is says what is left of the session; until its input has
\* ended a session has a slot.
SessionInv ==
    /\ at \in {"collect", "end", "sample"} => recording # None
    /\ at = "end" => recording.stopping
    /\ at = "sample" => ~recording.stopping
    /\ recording # None => /\ recording.stopSent => recording.stopping
                           /\ ~recording.stopSent => video # None

\* The queue holds at most one fence, behind every copy into the video slot; a fence
\* that is about to be submitted will be the first.
HasFence(q) == \E i \in DOMAIN q : q[i].work = "fence"
HasCopy(q) == \E i \in DOMAIN q : q[i].copy = "video"
Sound(q, coming) ==
    /\ \A i, j \in DOMAIN q : q[i].work = "fence" /\ q[j].work = "fence" => i = j
    /\ \A i \in DOMAIN q : q[i].work = "fence" => q[i].copy = "none"
    /\ coming => ~HasFence(q)
    /\ ~coming => \A i \in DOMAIN q : q[i].copy = "video" =>
                      \E j \in DOMAIN q : i < j /\ q[j].work = "fence"

\* The fence in the queue is that of the copy under way, and a picture to be handed on
\* is the one asked for as soon as the fence has signalled.
InFlight(v) == v # None /\ v.submitted /\ ~v.signaled
Promised(v, q) ==
    v # None /\ v.submitted /\ v.presented =>
        v.image = "fresh" \/ (~v.signaled /\ HasCopy(q))
QueueInv ==
    /\ Sound(gpu, FALSE)
    /\ HasFence(gpu) => at = "closed" \/ InFlight(video)
    /\ Promised(video, gpu)

\* No frame is executed late once the renderer believes the device idle, and a request
\* not yet recorded fits the swapchain.
TargetsInv ==
    /\ CopyTargetsAlive
    /\ idle => \A i \in DOMAIN gpu : gpu[i].work # "frame"
    /\ Pending(video) => video.source = extent
    /\ Wanted(still) => still.source = extent

CaptureInv == TypeOK /\ SessionInv /\ QueueInv /\ ImagesFresh
              /\ (~LateAfterIdle => TargetsInv)
-----------------------------------------------------------------------------
(* Work behind the queue, and its execution.                               *)

LEMMA AppendItems ==
    ASSUME NEW S, NEW q \in Seq(S), NEW x \in S
    PROVE  /\ Append(q, x) \in Seq(S)
           /\ DOMAIN q = 1..Len(q) /\ Len(q) \in Nat
           /\ DOMAIN Append(q, x) = 1..(Len(q) + 1)
           /\ \A i \in 1..Len(q) : Append(q, x)[i] = q[i]
           /\ Append(q, x)[Len(q) + 1] = x
<1>1. /\ Append(q, x) \in Seq(S) /\ Len(Append(q, x)) = Len(q) + 1
      /\ \A i \in 1..Len(q) : Append(q, x)[i] = q[i]
      /\ Append(q, x)[Len(q) + 1] = x
  BY AppendProperties
<1>2. DOMAIN Append(q, x) = 1..Len(Append(q, x)) /\ DOMAIN q = 1..Len(q) /\ Len(q) \in Nat
  BY <1>1, LenProperties
<1> QED BY <1>1, <1>2

LEMMA AppendSound ==
    ASSUME NEW q \in Seq(Work), NEW coming \in BOOLEAN, Sound(q, coming),
           NEW x \in Work, x.work = "frame", x.copy = "video" => coming
    PROVE  /\ Sound(Append(q, x), coming)
           /\ HasFence(Append(q, x)) <=> HasFence(q)
           /\ HasCopy(Append(q, x)) <=> HasCopy(q) \/ x.copy = "video"
<1> DEFINE n == Len(q)
           r == Append(q, x)
<1>1. /\ n \in Nat /\ DOMAIN q = 1..n /\ DOMAIN r = 1..(n + 1)
      /\ \A i \in 1..n : r[i] = q[i]
      /\ r[n + 1] = x
  BY AppendItems
<1> HIDE DEF n, r
<1>2. \A i \in 1..(n + 1) : i \in 1..n \/ i = n + 1
  BY <1>1
<1>3. \A i \in 1..n : i \in 1..(n + 1)
  BY <1>1
<1>4. HasFence(r) <=> HasFence(q)
  BY <1>1, <1>2, <1>3 DEF HasFence
<1>5. HasCopy(r) <=> HasCopy(q) \/ x.copy = "video"
  <2>1. n + 1 \in 1..(n + 1)
    BY <1>1
  <2> QED BY <1>1, <1>2, <1>3, <2>1 DEF HasCopy
<1>6. \A i, j \in DOMAIN r : r[i].work = "fence" /\ r[j].work = "fence" => i = j
  BY <1>1, <1>2 DEF Sound
<1>7. \A i \in DOMAIN r : r[i].work = "fence" => r[i].copy = "none"
  BY <1>1, <1>2 DEF Sound
<1>8. ASSUME ~coming, NEW i \in DOMAIN r, r[i].copy = "video"
      PROVE  \E j \in DOMAIN r : i < j /\ r[j].work = "fence"
  <2>1. i \in 1..n /\ q[i].copy = "video"
    BY <1>1, <1>2, <1>8
  <2>2. PICK j \in 1..n : i < j /\ q[j].work = "fence"
    BY <1>1, <1>8, <2>1 DEF Sound
  <2> QED BY <1>1, <1>3, <2>2
<1>9. Sound(r, coming)
  BY <1>4, <1>6, <1>7, <1>8 DEF Sound
<1> QED BY <1>4, <1>5, <1>9 DEF r

LEMMA FenceSound ==
    ASSUME NEW q \in Seq(Work), Sound(q, TRUE)
    PROVE  /\ Append(q, Fence) \in Seq(Work) /\ Sound(Append(q, Fence), FALSE)
           /\ HasCopy(Append(q, Fence)) <=> HasCopy(q)
<1> DEFINE n == Len(q)
           r == Append(q, Fence)
<1>0. Fence \in Work /\ Fence.work = "fence" /\ Fence.copy = "none"
  BY DEF Fence, Work
<1>1. /\ n \in Nat /\ DOMAIN q = 1..n /\ DOMAIN r = 1..(n + 1)
      /\ \A i \in 1..n : r[i] = q[i]
      /\ r[n + 1] = Fence /\ r \in Seq(Work)
  BY <1>0, AppendItems
<1> HIDE DEF n, r
<1>2. \A i \in 1..(n + 1) : i \in 1..n \/ i = n + 1
  BY <1>1
<1>3. n + 1 \in 1..(n + 1) /\ \A i \in 1..n : i \in 1..(n + 1) /\ i < n + 1
  BY <1>1
<1>4. \A i \in 1..n : q[i].work # "fence"
  BY <1>1 DEF Sound, HasFence
<1>5. HasCopy(r) <=> HasCopy(q)
  BY <1>0, <1>1, <1>2, <1>3 DEF HasCopy
<1>6. \A i \in DOMAIN r : r[i].work = "fence" => i = n + 1
  BY <1>1, <1>2, <1>4
<1>7. \A i \in DOMAIN r : r[i].work = "fence" => r[i].copy = "none"
  BY <1>0, <1>1, <1>6
<1>8. ASSUME NEW i \in DOMAIN r, r[i].copy = "video"
      PROVE  \E j \in DOMAIN r : i < j /\ r[j].work = "fence"
  BY <1>0, <1>1, <1>2, <1>3, <1>8
<1> QED BY <1>1, <1>5, <1>6, <1>7, <1>8 DEF Sound, r

LEMMA TailSound ==
    ASSUME NEW q \in Seq(Work), q # <<>>, Sound(q, FALSE)
    PROVE  /\ Head(q) \in Work /\ Tail(q) \in Seq(Work) /\ Sound(Tail(q), FALSE)
           /\ HasFence(q) <=> Head(q).work = "fence" \/ HasFence(Tail(q))
           /\ HasCopy(q) <=> Head(q).copy = "video" \/ HasCopy(Tail(q))
           /\ Head(q).work = "fence" => ~HasFence(Tail(q)) /\ ~HasCopy(Tail(q))
                                        /\ Head(q).copy = "none"
<1> DEFINE n == Len(q)
           r == Tail(q)
<1>1. /\ n \in Nat \ {0} /\ DOMAIN q = 1..n /\ Head(q) = q[1] /\ Head(q) \in Work
      /\ r \in Seq(Work) /\ DOMAIN r = 1..(n - 1)
      /\ \A i \in 1..(n - 1) : r[i] = q[i + 1]
  <2>1. n \in Nat \ {0} /\ Head(q) = q[1]
    BY EmptySeq
  <2>2. r \in Seq(Work) /\ Len(r) = n - 1 /\ Head(q) \in Work /\ \A i \in 1..Len(r) : r[i] = q[i + 1]
    BY HeadTailProperties
  <2>3. DOMAIN q = 1..n /\ DOMAIN r = 1..Len(r)
    BY <2>2, LenProperties
  <2> QED BY <2>1, <2>2, <2>3
<1> HIDE DEF n, r
<1>2. 1 \in 1..n /\ \A i \in 1..(n - 1) : i + 1 \in 1..n /\ i + 1 # 1
  BY <1>1
<1>3. \A i \in 1..n : i = 1 \/ \E k \in 1..(n - 1) : i = k + 1
  <2> TAKE i \in 1..n
  <2>1. i = 1 \/ (i - 1 \in 1..(n - 1) /\ i = (i - 1) + 1)
    BY <1>1
  <2> QED BY <2>1
<1>4. HasFence(q) <=> Head(q).work = "fence" \/ HasFence(r)
  <2>1. ASSUME NEW i \in 1..n, q[i].work = "fence"
        PROVE  Head(q).work = "fence" \/ HasFence(r)
    BY <1>1, <1>3, <2>1 DEF HasFence
  <2>2. ASSUME NEW k \in 1..(n - 1), r[k].work = "fence"
        PROVE  HasFence(q)
    <3>1. k + 1 \in 1..n /\ q[k + 1].work = "fence"
      BY <1>1, <1>2, <2>2
    <3> QED BY <1>1, <3>1 DEF HasFence
  <2> QED BY <1>1, <1>2, <2>1, <2>2 DEF HasFence
<1>5. HasCopy(q) <=> Head(q).copy = "video" \/ HasCopy(r)
  <2>1. ASSUME NEW i \in 1..n, q[i].copy = "video"
        PROVE  Head(q).copy = "video" \/ HasCopy(r)
    BY <1>1, <1>3, <2>1 DEF HasCopy
  <2>2. ASSUME NEW k \in 1..(n - 1), r[k].copy = "video"
        PROVE  HasCopy(q)
    <3>1. k + 1 \in 1..n /\ q[k + 1].copy = "video"
      BY <1>1, <1>2, <2>2
    <3> QED BY <1>1, <3>1 DEF HasCopy
  <2> QED BY <1>1, <1>2, <2>1, <2>2 DEF HasCopy
<1>6. ASSUME NEW i \in 1..(n - 1), NEW j \in 1..(n - 1), r[i].work = "fence", r[j].work = "fence"
      PROVE  i = j
  <2>1. i + 1 = j + 1
    BY <1>1, <1>2, <1>6 DEF Sound
  <2> QED BY <2>1
<1>7. ASSUME NEW i \in 1..(n - 1), r[i].work = "fence"
      PROVE  r[i].copy = "none"
  <2>1. i + 1 \in DOMAIN q /\ q[i + 1].work = "fence" /\ q[i + 1] = r[i]
    BY <1>1, <1>2, <1>7
  <2> QED BY <2>1 DEF Sound
<1>8. ASSUME NEW i \in 1..(n - 1), r[i].copy = "video"
      PROVE  \E j \in 1..(n - 1) : i < j /\ r[j].work = "fence"
  <2>0. i + 1 \in DOMAIN q /\ q[i + 1].copy = "video"
    BY <1>1, <1>2, <1>8
  <2>1. PICK j \in 1..n : i + 1 < j /\ q[j].work = "fence"
    BY <1>1, <2>0 DEF Sound
  <2>2. j - 1 \in 1..(n - 1) /\ i < j - 1 /\ (j - 1) + 1 = j
    BY <1>1, <2>1
  <2> QED BY <1>1, <2>1, <2>2
<1>9. Sound(r, FALSE)
  BY <1>1, <1>6, <1>7, <1>8 DEF Sound
<1>10. ASSUME Head(q).work = "fence"
       PROVE  ~HasFence(r) /\ ~HasCopy(r) /\ Head(q).copy = "none"
  <2>1. \A i \in 1..(n - 1) : r[i].work # "fence"
    BY <1>1, <1>2, <1>10 DEF Sound
  <2>2. Head(q).copy = "none"
    BY <1>1, <1>2, <1>10 DEF Sound
  <2> QED BY <1>1, <1>8, <2>1, <2>2 DEF HasFence, HasCopy
<1> QED BY <1>1, <1>4, <1>5, <1>9, <1>10 DEF r
-----------------------------------------------------------------------------
(* The parts of the state, and what the operators do to their types.       *)

\* A session's pixel buffers are all accounted for while its worker lives.
Accounted(r, e) ==
    /\ r \in Recordings /\ e \in Encoders
    /\ e.worker # "done" =>
        /\ e.recycled + (IF r.buffer = None THEN 0 ELSE 1) + Len(e.input)
             + (IF e.worker = "encoding" THEN 1 ELSE 0) = Buffers
        /\ Len(e.input) <= Buffers - 1
SessionOK(r, e) == (r = None /\ e = None) \/ Accounted(r, e)
SlotsOK == video \in VideoSlots \union {None} /\ still \in StillSlots \union {None}
QueueOK == gpu \in Seq(Work) /\ extent \in Extents /\ idle \in BOOLEAN
StepsOK ==
    /\ at \in {"events", "collect", "end", "sample", "shots", "present", "closing", "closed"}
    /\ shots \in [pending: BOOLEAN, capturing: BOOLEAN, writing: {"none", "running", "done"}]

LEMMA TypeParts == TypeOK <=> SessionOK(recording, encoder) /\ SlotsOK /\ QueueOK /\ StepsOK
<1>1. TypeOK => SessionOK(recording, encoder)
  BY DEF TypeOK, SessionOK, Accounted, Held, Encoding
<1>2. SessionOK(recording, encoder) =>
          /\ recording \in Recordings \union {None} /\ encoder \in Encoders \union {None}
          /\ recording = None <=> encoder = None
          /\ encoder # None /\ encoder.worker # "done" =>
                /\ encoder.recycled + Held + Len(encoder.input) + Encoding = Buffers
                /\ Len(encoder.input) <= Buffers - 1
  BY NoneAssumption DEF SessionOK, Accounted, Held, Encoding
<1> QED BY <1>1, <1>2 DEF TypeOK, SlotsOK, QueueOK, StepsOK

LEMMA TypePartsNext ==
    TypeOK' <=> SessionOK(recording', encoder') /\ SlotsOK' /\ QueueOK' /\ StepsOK'
<1>1. TypeOK' => SessionOK(recording', encoder')
  BY DEF TypeOK, SessionOK, Accounted, Held, Encoding
<1>2. SessionOK(recording', encoder') =>
          /\ recording' \in Recordings \union {None} /\ encoder' \in Encoders \union {None}
          /\ recording' = None <=> encoder' = None
          /\ encoder' # None /\ encoder'.worker # "done" =>
                /\ encoder'.recycled + Held' + Len(encoder'.input) + Encoding' = Buffers
                /\ Len(encoder'.input) <= Buffers - 1
  BY NoneAssumption DEF SessionOK, Accounted, Held, Encoding
<1> QED BY <1>1, <1>2 DEF TypeOK, SlotsOK, QueueOK, StepsOK

LEMMA SlotTypes ==
    ASSUME NEW v \in VideoSlots \union {None}, NEW size \in Extents
    PROVE  /\ NewVideo(size) \in VideoSlots /\ NewStill(size) \in StillSlots
           /\ Fitted(v, size) \in VideoSlots \union {None}
           /\ Fitted(v, size) = None <=> v = None
           /\ AfterEnd(v) \in VideoSlots \union {None}
           /\ Resized(size) \in Extents
<1>1. NewVideo(size) \in VideoSlots /\ NewStill(size) \in StillSlots
  BY DEF NewVideo, NewStill, VideoSlots, StillSlots, Pictures
<1>2. Fitted(v, size) \in VideoSlots \union {None} /\ (Fitted(v, size) = None <=> v = None)
  BY NoneAssumption DEF Fitted, VideoSlots, Pictures
<1>3. Resized(size) \in Extents
  BY DEF Resized, Extents
<1> QED BY <1>1, <1>2, <1>3 DEF AfterEnd

LEMMA ExecutionTypes ==
    ASSUME NEW v \in VideoSlots \union {None}, NEW item \in Work, NEW q \in Seq(Work)
    PROVE  /\ Executed(v, item) \in VideoSlots \union {None}
           /\ Executed(v, item) = None <=> v = None
           /\ ExecutedAll(v, q) \in VideoSlots \union {None}
           /\ ExecutedAll(v, q) = None <=> v = None
<1>1. Executed(v, item) \in VideoSlots \union {None} /\ (Executed(v, item) = None <=> v = None)
  BY NoneAssumption DEF Executed, VideoSlots, Pictures
<1>2. ExecutedAll(v, q) \in VideoSlots \union {None} /\ (ExecutedAll(v, q) = None <=> v = None)
  BY NoneAssumption DEF ExecutedAll, VideoSlots, Pictures
<1> QED BY <1>1, <1>2
-----------------------------------------------------------------------------
(* The session: its flags, its buffers and its worker.                     *)

LEMMA BufferTaken ==
    ASSUME recording # None, SessionOK(recording, encoder)
    PROVE  /\ Accounted(WithBuffer, Taken) /\ Taken.input = encoder.input
           /\ WithBuffer.stopping = recording.stopping
           /\ WithBuffer.stopSent = recording.stopSent
<1>1. Accounted(recording, encoder)
  BY DEF SessionOK
<1>2. recording \in Recordings /\ encoder \in Encoders
  BY <1>1 DEF Accounted
<1>3. CASE ~Takes
  BY <1>1, <1>3 DEF WithBuffer, Taken
<1>4. CASE Takes
  <2>1. /\ recording.buffer = None /\ encoder.recycled \in Nat /\ encoder.recycled > 0
        /\ Taken = [encoder EXCEPT !.recycled = @ - 1]
        /\ WithBuffer = [recording EXCEPT !.buffer = "empty"]
    BY <1>2, <1>4 DEF Takes, Taken, WithBuffer, Encoders
  <2>2. /\ Taken \in Encoders /\ Taken.recycled = encoder.recycled - 1
        /\ Taken.worker = encoder.worker /\ Taken.input = encoder.input
    BY <1>2, <2>1 DEF Encoders
  <2>3. WithBuffer \in Recordings /\ WithBuffer.buffer = "empty"
        /\ WithBuffer.stopping = recording.stopping /\ WithBuffer.stopSent = recording.stopSent
    BY <1>2, <2>1 DEF Recordings
  <2>4. ASSUME Taken.worker # "done"
        PROVE  Taken.recycled + 1 + Len(Taken.input)
                 + (IF Taken.worker = "encoding" THEN 1 ELSE 0) = Buffers
    <3>1. Len(encoder.input) \in Nat
      BY <1>2 DEF Encoders
    <3>2. encoder.recycled + 0 + Len(encoder.input)
             + (IF encoder.worker = "encoding" THEN 1 ELSE 0) = Buffers
      BY <1>1, <2>1, <2>2, <2>4 DEF Accounted
    <3> QED BY <2>1, <2>2, <3>1, <3>2
  <2>5. Taken.worker # "done" => Len(Taken.input) <= Buffers - 1
    BY <1>1, <2>2 DEF Accounted
  <2>6. WithBuffer.buffer # None
    BY <2>3, NoneAssumption
  <2> QED BY <2>2, <2>3, <2>4, <2>5, <2>6 DEF Accounted
<1> QED BY <1>3, <1>4

LEMMA FailedSession ==
    ASSUME NEW r, NEW e, NEW v, Accounted(r, e), StepFails(r, e, v)
    PROVE  /\ Accounted(recording', encoder') /\ recording' # None
           /\ encoder'.input = e.input
           /\ recording'.stopping /\ recording'.stopSent /\ at' = "shots"
<1>1. r \in Recordings /\ e \in Encoders
  BY DEF Accounted
<1>2. PICK refuses \in BOOLEAN :
        recording' = [r EXCEPT !.stopping = TRUE, !.failed = TRUE, !.stopSent = TRUE,
                               !.attached = @ /\ refuses]
  BY DEF StepFails
<1>3. (r.attached /\ refuses) \in BOOLEAN
  OBVIOUS
<1>4. recording' \in Recordings /\ recording'.buffer = r.buffer
      /\ recording'.stopping /\ recording'.stopSent
  BY <1>1, <1>2, <1>3 DEF Recordings
<1>5. encoder' \in Encoders /\ encoder'.recycled = e.recycled /\ encoder'.input = e.input
      /\ encoder'.worker = e.worker
  BY <1>1 DEF StepFails, Stopped, Encoders
<1>6. Accounted(recording', encoder')
  BY <1>4, <1>5 DEF Accounted
<1> QED BY <1>4, <1>5, <1>6, NoneAssumption DEF StepFails

LEMMA SettledSession ==
    ASSUME NEW r, NEW e, Accounted(r, e), Settles(r, e)
    PROVE  /\ SessionOK(recording', encoder') /\ at' = "shots"
           /\ \/ recording' = None /\ encoder' = None
              \/ recording' = r /\ encoder' = e
BY DEF Settles, SessionOK

\* Settling after the input has ended.
LEMMA EndedSession ==
    ASSUME NEW r, NEW e, Accounted(r, e)
    PROVE  /\ Accounted([r EXCEPT !.stopSent = TRUE], Stopped(e)) /\ Stopped(e).input = e.input
           /\ [r EXCEPT !.stopSent = TRUE].stopping = r.stopping
<1>1. r \in Recordings /\ e \in Encoders
  BY DEF Accounted
<1>2. /\ [r EXCEPT !.stopSent = TRUE] \in Recordings
      /\ [r EXCEPT !.stopSent = TRUE].buffer = r.buffer
      /\ [r EXCEPT !.stopSent = TRUE].stopping = r.stopping
  BY <1>1 DEF Recordings
<1>3. /\ Stopped(e) \in Encoders /\ Stopped(e).recycled = e.recycled /\ Stopped(e).input = e.input
      /\ Stopped(e).worker = e.worker
  BY <1>1 DEF Stopped, Encoders
<1> QED BY <1>2, <1>3 DEF Accounted

LEMMA NoticedSession ==
    ASSUME recording # None, SessionOK(recording, encoder),
           recording.stopSent => recording.stopping
    PROVE  /\ Accounted(Noticed, encoder) /\ Noticed.stopSent = recording.stopSent
           /\ recording.stopping => Noticed.stopping
           /\ Noticed.stopSent => Noticed.stopping
<1>1. Accounted(recording, encoder) /\ recording \in Recordings
  BY DEF SessionOK, Accounted
<1>2. /\ Noticed \in Recordings /\ Noticed.buffer = recording.buffer
      /\ Noticed.stopSent = recording.stopSent /\ (recording.stopping => Noticed.stopping)
  BY <1>1 DEF Noticed, Recordings
<1> QED BY <1>1, <1>2 DEF Accounted
-----------------------------------------------------------------------------
(* A submission: what it marks and what it leaves in the queue.            *)

Selection == {"none", "video", "still"}

LEMMA FrameTypes ==
    ASSUME NEW copy \in Selection, NEW size \in Extents
    PROVE  /\ FrameWork(copy, size) \in Work /\ Fence \in Work
           /\ FrameWork(copy, size).work = "frame" /\ FrameWork(copy, size).copy = copy
           /\ FrameWork(copy, size).swapchain = size
           /\ Fence.work = "fence" /\ Fence.copy = "none"
BY DEF FrameWork, Fence, Work, Selection

\* Work goes behind what is queued, the fence last.
LEMMA QueuedWork ==
    ASSUME NEW q \in Seq(Work), NEW x \in Work, NEW s, NEW v
    PROVE  /\ Queued(s, v, q, <<>>) = IF Fenced(s, v) THEN Append(q, Fence) ELSE q
           /\ Queued(s, v, q, <<x>>) = IF Fenced(s, v) THEN Append(Append(q, x), Fence)
                                       ELSE Append(q, x)
           /\ q \o <<x>> = Append(q, x) /\ q \o <<>> = q
           /\ Append(q, x) \in Seq(Work)
           /\ Queued(s, v, q, <<>>) \in Seq(Work) /\ Queued(s, v, q, <<x>>) \in Seq(Work)
<1>1. Fence \in Work
  BY DEF Fence, Work
<1>2. q \o <<>> = q /\ q \o <<x>> = Append(q, x) /\ Append(q, x) \in Seq(Work)
  BY ConcatEmptySeq, AppendIsConcat, AppendProperties
<1>3. /\ Append(q, x) \o <<>> = Append(q, x) /\ q \o <<Fence>> = Append(q, Fence)
      /\ Append(q, x) \o <<Fence>> = Append(Append(q, x), Fence)
  BY <1>1, <1>2, ConcatEmptySeq, AppendIsConcat
<1>4. Append(q, Fence) \in Seq(Work) /\ Append(Append(q, x), Fence) \in Seq(Work)
  BY <1>1, <1>2, AppendProperties
<1>5. Queued(s, v, q, <<>>) = IF Fenced(s, v) THEN Append(q, Fence) ELSE q
  BY <1>2, <1>3 DEF Queued
<1>6. Queued(s, v, q, <<x>>) = IF Fenced(s, v) THEN Append(Append(q, x), Fence) ELSE Append(q, x)
  BY <1>2, <1>3 DEF Queued
<1> QED BY <1>2, <1>4, <1>5, <1>6

LEMMA SubmittedSlots ==
    ASSUME NEW s \in StillSlots \union {None}, NEW v \in VideoSlots \union {None},
           NEW presented \in BOOLEAN, Submitted(s, v, presented)
    PROVE  /\ SlotsOK' /\ (video' = None <=> v = None) /\ (still' = None <=> s = None)
           /\ v # None => video'.source = v.source /\ video'.image = v.image
           /\ s # None => still'.source = s.source
           /\ Fenced(s, v) => /\ video'.submitted /\ ~video'.signaled
                              /\ video'.presented = presented
           /\ ~Fenced(s, v) => video' = v
           /\ Wanted(still') => Wanted(s)
<1>1. CASE Fenced(s, v)
  <2>1. v \in VideoSlots
    BY <1>1 DEF Fenced, Pending
  <2>2. /\ video' \in VideoSlots /\ video'.source = v.source /\ video'.image = v.image
        /\ video'.submitted /\ ~video'.signaled /\ video'.presented = presented
    BY <1>1, <2>1 DEF Submitted, VideoSlots
  <2>3. /\ still' \in StillSlots \union {None} /\ (still' = None <=> s = None)
        /\ s # None => still'.source = s.source
        /\ Wanted(still') => Wanted(s)
    BY NoneAssumption DEF Submitted, StillSlots, Wanted
  <2> QED BY <1>1, <2>1, <2>2, <2>3, NoneAssumption DEF SlotsOK
<1>2. CASE ~Fenced(s, v)
  <2>1. video' = v
    BY <1>2 DEF Submitted
  <2>2. /\ still' \in StillSlots \union {None} /\ (still' = None <=> s = None)
        /\ s # None => still'.source = s.source
        /\ Wanted(still') => Wanted(s)
    BY NoneAssumption DEF Submitted, StillSlots, Wanted
  <2> QED BY <1>2, <2>1, <2>2 DEF SlotsOK
<1> QED BY <1>1, <1>2

LEMMA AfterWaitTypes ==
    ASSUME TypeOK, NEW q \in Seq(Work)
    PROVE  /\ VideoAfterWait(video, q) \in VideoSlots \union {None}
           /\ VideoAfterWait(video, q) = None <=> video = None
           /\ QueueAfterWait(q) \in Seq(Work)
<1>1. Fence \in Work /\ video \in VideoSlots \union {None} /\ <<>> \in Seq(Work)
  BY DEF Fence, Work, TypeOK
<1>2. /\ ExecutedAll(video, q) \in VideoSlots \union {None}
      /\ ExecutedAll(video, q) = None <=> video = None
  BY <1>1, ExecutionTypes
<1> QED BY <1>1, <1>2 DEF VideoAfterWait, QueueAfterWait
-----------------------------------------------------------------------------
(* Types, buffers and the session's flags are kept by every step.          *)

Shape == TypeOK /\ SessionInv

LEMMA ShapeParts ==
    ASSUME Shape
    PROVE  /\ SessionOK(recording, encoder) /\ SlotsOK /\ QueueOK /\ StepsOK /\ SessionInv
           /\ recording # None => Accounted(recording, encoder) /\ encoder # None
BY TypeParts, NoneAssumption DEF Shape, SessionOK, Accounted

LEMMA KeysShape ==
    ASSUME Shape, Keys
    PROVE  Shape'
<1> USE ShapeParts
<1>1. CASE PressStop
  <2>1. Accounted(recording', encoder') /\ recording'.stopping /\ recording' # None
        /\ recording'.stopSent = recording.stopSent
    BY <1>1, NoneAssumption DEF PressStop, Accounted, Recordings
  <2>2. SessionOK(recording', encoder') /\ SlotsOK' /\ QueueOK' /\ StepsOK'
    BY <1>1, <2>1 DEF PressStop, renderer, SessionOK, SlotsOK, QueueOK, StepsOK
  <2>3. SessionInv'
    BY <1>1, <2>1 DEF PressStop, renderer, SessionInv
  <2> QED BY <2>2, <2>3, TypePartsNext DEF Shape
<1>2. ASSUME NEW attaches \in BOOLEAN, PressStart(attaches)
      PROVE  Shape'
  <2>1. /\ NewRecording \in Recordings /\ NewRecording.buffer = None /\ ~NewRecording.stopSent
        /\ Buffers \in Nat
    BY CaptureAssumption DEF NewRecording, Recordings
  <2>2. /\ NewEncoder \in Encoders /\ NewEncoder.recycled = Buffers /\ NewEncoder.input = <<>>
        /\ NewEncoder.worker = "opening"
    BY <2>1 DEF NewEncoder, Encoders
  <2>3. /\ Stopped(NewEncoder) \in Encoders /\ Stopped(NewEncoder).recycled = Buffers
        /\ Stopped(NewEncoder).input = <<>> /\ Stopped(NewEncoder).worker = "opening"
    BY <2>2 DEF Stopped, Encoders
  <2>4. Len(<<>>) = 0 /\ Buffers + 0 + 0 + 0 = Buffers /\ 0 <= Buffers - 1
    BY CaptureAssumption
  <2>5. NewVideo(extent) \in VideoSlots
    BY SlotTypes DEF QueueOK, SlotsOK
  <2>6. CASE attaches
    <3>1. recording' = NewRecording /\ encoder' = NewEncoder /\ video' = NewVideo(extent)
      BY <1>2, <2>6 DEF PressStart
    <3>2. Accounted(recording', encoder')
      BY <2>1, <2>2, <2>4, <3>1 DEF Accounted
    <3> QED BY <1>2, <2>1, <2>5, <3>1, <3>2, TypePartsNext, NoneAssumption
            DEF PressStart, Shape, SessionInv, SessionOK, SlotsOK, QueueOK, StepsOK
  <2>7. CASE ~attaches
    <3>1. /\ recording' = [NewRecording EXCEPT !.attached = FALSE, !.stopping = TRUE,
                                               !.failed = TRUE, !.stopSent = TRUE]
          /\ encoder' = Stopped(NewEncoder) /\ video' = None
      BY <1>2, <2>7 DEF PressStart
    <3>2. recording' \in Recordings /\ recording'.buffer = None /\ recording'.stopping
      BY <2>1, <3>1 DEF Recordings
    <3>3. Accounted(recording', encoder')
      BY <2>3, <2>4, <3>1, <3>2 DEF Accounted
    <3>4. recording' # None /\ recording'.stopSent
      BY <2>1, <3>1, <3>2, NoneAssumption DEF Recordings
    <3>5. SessionInv'
      BY <1>2, <3>2, <3>4 DEF PressStart, SessionInv
    <3> QED BY <1>2, <3>1, <3>3, <3>5, TypePartsNext
            DEF PressStart, Shape, SessionOK, SlotsOK, QueueOK, StepsOK
  <2> QED BY <2>6, <2>7
<1>3. CASE PressScreenshot
  BY <1>3, TypePartsNext
     DEF PressScreenshot, renderer, Shape, SessionInv, SlotsOK, QueueOK, StepsOK
<1>4. CASE Quit
  BY <1>4, TypePartsNext DEF Quit, renderer, Shape, SessionInv, SlotsOK, QueueOK, StepsOK
<1> QED BY <1>1, <1>2, <1>3, <1>4 DEF Keys

LEMMA PollRecordingShape ==
    ASSUME Shape, PollRecording
    PROVE  Shape'
<1> USE ShapeParts
<1>0. ASSUME NEW r, NEW e, NEW v \in VideoSlots \union {None}, Accounted(r, e),
             StepFails(r, e, v)
      PROVE  Shape'
  <2>1. /\ Accounted(recording', encoder') /\ recording' # None
        /\ recording'.stopping /\ recording'.stopSent /\ at' = "shots"
    BY <1>0, FailedSession
  <2>2. video' \in VideoSlots \union {None}
    BY <1>0 DEF StepFails, AfterEnd
  <2>3. SessionInv'
    BY <2>1 DEF SessionInv
  <2> QED BY <1>0, <2>1, <2>2, <2>3, TypePartsNext
          DEF StepFails, Shape, SessionOK, SlotsOK, QueueOK, StepsOK
<1>1. CASE PollInactive
  BY <1>1, TypePartsNext
     DEF PollInactive, renderer, Shape, SessionInv, SlotsOK, QueueOK, StepsOK
<1>2. CASE Poll
  <2>1. /\ Accounted(Noticed, encoder) /\ Noticed.stopSent = recording.stopSent
        /\ Noticed.stopSent => Noticed.stopping
    BY <1>2, NoticedSession DEF Poll, SessionInv
  <2>2. CASE Noticed.failed
    <3>1. Settles(Noticed, encoder)
      BY <1>2, <2>2 DEF Poll
    <3>2. /\ SessionOK(recording', encoder') /\ at' = "shots"
          /\ recording' = None \/ recording' = Noticed
      BY <2>1, <3>1, SettledSession
    <3>3. SessionInv'
      BY <1>2, <2>1, <3>2 DEF SessionInv, Poll, renderer
    <3> QED BY <1>2, <3>2, <3>3, TypePartsNext
            DEF Poll, renderer, Shape, SlotsOK, QueueOK, StepsOK
  <2>3. CASE ~Noticed.failed
    <3>1. /\ recording' = IF Detaches THEN [Noticed EXCEPT !.attached = FALSE] ELSE Noticed
          /\ encoder' = encoder /\ at' = "collect"
      BY <1>2, <2>3 DEF Poll
    <3>2. Noticed \in Recordings
      BY <2>1 DEF Accounted
    <3>3. /\ recording' \in Recordings /\ recording'.buffer = Noticed.buffer
          /\ recording'.stopSent = Noticed.stopSent /\ recording'.stopping = Noticed.stopping
      BY <3>1, <3>2 DEF Recordings
    <3>4. Accounted(recording', encoder') /\ recording' # None
      BY <2>1, <3>1, <3>3, NoneAssumption DEF Accounted
    <3>5. SessionInv'
      BY <1>2, <2>1, <3>1, <3>3, <3>4 DEF SessionInv, Poll, renderer
    <3> QED BY <1>2, <3>1, <3>4, <3>5, TypePartsNext
            DEF Poll, renderer, Shape, SessionOK, SlotsOK, QueueOK, StepsOK
  <2> QED BY <2>2, <2>3
<1>3. CASE DetachFails
  <2>1. Accounted(Noticed, encoder)
    BY <1>3, NoticedSession DEF DetachFails, SessionInv
  <2>2. StepFails(Noticed, encoder, video) /\ video \in VideoSlots \union {None}
    BY <1>3 DEF DetachFails, SlotsOK
  <2> QED BY <1>0, <2>1, <2>2
<1>4. ASSUME at = "collect"
      PROVE  /\ Accounted(WithBuffer, Taken) /\ Taken.input = encoder.input
             /\ WithBuffer.stopping = recording.stopping
             /\ WithBuffer.stopSent = recording.stopSent
             /\ Collects => Collected \in VideoSlots
  <2>1. recording # None
    BY <1>4 DEF SessionInv
  <2>2. ASSUME Collects
        PROVE  Collected \in VideoSlots
    BY <2>2 DEF Collects, Collected, SlotsOK, VideoSlots, Pictures
  <2> QED BY <2>1, <2>2, BufferTaken
<1>5. CASE CollectNothing
  <2>1. /\ recording' = WithBuffer /\ encoder' = Taken /\ at' = NextStep
        /\ video' = IF Collects THEN Collected ELSE video
    BY <1>5 DEF CollectNothing
  <2>2. at = "collect"
    BY <1>5 DEF CollectNothing
  <2>3. video' \in VideoSlots \union {None} /\ (video # None => video' # None)
    BY <1>4, <2>1, <2>2, NoneAssumption DEF SlotsOK
  <2>4. recording # None /\ recording' # None
    BY <1>4, <2>1, <2>2, NoneAssumption DEF SessionInv, Accounted
  <2>5. SessionInv'
    BY <1>4, <2>1, <2>2, <2>3, <2>4 DEF SessionInv, NextStep
  <2>6. StepsOK'
    BY <1>5, <2>1 DEF CollectNothing, StepsOK, NextStep
  <2> QED BY <1>4, <1>5, <2>1, <2>2, <2>3, <2>5, <2>6, TypePartsNext
          DEF CollectNothing, Shape, SessionOK, SlotsOK, QueueOK
<1>6. CASE CollectFrame
  <2> DEFINE accepted == /\ Taken.open /\ Taken.worker # "done"
                         /\ Len(Taken.input) < Buffers - 1
  <2>1. /\ recording' = [recording EXCEPT !.buffer = IF accepted THEN None ELSE video.image]
        /\ encoder' = IF accepted THEN [Taken EXCEPT !.input = Append(@, video.image)] ELSE Taken
        /\ video' = Collected /\ at' = NextStep /\ at = "collect" /\ Collects
    BY <1>6 DEF CollectFrame
  <2>2. recording \in Recordings /\ video.image \in Pictures /\ recording # None
    BY <2>1 DEF SessionInv, Accounted, Collects, SlotsOK, VideoSlots
  <2>3. /\ recording' \in Recordings
        /\ recording'.buffer = IF accepted THEN None ELSE video.image
        /\ recording'.stopping = recording.stopping /\ recording'.stopSent = recording.stopSent
    BY <2>1, <2>2 DEF Recordings
  <2>4. Accounted(WithBuffer, Taken) /\ Collected \in VideoSlots
    BY <1>4, <2>1
  <2>5. Taken \in Encoders /\ WithBuffer.buffer # None
    BY <2>1, <2>4 DEF Accounted, Collects
  <2>6. ASSUME accepted
        PROVE  Accounted(recording', encoder')
    <3> DEFINE busy == IF Taken.worker = "encoding" THEN 1 ELSE 0
               held == Taken.recycled
               queued == Len(Taken.input)
    <3>1. /\ Len(Append(Taken.input, video.image)) = Len(Taken.input) + 1
          /\ Append(Taken.input, video.image) \in Seq(Pictures) /\ Len(Taken.input) \in Nat
      BY <2>2, <2>5, AppendProperties, LenProperties DEF Encoders
    <3>2. /\ encoder' \in Encoders /\ encoder'.input = Append(Taken.input, video.image)
          /\ encoder'.recycled = Taken.recycled /\ encoder'.worker = Taken.worker
      BY <2>1, <2>5, <2>6, <3>1 DEF Encoders
    <3>3. Taken.recycled \in Nat /\ Buffers \in Nat
      BY <2>5, CaptureAssumption DEF Encoders
    <3>4. held \in Nat /\ queued \in Nat /\ busy \in Nat /\ held + 1 + queued + busy = Buffers
          /\ queued < Buffers - 1
      BY <2>4, <2>5, <2>6, <3>1, <3>3 DEF Accounted
    <3>5. held + 0 + (queued + 1) + busy = Buffers /\ queued + 1 <= Buffers - 1
      <4> HIDE DEF held, queued, busy
      <4> QED BY <3>3, <3>4
    <3>6. /\ encoder'.recycled = held /\ Len(encoder'.input) = queued + 1
          /\ recording'.buffer = None
          /\ (IF encoder'.worker = "encoding" THEN 1 ELSE 0) = busy
      BY <2>3, <2>6, <3>1, <3>2
    <3> HIDE DEF accepted, held, queued, busy
    <3> QED BY <2>3, <3>2, <3>5, <3>6 DEF Accounted
  <2>7. ASSUME ~accepted
        PROVE  Accounted(recording', encoder')
    <3>1. recording'.buffer = video.image /\ video.image # None /\ encoder' = Taken
      BY <2>1, <2>2, <2>3, <2>7, NoneAssumption
    <3> QED BY <2>3, <2>4, <2>5, <3>1 DEF Accounted
  <2>8. Accounted(recording', encoder')
    BY <2>6, <2>7
  <2>9. recording' # None /\ video' # None
    BY <2>1, <2>3, <2>4, NoneAssumption
  <2>10. SessionInv'
    BY <2>1, <2>2, <2>3, <2>9 DEF SessionInv, NextStep
  <2>11. StepsOK'
    BY <1>6, <2>1 DEF CollectFrame, StepsOK, NextStep
  <2> QED BY <1>6, <2>1, <2>4, <2>8, <2>10, <2>11, TypePartsNext
          DEF CollectFrame, Shape, SessionOK, SlotsOK, QueueOK
<1>7. CASE CollectFails
  BY <1>0, <1>4, <1>7 DEF CollectFails
<1>8. CASE EndVideo
  <2>1. at = "end" /\ recording # None /\ recording.stopping /\ Accounted(recording, encoder)
    BY <1>8 DEF EndVideo, SessionInv
  <2>2. video' = AfterEnd(video) /\ video' \in VideoSlots \union {None}
    BY <1>8 DEF EndVideo, AfterEnd, SlotsOK
  <2>3. CASE EndsVideo(video)
    <3>1. Settles([recording EXCEPT !.stopSent = TRUE], Stopped(encoder))
      BY <1>8, <2>3 DEF EndVideo
    <3>2. /\ Accounted([recording EXCEPT !.stopSent = TRUE], Stopped(encoder))
          /\ [recording EXCEPT !.stopSent = TRUE].stopping = recording.stopping
      BY <2>1, EndedSession
    <3>3. /\ SessionOK(recording', encoder') /\ at' = "shots"
          /\ recording' = None \/ recording' = [recording EXCEPT !.stopSent = TRUE]
      BY <3>1, <3>2, SettledSession
    <3>4. [recording EXCEPT !.stopSent = TRUE].stopSent
      BY <2>1 DEF Accounted, Recordings
    <3>5. SessionInv'
      BY <2>1, <3>2, <3>3, <3>4 DEF SessionInv
    <3> QED BY <1>8, <2>2, <3>3, <3>5, TypePartsNext
            DEF EndVideo, Shape, SlotsOK, QueueOK, StepsOK
  <2>4. CASE ~EndsVideo(video)
    <3>1. Settles(recording, encoder) /\ video' = video
      BY <1>8, <2>2, <2>4 DEF EndVideo, AfterEnd
    <3>2. /\ SessionOK(recording', encoder') /\ at' = "shots"
          /\ recording' = None \/ recording' = recording
      BY <2>1, <3>1, SettledSession
    <3>3. SessionInv'
      BY <3>1, <3>2 DEF SessionInv
    <3> QED BY <1>8, <2>2, <3>2, <3>3, TypePartsNext
            DEF EndVideo, Shape, SlotsOK, QueueOK, StepsOK
  <2> QED BY <2>3, <2>4
<1>9. CASE SkipSample
  <2>1. at = "sample" /\ recording # None /\ Accounted(recording, encoder)
    BY <1>9 DEF SkipSample, SessionInv
  <2>2. Settles(recording, encoder)
    BY <1>9 DEF SkipSample
  <2>3. /\ SessionOK(recording', encoder') /\ at' = "shots"
        /\ recording' = None \/ recording' = recording
    BY <2>1, <2>2, SettledSession
  <2>4. SessionInv'
    BY <1>9, <2>3 DEF SkipSample, renderer, SessionInv
  <2> QED BY <1>9, <2>3, <2>4, TypePartsNext
          DEF SkipSample, renderer, Shape, SlotsOK, QueueOK, StepsOK
<1>10. ASSUME at = "sample"
       PROVE  /\ recording # None /\ video # None /\ ~recording.stopping
              /\ Accounted(WithBuffer, Taken)
              /\ WithBuffer.stopping = recording.stopping
              /\ WithBuffer.stopSent = recording.stopSent
  <2>1. recording # None /\ video # None /\ ~recording.stopping
    BY <1>10 DEF SessionInv
  <2> QED BY <2>1, BufferTaken
<1>11. CASE Sample
  <2>1. at = "sample" /\ Settles(WithBuffer, Taken)
    BY <1>11 DEF Sample
  <2>2. /\ SessionOK(recording', encoder') /\ at' = "shots"
        /\ recording' = None \/ recording' = WithBuffer
    BY <1>10, <2>1, SettledSession
  <2>3. Fitted(video, extent) \in VideoSlots
    BY <1>10, <2>1, SlotTypes DEF SlotsOK, QueueOK
  <2>4. [Fitted(video, extent) EXCEPT !.requested = TRUE] \in VideoSlots
    BY <2>3 DEF VideoSlots
  <2>5. video' \in VideoSlots
    BY <1>10, <1>11, <2>1, <2>4 DEF Sample, SlotsOK
  <2>6. video' # None
    BY <2>5, NoneAssumption
  <2>7. SessionInv'
    BY <1>10, <2>1, <2>2, <2>6 DEF SessionInv
  <2> QED BY <1>11, <2>2, <2>5, <2>7, TypePartsNext
          DEF Sample, Shape, SlotsOK, QueueOK, StepsOK
<1>12. CASE SampleFails
  <2>1. StepFails(WithBuffer, Taken, video) /\ at = "sample" /\ video \in VideoSlots \union {None}
    BY <1>12 DEF SampleFails, SlotsOK
  <2> QED BY <1>0, <1>10, <2>1
<1> QED BY <1>1, <1>2, <1>3, <1>5, <1>6, <1>7, <1>8, <1>9, <1>11, <1>12 DEF PollRecording

LEMMA PollScreenshotsShape ==
    ASSUME Shape, PollScreenshots
    PROVE  Shape'
<1> USE ShapeParts
<1>0. gpu \in Seq(Work) /\ TypeOK
  BY DEF QueueOK, Shape
<1>1. CASE ShotWritten
  BY <1>1, TypePartsNext DEF ShotWritten, renderer, Shape, SessionInv, SlotsOK, QueueOK, StepsOK
<1>2. CASE ShotWaits
  BY <1>2, TypePartsNext DEF ShotWaits, renderer, Shape, SessionInv, SlotsOK, QueueOK, StepsOK
<1>3. ASSUME NEW ok \in BOOLEAN, TakeFrame(ok)
      PROVE  Shape'
  <2>1. video' \in VideoSlots \union {None} /\ (video' = None <=> video = None)
        /\ gpu' \in Seq(Work)
    BY <1>0, <1>3, AfterWaitTypes DEF TakeFrame
  <2>2. shots' \in [pending: BOOLEAN, capturing: BOOLEAN, writing: {"none", "running", "done"}]
    BY <1>3 DEF TakeFrame, StepsOK
  <2>3. SessionInv'
    BY <1>3, <2>1 DEF TakeFrame, SessionInv
  <2> QED BY <1>3, <2>1, <2>2, <2>3, TypePartsNext
          DEF TakeFrame, Shape, SlotsOK, QueueOK, StepsOK
<1>4. ASSUME NEW ok \in BOOLEAN, RequestShot(ok)
      PROVE  Shape'
  <2>1. still' \in StillSlots \union {None}
    BY <1>4, SlotTypes DEF RequestShot, SlotsOK, QueueOK
  <2>2. (ok /\ still = None) \in BOOLEAN
    OBVIOUS
  <2>3. shots' \in [pending: BOOLEAN, capturing: BOOLEAN, writing: {"none", "running", "done"}]
    BY <1>4, <2>2 DEF RequestShot, StepsOK
  <2>4. SessionInv'
    BY <1>4 DEF RequestShot, SessionInv
  <2> QED BY <1>4, <2>1, <2>3, <2>4, TypePartsNext
          DEF RequestShot, Shape, SlotsOK, QueueOK, StepsOK
<1> QED BY <1>1, <1>2, <1>3, <1>4 DEF PollScreenshots

\* The frame a submission records, whatever is selected.
LEMMA SelectedFrame ==
    ASSUME NEW s, NEW v, NEW size \in Extents
    PROVE  /\ Selected(s, v) \in Selection /\ FrameWork(Selected(s, v), size) \in Work
           /\ Selected(s, v) = "video" => ~Wanted(s) /\ Pending(v)
           /\ Selected(s, v) = "still" => Wanted(s)
<1>1. Selected(s, v) \in Selection
  BY DEF Selected, Selection
<1>2. /\ Selected(s, v) = "video" => ~Wanted(s) /\ Pending(v)
      /\ Selected(s, v) = "still" => Wanted(s)
  BY DEF Selected
<1> QED BY <1>1, <1>2, FrameTypes

\* The queue once the first attempt of a frame has failed.
LEMMA AttemptedQueue ==
    ASSUME NEW q \in Seq(Work), NEW late \in BOOLEAN, extent \in Extents
    PROVE  /\ q \o Attempted(late) \in Seq(Work)
           /\ late => q \o Attempted(late) = Append(q, FrameWork(Selected(still, video), extent))
           /\ ~late => q \o Attempted(late) = q
<1>1. FrameWork(Selected(still, video), extent) \in Work
  BY SelectedFrame
<1>2. CASE late
  BY <1>1, <1>2, QueuedWork DEF Attempted
<1>3. CASE ~late
  BY <1>1, <1>3, QueuedWork DEF Attempted
<1> QED BY <1>2, <1>3

\* What a rebuilt swapchain finds: the slots it refits and the work behind it.
LEMMA RebuiltSlots ==
    ASSUME Shape, NEW late \in BOOLEAN
    PROVE  LET size == Resized(extent)
               queue == gpu \o Attempted(late)
               v == Fitted(VideoAfterWait(video, queue), size)
               s == IF Wanted(still) THEN NewStill(size) ELSE still
           IN  /\ size \in Extents /\ queue \in Seq(Work) /\ QueueAfterWait(queue) \in Seq(Work)
               /\ v \in VideoSlots \union {None} /\ (v = None <=> video = None)
               /\ s \in StillSlots \union {None}
<1> DEFINE size == Resized(extent)
           queue == gpu \o Attempted(late)
           waited == VideoAfterWait(video, queue)
<1>1. extent \in Extents /\ gpu \in Seq(Work) /\ TypeOK /\ still \in StillSlots \union {None}
      /\ video \in VideoSlots \union {None}
  BY DEF Shape, TypeOK
<1>2. size \in Extents /\ NewStill(size) \in StillSlots
  BY <1>1, SlotTypes
<1>3. queue \in Seq(Work)
  BY <1>1, AttemptedQueue
<1>4. waited \in VideoSlots \union {None} /\ (waited = None <=> video = None)
      /\ QueueAfterWait(queue) \in Seq(Work)
  BY <1>1, <1>3, AfterWaitTypes
<1> HIDE DEF size, queue, waited
<1>5. Fitted(waited, size) \in VideoSlots \union {None}
      /\ (Fitted(waited, size) = None <=> waited = None)
  BY <1>2, <1>4, SlotTypes
<1>6. (IF Wanted(still) THEN NewStill(size) ELSE still) \in StillSlots \union {None}
  BY <1>1, <1>2
<1> QED BY <1>2, <1>3, <1>4, <1>5, <1>6 DEF size, queue, waited

LEMMA PresentFrameShape ==
    ASSUME Shape, PresentFrame
    PROVE  Shape'
<1> USE ShapeParts
<1>0. gpu \in Seq(Work) /\ extent \in Extents /\ still \in StillSlots \union {None}
      /\ video \in VideoSlots \union {None}
  BY DEF QueueOK, SlotsOK
<1>1. CASE SkipPresent
  BY <1>1, TypePartsNext DEF SkipPresent, renderer, Shape, SessionInv, SlotsOK, QueueOK, StepsOK
<1>2. CASE Present
  <2>1. SlotsOK' /\ (video' = None <=> video = None)
    <3>1. Submitted(still, video, TRUE)
      BY <1>2 DEF Present
    <3> QED BY <1>0, <3>1, SubmittedSlots
  <2>2. gpu' \in Seq(Work)
    BY <1>0, <1>2, SelectedFrame, QueuedWork DEF Present
  <2>3. SessionInv'
    BY <1>2, <2>1 DEF Present, SessionInv
  <2> QED BY <1>2, <2>1, <2>2, <2>3, TypePartsNext DEF Present, Shape, QueueOK, StepsOK
<1>3. ASSUME NEW late \in BOOLEAN, PresentStale(late)
      PROVE  Shape'
  <2> DEFINE size == Resized(extent)
             queue == gpu \o Attempted(late)
             v == Fitted(VideoAfterWait(video, queue), size)
             s == IF Wanted(still) THEN NewStill(size) ELSE still
  <2>1. /\ Submitted(s, v, TRUE) /\ extent' = size
        /\ gpu' = Queued(s, v, QueueAfterWait(queue), <<FrameWork(Selected(s, v), size)>>)
    BY <1>3 DEF PresentStale
  <2>2. /\ size \in Extents /\ QueueAfterWait(queue) \in Seq(Work)
        /\ v \in VideoSlots \union {None} /\ (v = None <=> video = None)
        /\ s \in StillSlots \union {None}
    BY RebuiltSlots
  <2> HIDE DEF size, queue, v, s
  <2>3. SlotsOK' /\ (video' = None <=> video = None)
    BY <2>1, <2>2, SubmittedSlots
  <2>4. gpu' \in Seq(Work)
    BY <2>1, <2>2, SelectedFrame, QueuedWork
  <2>5. SessionInv'
    BY <1>3, <2>3 DEF PresentStale, SessionInv
  <2> QED BY <1>3, <2>1, <2>2, <2>3, <2>4, <2>5, TypePartsNext
          DEF PresentStale, Shape, QueueOK, StepsOK
<1>4. ASSUME NEW late \in BOOLEAN, PresentFails(late)
      PROVE  Shape'
  <2>1. SlotsOK' /\ (video' = None <=> video = None)
    <3>1. Submitted(still, video, FALSE)
      BY <1>4 DEF PresentFails
    <3> QED BY <1>0, <3>1, SubmittedSlots
  <2>2. gpu' \in Seq(Work)
    BY <1>0, <1>4, SelectedFrame, QueuedWork DEF PresentFails, Attempted
  <2>3. SessionInv'
    BY <1>4, <2>1 DEF PresentFails, SessionInv
  <2> QED BY <1>4, <2>1, <2>2, <2>3, TypePartsNext DEF PresentFails, Shape, QueueOK, StepsOK
<1> QED BY <1>1, <1>2, <1>3, <1>4 DEF PresentFrame

\* The worker's steps move a pixel buffer or let go of it with the worker's end.
LEMMA WorkerSteps ==
    ASSUME Shape, Encode \/ ChangeFormat
    PROVE  /\ Accounted(recording, encoder) /\ Accounted(recording, encoder')
           /\ \/ encoder'.input = encoder.input \/ encoder'.input = <<>>
              \/ encoder.input # <<>> /\ encoder'.input = Tail(encoder.input)
           /\ UNCHANGED <<at, recording, shots, renderer>>
<1> DEFINE n == encoder.recycled
           k == Len(encoder.input)
           held == IF recording.buffer = None THEN 0 ELSE 1
<1>0. UNCHANGED <<at, recording, shots, renderer>> /\ encoder # None
  BY DEF Encode, OpenFiles, EncodeImage, ReceiveImage, EndEncoding, ChangeFormat, EncoderStep
<1>1. Accounted(recording, encoder) /\ encoder \in Encoders /\ recording \in Recordings
  BY <1>0, ShapeParts, NoneAssumption DEF SessionOK, Accounted
<1>2. /\ n \in Nat /\ k \in Nat /\ held \in Nat /\ Buffers \in Nat /\ encoder.input \in Seq(Pictures)
      /\ encoder.worker # "done" =>
           n + held + k + (IF encoder.worker = "encoding" THEN 1 ELSE 0) = Buffers
      /\ encoder.worker # "done" => k <= Buffers - 1
  BY <1>1, CaptureAssumption DEF Accounted, Encoders
<1>3. ASSUME NEW r, r \in Encoders,
      r.worker # "done" =>
           /\ r.recycled + held + Len(r.input) + (IF r.worker = "encoding" THEN 1 ELSE 0) = Buffers
           /\ Len(r.input) <= Buffers - 1
      PROVE  Accounted(recording, r)
  BY <1>1, <1>3 DEF Accounted
<1>4. ASSUME NEW e \in Encoders
      PROVE  /\ Done(e) \in Encoders /\ Done(e).worker = "done" /\ Done(e).input = <<>>
             /\ Accounted(recording, Done(e))
  <2>0. <<>> \in Seq(Pictures)
    BY EmptySeq
  <2>1. /\ Done(e) \in Encoders /\ Done(e).worker = "done" /\ Done(e).input = <<>>
    BY <2>0 DEF Done, Encoders
  <2> QED BY <1>1, <2>1 DEF Accounted
<1>5. ASSUME NEW opens \in BOOLEAN, OpenFiles(opens)
      PROVE  Accounted(recording, encoder')
             /\ (encoder'.input = encoder.input \/ encoder'.input = <<>>)
  <2>1. CASE opens
    <3>1. /\ encoder' \in Encoders /\ encoder'.recycled = n /\ encoder'.input = encoder.input
          /\ encoder'.worker = "ready"
      BY <1>1, <1>5, <2>1 DEF OpenFiles, Encoders
    <3>2. encoder.worker = "opening"
      BY <1>5 DEF OpenFiles
    <3> QED BY <1>2, <1>3, <3>1, <3>2
  <2>2. CASE ~opens
    <3>1. encoder' = Done(encoder)
      BY <1>5, <2>2 DEF OpenFiles
    <3> QED BY <1>1, <1>4, <3>1
  <2> QED BY <2>1, <2>2
<1>6. ASSUME ReceiveImage
      PROVE  Accounted(recording, encoder') /\ encoder.input # <<>>
             /\ encoder'.input = Tail(encoder.input)
  <2>1. encoder.input # <<>> /\ encoder.worker = "ready"
        /\ encoder' = [encoder EXCEPT !.worker = "encoding", !.input = Tail(@)]
    BY <1>6 DEF ReceiveImage
  <2>2. Tail(encoder.input) \in Seq(Pictures) /\ Len(Tail(encoder.input)) = k - 1 /\ k # 0
    BY <1>2, <2>1, HeadTailProperties, EmptySeq
  <2>3. /\ encoder' \in Encoders /\ encoder'.recycled = n /\ Len(encoder'.input) = k - 1
        /\ encoder'.worker = "encoding" /\ encoder'.input = Tail(encoder.input)
    BY <1>1, <2>1, <2>2 DEF Encoders
  <2>4. n + held + (k - 1) + 1 = Buffers /\ k - 1 <= Buffers - 1
    <3>1. n + held + k = Buffers /\ k <= Buffers - 1
      BY <1>2, <2>1
    <3> HIDE DEF n, k, held
    <3> QED BY <1>2, <3>1
  <2> HIDE DEF n, k, held
  <2>5. Accounted(recording, encoder')
    BY <1>3, <2>3, <2>4
  <2> QED BY <2>1, <2>3, <2>5
<1>7. ASSUME NEW encodes \in BOOLEAN, EncodeImage(encodes)
      PROVE  Accounted(recording, encoder')
             /\ (encoder'.input = encoder.input \/ encoder'.input = <<>>)
  <2> DEFINE returned == [encoder EXCEPT !.recycled = @ + 1, !.worker = "ready"]
  <2>1. /\ returned \in Encoders /\ returned.recycled = n + 1 /\ returned.input = encoder.input
        /\ returned.worker = "ready"
    <3>1. n \in Nat /\ n + 1 \in Nat
      BY <1>1 DEF Encoders
    <3> QED BY <1>1, <3>1 DEF Encoders
  <2>2. encoder.worker = "encoding" /\ encoder' = IF encodes THEN returned ELSE Done(returned)
    BY <1>7 DEF EncodeImage
  <2>3. CASE encodes
    <3>1. (n + 1) + held + k + 0 = Buffers /\ k <= Buffers - 1
      <4> HIDE DEF n, k, held
      <4> QED BY <1>2, <2>2
    <3> HIDE DEF returned, n, held
    <3>2. Accounted(recording, returned)
      BY <1>3, <2>1, <3>1
    <3> QED BY <2>1, <2>2, <2>3, <3>2
  <2>4. CASE ~encodes
    <3> HIDE DEF returned
    <3> QED BY <1>4, <2>1, <2>2, <2>4
  <2> QED BY <2>3, <2>4
<1>8. ASSUME EndEncoding \/ ChangeFormat
      PROVE  Accounted(recording, encoder') /\ encoder'.input = <<>>
  BY <1>1, <1>4, <1>8 DEF EndEncoding, ChangeFormat
<1> QED BY <1>0, <1>1, <1>5, <1>6, <1>7, <1>8 DEF Encode

LEMMA NextShape ==
    ASSUME Shape, [Next]_vars
    PROVE  Shape'
<1> USE ShapeParts
<1>0. gpu \in Seq(Work) /\ TypeOK
  BY DEF QueueOK, Shape
<1>1. CASE Keys
  BY <1>1, KeysShape
<1>2. CASE PollRecording
  BY <1>2, PollRecordingShape
<1>3. CASE PollScreenshots
  BY <1>3, PollScreenshotsShape
<1>4. CASE PresentFrame
  BY <1>4, PresentFrameShape
<1>5. CASE FinishRecording
  <2>1. Accounted(recording, encoder) /\ recording # None
    BY <1>5 DEF FinishRecording
  <2>2. /\ recording' \in Recordings /\ recording'.buffer = recording.buffer
        /\ recording'.stopping = recording.stopping /\ recording'.stopSent = recording.stopSent
    BY <1>5, <2>1 DEF FinishRecording, Accounted, Recordings
  <2>3. /\ encoder' \in Encoders /\ encoder'.recycled = encoder.recycled
        /\ encoder'.input = encoder.input /\ encoder'.worker = encoder.worker
    BY <1>5, <2>1 DEF FinishRecording, Stopped, Accounted, Encoders
  <2>4. Accounted(recording', encoder')
    BY <2>1, <2>2, <2>3 DEF Accounted
  <2>5. SessionInv'
    BY <1>5, <2>1, <2>2 DEF FinishRecording, renderer, SessionInv
  <2> QED BY <1>5, <2>4, <2>5, TypePartsNext
          DEF FinishRecording, renderer, Shape, SessionOK, SlotsOK, QueueOK, StepsOK
<1>6. CASE Close
  <2>1. gpu' \in Seq(Work)
    BY <1>0, <1>6, AfterWaitTypes DEF Close
  <2> QED BY <1>6, <2>1, TypePartsNext
          DEF Close, Shape, SessionInv, SessionOK, SlotsOK, QueueOK, StepsOK
<1>7. CASE Execute
  <2>1. Head(gpu) \in Work /\ Tail(gpu) \in Seq(Work)
    BY <1>0, <1>7, HeadTailProperties DEF Execute
  <2>2. video' \in VideoSlots \union {None} /\ (video' = None <=> video = None)
    BY <1>0, <1>7, <2>1, ExecutionTypes DEF Execute, SlotsOK
  <2>3. SessionInv'
    BY <1>7, <2>2 DEF Execute, SessionInv
  <2> QED BY <1>7, <2>1, <2>2, <2>3, TypePartsNext
          DEF Execute, Shape, SlotsOK, QueueOK, StepsOK
<1>8. CASE Encode \/ ChangeFormat
  <2>1. Accounted(recording, encoder') /\ UNCHANGED <<at, recording, shots, renderer>>
    BY <1>8, WorkerSteps
  <2>2. SessionInv'
    BY <2>1 DEF SessionInv, renderer
  <2> QED BY <2>1, <2>2, TypePartsNext
          DEF renderer, Shape, SessionOK, SlotsOK, QueueOK, StepsOK
<1>9. CASE WriteShot
  <2>1. StepsOK'
    BY <1>9 DEF WriteShot, StepsOK
  <2> QED BY <1>9, <2>1, TypePartsNext
          DEF WriteShot, renderer, Shape, SessionInv, SlotsOK, QueueOK
<1>10. CASE Closed \/ UNCHANGED vars
  BY <1>10, TypePartsNext
     DEF Closed, vars, renderer, Shape, SessionInv, SlotsOK, QueueOK, StepsOK
<1> QED BY <1>1, <1>2, <1>3, <1>4, <1>5, <1>6, <1>7, <1>8, <1>9, <1>10 DEF Next, Main

LEMMA InitShape == Init => Shape
<1>1. Init => TypeOK
  <2> SUFFICES ASSUME Init PROVE TypeOK
    OBVIOUS
  <2>1. SessionOK(recording, encoder) /\ SlotsOK
    BY DEF Init, SessionOK, SlotsOK
  <2>2. <<>> \in Seq(Work)
    BY EmptySeq
  <2>3. QueueOK
    BY <2>2 DEF Init, QueueOK, Extents
  <2>4. StepsOK
    BY DEF Init, StepsOK
  <2> QED BY <2>1, <2>3, <2>4, TypeParts
<1>2. Init => SessionInv
  BY DEF Init, SessionInv
<1> QED BY <1>1, <1>2 DEF Shape
-----------------------------------------------------------------------------
(* The queue holds the copy that is under way, and the fence behind it.    *)

\* The fence may be submitted at any moment unless one is in the queue already.
LEMMA ComingFence ==
    ASSUME NEW q \in Seq(Work), NEW coming \in BOOLEAN, Sound(q, FALSE), coming => ~HasFence(q)
    PROVE  Sound(q, coming)
BY DEF Sound

LEMMA EmptyQueue ==
    ASSUME NEW v, NEW coming \in BOOLEAN
    PROVE  Sound(<<>>, coming) /\ ~HasFence(<<>>) /\ ~HasCopy(<<>>)
BY DEF Sound, HasFence, HasCopy

\* A slot whose copy is not under way finds neither fence nor copy in the queue.
LEMMA NothingQueued ==
    ASSUME QueueInv, at # "closed", ~InFlight(video)
    PROVE  ~HasFence(gpu) /\ ~HasCopy(gpu)
BY DEF QueueInv, Sound, HasFence, HasCopy

\* A slot that is let go of, collected or asked again keeps the queue's promises.
LEMMA QueueKept ==
    ASSUME QueueInv, at # "closed", gpu' = gpu,
           \/ video' = video
           \/ video # None /\ InFlight(video) /\ video' # None
              /\ video'.submitted = video.submitted /\ video'.signaled = video.signaled
              /\ video'.presented = video.presented /\ video'.image = video.image
           \/ ~InFlight(video) /\ (video' = None \/ video'.submitted = FALSE)
    PROVE  QueueInv'
<1>1. CASE video' = video
  BY <1>1 DEF QueueInv, Promised, InFlight
<1>2. CASE video # None /\ InFlight(video) /\ video' # None
              /\ video'.submitted = video.submitted /\ video'.signaled = video.signaled
              /\ video'.presented = video.presented /\ video'.image = video.image
  BY <1>2 DEF QueueInv, Promised, InFlight
<1>3. CASE ~InFlight(video) /\ (video' = None \/ video'.submitted = FALSE)
  BY <1>3, NothingQueued DEF QueueInv, Promised
<1> QED BY <1>1, <1>2, <1>3

\* The frame of these very slots behind the queue.
LEMMA QueuedFrame ==
    ASSUME NEW s, NEW v, NEW q \in Seq(Work), NEW size \in Extents
    PROVE  LET x == FrameWork(Selected(s, v), size)
               r == Append(q, x)
           IN  /\ x \in Work /\ x.work = "frame" /\ x.copy = Selected(s, v) /\ r \in Seq(Work)
               /\ Queued(s, v, q, <<x>>) = IF Fenced(s, v) THEN Append(r, Fence) ELSE r
<1> DEFINE x == FrameWork(Selected(s, v), size)
           r == Append(q, x)
<1>1. Selected(s, v) \in Selection
  BY SelectedFrame
<1>2. x \in Work /\ x.work = "frame" /\ x.copy = Selected(s, v)
  BY <1>1, FrameTypes
<1> HIDE DEF x
<1>3. r \in Seq(Work) /\ Queued(s, v, q, <<x>>) = IF Fenced(s, v) THEN Append(r, Fence) ELSE r
  BY <1>2, QueuedWork
<1> QED BY <1>2, <1>3 DEF x

\* A frame behind the queue, and its fence.
LEMMA SubmittedQueue ==
    ASSUME NEW s \in StillSlots \union {None}, NEW v \in VideoSlots \union {None},
           NEW q \in Seq(Work), NEW size \in Extents,
           Sound(q, Fenced(s, v)), HasFence(q) => InFlight(v), Promised(v, q),
           Submitted(s, v, TRUE), gpu' = Queued(s, v, q, <<FrameWork(Selected(s, v), size)>>)
    PROVE  QueueInv'
<1> DEFINE x == FrameWork(Selected(s, v), size)
           r == Append(q, x)
<1>1. /\ x \in Work /\ x.work = "frame" /\ x.copy = Selected(s, v) /\ r \in Seq(Work)
      /\ gpu' = IF Fenced(s, v) THEN Append(r, Fence) ELSE r
  <2>1. gpu' = Queued(s, v, q, <<x>>)
    OBVIOUS
  <2>2. /\ x \in Work /\ x.work = "frame" /\ x.copy = Selected(s, v) /\ r \in Seq(Work)
        /\ Queued(s, v, q, <<x>>) = IF Fenced(s, v) THEN Append(r, Fence) ELSE r
    BY QueuedFrame
  <2> QED BY <2>1, <2>2
<1>2. (x.copy = "video" <=> Fenced(s, v)) /\ Fenced(s, v) \in BOOLEAN
  BY <1>1 DEF Selected, Fenced, Wanted, Pending
<1> HIDE DEF x
<1>3. /\ Sound(r, Fenced(s, v))
      /\ HasFence(r) <=> HasFence(q)
      /\ HasCopy(r) <=> HasCopy(q) \/ x.copy = "video"
  <2>1. x.copy = "video" => Fenced(s, v)
    BY <1>2
  <2> QED BY <1>1, <1>2, <2>1, AppendSound
<1>4. /\ Fenced(s, v) => /\ video'.submitted /\ ~video'.signaled
                         /\ video' # None
      /\ ~Fenced(s, v) => video' = v
  <2>1. /\ video' = None <=> v = None
        /\ Fenced(s, v) => video'.submitted /\ ~video'.signaled
        /\ ~Fenced(s, v) => video' = v
    BY SubmittedSlots
  <2> QED BY <2>1 DEF Fenced, Pending
<1> HIDE DEF r
<1>5. CASE Fenced(s, v)
  <2>1. gpu' = Append(r, Fence) /\ Sound(r, TRUE) /\ r \in Seq(Work)
    BY <1>1, <1>3, <1>5 DEF Sound
  <2>2. Sound(Append(r, Fence), FALSE) /\ (HasCopy(Append(r, Fence)) <=> HasCopy(r))
    BY <2>1, FenceSound
  <2>3. Sound(gpu', FALSE) /\ HasCopy(gpu')
    BY <1>2, <1>3, <1>5, <2>1, <2>2
  <2> QED BY <1>4, <1>5, <2>3 DEF QueueInv, InFlight, Promised
<1>6. CASE ~Fenced(s, v)
  <2>1. gpu' = r /\ video' = v
    BY <1>1, <1>4, <1>6
  <2>2. Sound(r, FALSE)
    BY <1>3, <1>6 DEF Sound
  <2> QED BY <1>3, <2>1, <2>2 DEF QueueInv, Promised
<1> QED BY <1>5, <1>6

\* A wait for the device executes everything.
LEMMA WaitedQueue ==
    ASSUME TypeOK, NEW q \in Seq(Work), Promised(video, q), ~idle
    PROVE  /\ QueueAfterWait(q) = <<>> /\ Promised(VideoAfterWait(video, q), <<>>)
           /\ video # None => VideoAfterWait(video, q).source = video.source
<1>1. QueueAfterWait(q) = <<>> /\ VideoAfterWait(video, q) = ExecutedAll(video, q)
  BY DEF QueueAfterWait, VideoAfterWait
<1>2. CASE video = None
  BY <1>1, <1>2 DEF ExecutedAll, Promised
<1>3. CASE video # None
  <2>1. video \in VideoSlots
    BY <1>3 DEF TypeOK
  <2>2. /\ ExecutedAll(video, q).submitted = video.submitted
        /\ ExecutedAll(video, q).presented = video.presented
        /\ ExecutedAll(video, q).source = video.source
        /\ ExecutedAll(video, q).image = IF HasCopy(q) THEN "fresh" ELSE video.image
    BY <1>3, <2>1 DEF ExecutedAll, VideoSlots, HasCopy
  <2> QED BY <1>1, <1>3, <2>2 DEF Promised
<1> QED BY <1>2, <1>3

\* What a rebuilt swapchain finds in the queue.
LEMMA RebuiltQueue ==
    ASSUME Shape, QueueInv, at # "closed", NEW late \in BOOLEAN
    PROVE  LET size == Resized(extent)
               queue == gpu \o Attempted(late)
               v == Fitted(VideoAfterWait(video, queue), size)
               s == IF Wanted(still) THEN NewStill(size) ELSE still
               q == QueueAfterWait(queue)
           IN  Sound(q, Fenced(s, v)) /\ (HasFence(q) => InFlight(v)) /\ Promised(v, q)
<1> DEFINE size == Resized(extent)
           queue == gpu \o Attempted(late)
           waited == VideoAfterWait(video, queue)
           v == Fitted(waited, size)
           s == IF Wanted(still) THEN NewStill(size) ELSE still
           x == FrameWork(Selected(still, video), extent)
           q == QueueAfterWait(queue)
<1>0. /\ TypeOK /\ gpu \in Seq(Work) /\ extent \in Extents
      /\ video \in VideoSlots \union {None} /\ size \in Extents
  BY SlotTypes DEF Shape, TypeOK
<1>1. queue \in Seq(Work) /\ (late => queue = Append(gpu, x)) /\ (~late => queue = gpu)
  BY <1>0, AttemptedQueue
<1>2. /\ x \in Work /\ x.work = "frame"
      /\ x.copy = "video" => ~Wanted(still) /\ Pending(video)
  <2>1. /\ Selected(still, video) \in Selection /\ x \in Work
        /\ Selected(still, video) = "video" => ~Wanted(still) /\ Pending(video)
    BY <1>0, SelectedFrame
  <2>2. x.work = "frame" /\ x.copy = Selected(still, video)
    BY <1>0, <2>1, FrameTypes
  <2> QED BY <2>1, <2>2
<1>3. /\ waited \in VideoSlots \union {None} /\ (waited = None <=> video = None)
      /\ waited # None => /\ waited.submitted = video.submitted
                          /\ waited.requested = video.requested
  <2>1. waited \in VideoSlots \union {None} /\ (waited = None <=> video = None)
    BY <1>0, <1>1, AfterWaitTypes
  <2>2. video # None => /\ ExecutedAll(video, queue).submitted = video.submitted
                        /\ ExecutedAll(video, queue).requested = video.requested
    BY <1>0 DEF ExecutedAll, VideoSlots
  <2> QED BY <2>1, <2>2 DEF VideoAfterWait
<1> HIDE DEF size, queue, x
<1>4. /\ v # None => v.submitted = waited.submitted /\ v.requested = waited.requested
      /\ v = None <=> waited = None
      /\ waited # None /\ waited.submitted => v = waited
  <2>1. /\ v \in VideoSlots \union {None} /\ (v = None <=> waited = None)
    BY <1>0, <1>3, SlotTypes
  <2>2. v # None => v.submitted = waited.submitted /\ v.requested = waited.requested
    BY <1>3, <2>1 DEF Fitted, VideoSlots
  <2>3. waited # None /\ waited.submitted => v = waited
    BY DEF Fitted
  <2> QED BY <2>1, <2>2, <2>3
<1> HIDE DEF waited, v
<1>5. Fenced(s, v) <=> ~Wanted(still) /\ Pending(video)
  <2>1. Wanted(s) <=> Wanted(still)
    <3>1. NewStill(size) \in StillSlots /\ NewStill(size).captured = FALSE
      BY <1>0 DEF NewStill, StillSlots
    <3>2. NewStill(size) # None
      BY <3>1, NoneAssumption
    <3> QED BY <3>1, <3>2 DEF Wanted
  <2>2. Pending(v) <=> Pending(video)
    BY <1>3, <1>4 DEF Pending
  <2> QED BY <2>1, <2>2 DEF Fenced
<1> HIDE DEF s
<1>6. Pending(video) => ~HasFence(gpu)
  BY DEF Pending, QueueInv, InFlight
<1>7. Promised(video, queue) /\ (HasFence(queue) => HasFence(gpu))
      /\ Sound(queue, Fenced(s, v))
  <2>1. Promised(video, gpu) /\ Sound(gpu, FALSE)
    BY DEF QueueInv
  <2>2. Fenced(s, v) \in BOOLEAN /\ (Fenced(s, v) => ~HasFence(gpu))
    BY <1>5, <1>6 DEF Fenced
  <2>3. Sound(gpu, Fenced(s, v))
    BY <1>0, <2>1, <2>2, ComingFence
  <2>4. CASE ~late
    BY <1>1, <2>1, <2>3, <2>4
  <2>5. CASE late
    <3>1. x.copy = "video" => Fenced(s, v)
      BY <1>2, <1>5
    <3>2. /\ Sound(Append(gpu, x), Fenced(s, v))
          /\ HasFence(Append(gpu, x)) <=> HasFence(gpu)
          /\ HasCopy(Append(gpu, x)) <=> HasCopy(gpu) \/ x.copy = "video"
      BY <1>0, <1>2, <2>2, <2>3, <3>1, AppendSound
    <3>3. queue = Append(gpu, x)
      BY <1>1, <2>5
    <3> QED BY <2>1, <3>2, <3>3 DEF Promised
  <2> QED BY <2>4, <2>5
<1>8. Fenced(s, v) \in BOOLEAN
  BY <1>5 DEF Fenced
<1>9. CASE idle
  <2>1. q = queue /\ waited = video
    BY <1>9 DEF QueueAfterWait, VideoAfterWait, waited
  <2>2. HasFence(queue) => InFlight(video)
    BY <1>7 DEF QueueInv
  <2>3. HasFence(q) => InFlight(v)
    BY <1>4, <2>1, <2>2 DEF InFlight
  <2>4. Promised(v, q)
    BY <1>4, <1>7, <2>1 DEF Promised
  <2> QED BY <1>7, <2>1, <2>3, <2>4 DEF size, queue, waited, v, s
<1>10. CASE ~idle
  <2>1. q = <<>> /\ Promised(waited, <<>>)
    BY <1>0, <1>1, <1>7, <1>10, WaitedQueue DEF waited
  <2>2. Promised(v, <<>>)
    BY <1>4, <2>1 DEF Promised
  <2>3. Sound(<<>>, Fenced(s, v)) /\ ~HasFence(<<>>)
    BY <1>8, EmptyQueue
  <2> QED BY <2>1, <2>2, <2>3 DEF size, queue, waited, v, s
<1> QED BY <1>9, <1>10

LEMMA NextQueue ==
    ASSUME Shape, QueueInv, Next
    PROVE  QueueInv'
<1>0. /\ TypeOK /\ SessionInv /\ gpu \in Seq(Work) /\ extent \in Extents
      /\ video \in VideoSlots \union {None} /\ still \in StillSlots \union {None}
  BY DEF Shape, TypeOK
<1>1. ASSUME at # "closed", gpu' = gpu,
             video' = video \/ video' = AfterEnd(video)
      PROVE  QueueInv'
  <2>1. video' # video => video' = None /\ ~InFlight(video)
    BY <1>1 DEF AfterEnd, EndsVideo, Complete, InFlight
  <2> QED BY <1>1, <2>1, QueueKept
<1>2. ASSUME at # "closed", gpu' = gpu, Collects, video' = Collected \/ video' = AfterEnd(Collected)
      PROVE  QueueInv'
  <2>1. Collected.submitted = FALSE /\ ~InFlight(video)
    BY <1>0, <1>2 DEF Collects, Collected, Complete, InFlight, VideoSlots
  <2>2. video' = None \/ video'.submitted = FALSE
    BY <1>2, <2>1 DEF AfterEnd
  <2> QED BY <1>2, <2>1, <2>2, QueueKept
<1>3. CASE Keys
  <2>1. ASSUME NEW attaches \in BOOLEAN, PressStart(attaches)
        PROVE  QueueInv'
    <3>1. at # "closed" /\ gpu' = gpu /\ ~InFlight(video)
      BY <2>1 DEF PressStart, InFlight
    <3>2. video' = None \/ video'.submitted = FALSE
      BY <2>1 DEF PressStart, NewVideo
    <3> QED BY <3>1, <3>2, QueueKept
  <2>2. PressStop \/ PressScreenshot \/ Quit => at # "closed" /\ gpu' = gpu /\ video' = video
    BY DEF PressStop, PressScreenshot, Quit, renderer
  <2> QED BY <1>1, <1>3, <2>1, <2>2 DEF Keys
<1>4. CASE PollRecording
  <2>1. PollInactive \/ Poll \/ SkipSample => at # "closed" /\ gpu' = gpu /\ video' = video
    BY DEF PollInactive, Poll, SkipSample, renderer
  <2>2. DetachFails \/ EndVideo \/ SampleFails =>
            at # "closed" /\ gpu' = gpu /\ video' = AfterEnd(video)
    BY DEF DetachFails, EndVideo, SampleFails, StepFails
  <2>3. CollectNothing => /\ at # "closed" /\ gpu' = gpu
                          /\ (Collects /\ video' = Collected) \/ video' = video
    BY DEF CollectNothing
  <2>4. CollectFrame \/ CollectFails =>
            /\ at # "closed" /\ gpu' = gpu /\ Collects
            /\ video' = Collected \/ video' = AfterEnd(Collected)
    BY DEF CollectFrame, CollectFails, StepFails
  <2>5. ASSUME Sample
        PROVE  QueueInv'
    <3>1. at # "closed" /\ gpu' = gpu /\ video # None /\ video \in VideoSlots
      BY <1>0, <2>5 DEF Sample, SessionInv
    <3>2. CASE video' = video
      BY <3>1, <3>2, QueueKept
    <3>3. CASE video' # video
      <4>1. video' = [Fitted(video, extent) EXCEPT !.requested = TRUE]
        BY <2>5, <3>3 DEF Sample
      <4>2. Fitted(video, extent) \in VideoSlots
        BY <1>0, <3>1, SlotTypes
      <4>3. video' \in VideoSlots /\ video'.submitted = Fitted(video, extent).submitted
            /\ video'.signaled = Fitted(video, extent).signaled
            /\ video'.presented = Fitted(video, extent).presented
            /\ video'.image = Fitted(video, extent).image
        BY <4>1, <4>2 DEF VideoSlots
      <4>4. CASE video.submitted
        <5>1. Fitted(video, extent) = video /\ video' # None
          BY <4>3, <4>4, NoneAssumption DEF Fitted
        <5>2. /\ video'.submitted = video.submitted /\ video'.signaled = video.signaled
              /\ video'.presented = video.presented /\ video'.image = video.image
          BY <4>3, <5>1
        <5> QED BY <3>1, <5>1, <5>2 DEF QueueInv, InFlight, Promised
      <4>5. CASE ~video.submitted
        <5>1. Fitted(video, extent).submitted = FALSE
          BY <3>1, <4>5 DEF Fitted, VideoSlots
        <5>2. ~InFlight(video) /\ video'.submitted = FALSE
          BY <4>3, <4>5, <5>1 DEF InFlight
        <5> QED BY <3>1, <5>2, QueueKept
      <4> QED BY <4>4, <4>5
    <3> QED BY <3>2, <3>3
  <2>6. PollRecording =>
            \/ PollInactive \/ Poll \/ SkipSample \/ DetachFails \/ EndVideo \/ SampleFails
            \/ CollectNothing \/ CollectFrame \/ CollectFails \/ Sample
    BY DEF PollRecording
  <2> QED BY <1>1, <1>2, <1>4, <2>1, <2>2, <2>3, <2>4, <2>5, <2>6
<1>5. CASE PollScreenshots
  <2>1. ASSUME NEW reads \in BOOLEAN, TakeFrame(reads)
        PROVE  QueueInv'
    <3>1. at # "closed" /\ video' = VideoAfterWait(video, gpu) /\ gpu' = QueueAfterWait(gpu)
      BY <2>1 DEF TakeFrame
    <3>2. CASE idle
      BY <3>1, <3>2, QueueKept DEF VideoAfterWait, QueueAfterWait
    <3>3. CASE ~idle
      <4>1. gpu' = <<>> /\ Promised(video', gpu')
        BY <1>0, <3>1, <3>3, WaitedQueue DEF QueueInv
      <4> QED BY <4>1, EmptyQueue DEF QueueInv
    <3> QED BY <3>2, <3>3
  <2>2. ASSUME NEW ok \in BOOLEAN, RequestShot(ok)
        PROVE  QueueInv'
    BY <1>1, <2>2 DEF RequestShot
  <2>3. ShotWritten \/ ShotWaits => at # "closed" /\ gpu' = gpu /\ video' = video
    BY DEF ShotWritten, ShotWaits, renderer
  <2> QED BY <1>1, <1>5, <2>1, <2>2, <2>3 DEF PollScreenshots
<1>6. CASE PresentFrame
  <2>0. at = "present" /\ Promised(video, gpu) /\ (HasFence(gpu) => InFlight(video))
    BY <1>6 DEF PresentFrame, SkipPresent, Present, PresentStale, PresentFails, QueueInv
  <2>1. CASE SkipPresent
    <3>1. at # "closed" /\ gpu' = gpu /\ video' = video
      BY <2>1 DEF SkipPresent, renderer
    <3> QED BY <1>1, <3>1
  <2>2. Fenced(still, video) \in BOOLEAN /\ Sound(gpu, Fenced(still, video))
    <3>1. Fenced(still, video) \in BOOLEAN
      BY DEF Fenced, Pending
    <3>2. Fenced(still, video) => ~HasFence(gpu)
      BY <2>0 DEF Fenced, Pending, InFlight
    <3>3. Sound(gpu, FALSE)
      BY DEF QueueInv
    <3> QED BY <1>0, <3>1, <3>2, <3>3, ComingFence
  <2>3. CASE Present
    <3>1. /\ Submitted(still, video, TRUE)
          /\ gpu' = Queued(still, video, gpu, <<FrameWork(Selected(still, video), extent)>>)
      BY <2>3 DEF Present
    <3> QED BY <1>0, <2>0, <2>2, <3>1, SubmittedQueue
  <2>4. ASSUME NEW late \in BOOLEAN, PresentStale(late)
        PROVE  QueueInv'
    <3> DEFINE size == Resized(extent)
               queue == gpu \o Attempted(late)
               v == Fitted(VideoAfterWait(video, queue), size)
               s == IF Wanted(still) THEN NewStill(size) ELSE still
               q == QueueAfterWait(queue)
    <3>1. /\ Submitted(s, v, TRUE)
          /\ gpu' = Queued(s, v, q, <<FrameWork(Selected(s, v), size)>>)
      BY <2>4 DEF PresentStale
    <3>2. /\ size \in Extents /\ q \in Seq(Work) /\ v \in VideoSlots \union {None}
          /\ s \in StillSlots \union {None}
      BY RebuiltSlots
    <3>3. at # "closed"
      BY <2>0
    <3>4. Sound(q, Fenced(s, v)) /\ (HasFence(q) => InFlight(v)) /\ Promised(v, q)
      BY <3>3, RebuiltQueue
    <3> HIDE DEF size, queue, v, s, q
    <3> QED BY <3>1, <3>2, <3>4, SubmittedQueue
  <2>5. ASSUME NEW late \in BOOLEAN, PresentFails(late)
        PROVE  QueueInv'
    <3> DEFINE q == gpu \o Attempted(late)
               x == FrameWork(Selected(still, video), extent)
               coming == Fenced(still, video)
    <3>1. q \in Seq(Work) /\ (late => q = Append(gpu, x)) /\ (~late => q = gpu)
      BY <1>0, AttemptedQueue
    <3>2. x \in Work /\ x.work = "frame" /\ (x.copy = "video" => coming)
      <4>1. /\ Selected(still, video) \in Selection /\ x \in Work
            /\ Selected(still, video) = "video" => ~Wanted(still) /\ Pending(video)
        BY <1>0, SelectedFrame
      <4>2. x.work = "frame" /\ x.copy = Selected(still, video)
        BY <1>0, <4>1, FrameTypes
      <4> QED BY <4>1, <4>2 DEF Fenced
    <3>3. Submitted(still, video, FALSE)
          /\ gpu' = IF coming THEN Append(q, Fence) ELSE q
      <4>1. gpu' = Queued(still, video, gpu, Attempted(late)) /\ Submitted(still, video, FALSE)
        BY <2>5 DEF PresentFails
      <4>2. CASE late
        <5>1. gpu' = Queued(still, video, gpu, <<x>>)
          BY <4>1, <4>2 DEF Attempted
        <5>2. gpu' = IF coming THEN Append(Append(gpu, x), Fence) ELSE Append(gpu, x)
          <6> HIDE DEF x
          <6> QED BY <1>0, <3>2, <5>1, QueuedWork
        <5> QED BY <3>1, <4>1, <4>2, <5>2
      <4>3. CASE ~late
        <5>1. gpu' = Queued(still, video, gpu, <<>>)
          BY <4>1, <4>3 DEF Attempted
        <5>2. gpu' = IF coming THEN Append(gpu, Fence) ELSE gpu
          <6> HIDE DEF x
          <6> QED BY <1>0, <3>2, <5>1, QueuedWork
        <5> QED BY <3>1, <4>1, <4>3, <5>2
      <4> QED BY <4>2, <4>3
    <3> HIDE DEF x, q
    <3>4. /\ Sound(q, coming) /\ (HasFence(q) <=> HasFence(gpu))
          /\ HasCopy(gpu) => HasCopy(q)
      <4>1. CASE late
        <5>1. /\ Sound(Append(gpu, x), coming)
              /\ HasFence(Append(gpu, x)) <=> HasFence(gpu)
              /\ HasCopy(Append(gpu, x)) <=> HasCopy(gpu) \/ x.copy = "video"
          BY <1>0, <2>2, <3>2, AppendSound
        <5> QED BY <3>1, <4>1, <5>1
      <4>2. CASE ~late
        BY <2>2, <3>1, <4>2
      <4> QED BY <4>1, <4>2
    <3>5. /\ video' = None <=> video = None
          /\ coming => video'.submitted /\ ~video'.signaled /\ video'.presented = FALSE
          /\ ~coming => video' = video
      BY <1>0, <3>3, SubmittedSlots
    <3>6. CASE coming
      <4>1. Sound(q, TRUE) /\ gpu' = Append(q, Fence) /\ video' # None
        BY <3>3, <3>4, <3>5, <3>6 DEF Sound, Fenced, Pending
      <4>2. Sound(Append(q, Fence), FALSE)
        BY <3>1, <4>1, FenceSound
      <4> QED BY <3>5, <3>6, <4>1, <4>2 DEF QueueInv, InFlight, Promised
    <3>7. CASE ~coming
      <4>1. Sound(q, FALSE) /\ gpu' = q /\ video' = video
        BY <3>3, <3>4, <3>5, <3>7 DEF Sound
      <4> QED BY <2>0, <3>4, <4>1 DEF QueueInv, Promised
    <3> QED BY <3>6, <3>7
  <2> QED BY <1>6, <2>1, <2>3, <2>4, <2>5 DEF PresentFrame
<1>7. CASE FinishRecording \/ Encode \/ ChangeFormat \/ WriteShot \/ Closed
  <2>1. gpu' = gpu /\ video' = video /\ at' = at
    BY <1>7 DEF FinishRecording, WriteShot, Closed, vars, renderer, Encode, OpenFiles,
                EncodeImage, ReceiveImage, EndEncoding, ChangeFormat, EncoderStep
  <2> QED BY <2>1 DEF QueueInv, Promised, InFlight
<1>8. CASE Close
  <2>1. video' = None /\ at' = "closed" /\ gpu' = QueueAfterWait(gpu)
    BY <1>8 DEF Close
  <2>2. Sound(gpu', FALSE)
    BY <2>1, EmptyQueue DEF QueueAfterWait, QueueInv
  <2> QED BY <2>1, <2>2 DEF QueueInv, Promised
<1>9. CASE Execute
  <2> DEFINE item == Head(gpu)
  <2>1. /\ item \in Work /\ Sound(Tail(gpu), FALSE)
        /\ HasFence(gpu) <=> item.work = "fence" \/ HasFence(Tail(gpu))
        /\ HasCopy(gpu) <=> item.copy = "video" \/ HasCopy(Tail(gpu))
        /\ item.work = "fence" => ~HasFence(Tail(gpu)) /\ ~HasCopy(Tail(gpu))
                                  /\ item.copy = "none"
    BY <1>0, <1>9, TailSound DEF Execute, QueueInv
  <2>2. gpu' = Tail(gpu) /\ video' = Executed(video, item) /\ at' = at
    BY <1>9 DEF Execute
  <2> HIDE DEF item
  <2>3. CASE video = None
    <3>1. video' = None
      BY <2>2, <2>3 DEF Executed
    <3> QED BY <2>1, <2>2, <2>3, <3>1 DEF QueueInv, InFlight, Promised
  <2>4. CASE video # None
    <3>1. video \in VideoSlots
      BY <1>0, <2>4
    <3>2. /\ video' # None /\ video'.submitted = video.submitted
          /\ video'.presented = video.presented
          /\ item.work # "fence" => video'.signaled = video.signaled
          /\ video'.image = IF item.copy = "video" THEN "fresh" ELSE video.image
      <4>1. video' # None
        BY <1>0, <2>1, <2>2, <2>4, ExecutionTypes
      <4>2. /\ video'.submitted = video.submitted /\ video'.presented = video.presented
            /\ video'.image = IF item.copy = "video" THEN "fresh" ELSE video.image
        BY <2>2, <2>4, <3>1 DEF Executed, VideoSlots
      <4>3. item.work # "fence" => video'.signaled = video.signaled
        BY <2>2, <2>4, <3>1 DEF Executed, VideoSlots
      <4> QED BY <4>1, <4>2, <4>3
    <3>3. HasFence(gpu') => at' = "closed" \/ InFlight(video')
      <4>1. HasFence(gpu') => HasFence(gpu) /\ item.work # "fence"
        BY <2>1, <2>2
      <4> QED BY <2>2, <3>2, <4>1 DEF QueueInv, InFlight
    <3>4. Promised(video', gpu')
      BY <2>1, <2>2, <2>4, <3>2 DEF QueueInv, Promised
    <3> QED BY <2>1, <2>2, <3>3, <3>4 DEF QueueInv
  <2> QED BY <2>3, <2>4
<1> QED BY <1>3, <1>4, <1>5, <1>6, <1>7, <1>8, <1>9 DEF Next, Main
-----------------------------------------------------------------------------
(* Only fresh pictures are handed on.                                      *)

LEMMA NextFresh ==
    ASSUME Shape, QueueInv, ImagesFresh, Next
    PROVE  ImagesFresh'
<1> DEFINE Fresh(input) == \A i \in DOMAIN input : input[i] = "fresh"
<1>0. /\ SessionInv /\ Shape' /\ video \in VideoSlots \union {None}
      /\ recording # None => Accounted(recording, encoder) /\ encoder # None
      /\ encoder # None => Accounted(recording, encoder) /\ recording # None
  <2>1. Shape'
    BY NextShape
  <2> QED BY <2>1, ShapeParts DEF Shape, SessionOK, SlotsOK, TypeOK
<1>1. ASSUME encoder' # None, encoder # None, encoder'.input = encoder.input
      PROVE  ImagesFresh'
  BY <1>1 DEF ImagesFresh
<1>2. ASSUME encoder' = None \/ encoder' = encoder
      PROVE  ImagesFresh'
  BY <1>2 DEF ImagesFresh
<1>3. ASSUME encoder'.input = <<>>
      PROVE  ImagesFresh'
  BY <1>3 DEF ImagesFresh
<1>4. CASE Keys
  <2>1. ASSUME NEW attaches \in BOOLEAN, PressStart(attaches)
        PROVE  ImagesFresh'
    <3>1. encoder'.input = <<>>
      BY <2>1 DEF PressStart, NewEncoder, Stopped
    <3> QED BY <1>3, <3>1
  <2>2. PressStop \/ PressScreenshot \/ Quit => encoder' = encoder
    BY DEF PressStop, PressScreenshot, Quit
  <2> QED BY <1>2, <1>4, <2>1, <2>2 DEF Keys
<1>5. ASSUME recording # None, NEW r, NEW e, NEW v, Accounted(r, e), e.input = encoder.input,
             StepFails(r, e, v)
      PROVE  ImagesFresh'
  <2>1. Accounted(recording', encoder') /\ encoder'.input = encoder.input
    BY <1>5, FailedSession
  <2> QED BY <1>0, <1>1, <1>5, <2>1, NoneAssumption DEF Accounted
<1>6. ASSUME recording # None, NEW r, NEW e, Accounted(r, e), e.input = encoder.input,
             Settles(r, e)
      PROVE  ImagesFresh'
  <2>1. encoder' = None \/ (encoder' # None /\ encoder'.input = encoder.input)
    BY <1>6, SettledSession, NoneAssumption DEF Accounted
  <2> QED BY <1>0, <1>1, <1>2, <1>6, <2>1
<1>7. ASSUME recording # None
      PROVE  /\ Accounted(WithBuffer, Taken) /\ Taken.input = encoder.input
             /\ Taken # None /\ Taken \in Encoders
  BY <1>7, BufferTaken, ShapeParts, NoneAssumption DEF Accounted
<1>8. CASE PollRecording
  <2>1. PollInactive => encoder' = encoder
    BY DEF PollInactive
  <2>2. ASSUME Poll
        PROVE  ImagesFresh'
    <3>1. recording # None /\ (Settles(Noticed, encoder) \/ encoder' = encoder)
      BY <2>2 DEF Poll
    <3>2. Accounted(Noticed, encoder)
      BY <1>0, <3>1, NoticedSession, ShapeParts DEF SessionInv
    <3> QED BY <1>2, <1>6, <3>1, <3>2
  <2>3. ASSUME DetachFails
        PROVE  ImagesFresh'
    <3>1. recording # None /\ StepFails(Noticed, encoder, video)
      BY <2>3 DEF DetachFails
    <3>2. Accounted(Noticed, encoder)
      BY <1>0, <3>1, NoticedSession, ShapeParts DEF SessionInv
    <3> QED BY <1>5, <3>1, <3>2
  <2>4. ASSUME CollectNothing
        PROVE  ImagesFresh'
    <3>1. recording # None /\ encoder' = Taken
      BY <1>0, <2>4 DEF CollectNothing, SessionInv
    <3> QED BY <1>0, <1>1, <1>7, <3>1
  <2>5. ASSUME CollectFrame
        PROVE  ImagesFresh'
    <3>1. recording # None /\ Collects /\ video.presented
      BY <1>0, <2>5 DEF CollectFrame, SessionInv
    <3>2. video.image = "fresh"
      BY <3>1 DEF Collects, Complete, QueueInv, Promised
    <3>3. Taken.input \in Seq(Pictures) /\ "fresh" \in Pictures /\ Fresh(Taken.input)
      BY <1>0, <1>7, <3>1 DEF Encoders, Pictures, ImagesFresh
    <3>4. Fresh(Append(Taken.input, "fresh"))
      <4> DEFINE q == Taken.input
                 r == Append(q, "fresh")
      <4>1. /\ DOMAIN q = 1..Len(q) /\ Len(q) \in Nat
            /\ DOMAIN r = 1..(Len(q) + 1)
            /\ \A i \in 1..Len(q) : r[i] = q[i]
            /\ r[Len(q) + 1] = "fresh"
        BY <3>3, AppendItems
      <4>2. Fresh(q)
        BY <3>3
      <4> HIDE DEF q, r
      <4>3. \A i \in 1..(Len(q) + 1) : i \in 1..Len(q) \/ i = Len(q) + 1
        BY <4>1
      <4> QED BY <4>1, <4>2, <4>3 DEF r, q
    <3>5. encoder' = Taken \/ encoder' = [Taken EXCEPT !.input = Append(@, "fresh")]
      BY <2>5, <3>2 DEF CollectFrame
    <3>6. CASE encoder' = Taken
      BY <1>0, <1>1, <1>7, <3>1, <3>6
    <3>7. CASE encoder' = [Taken EXCEPT !.input = Append(@, "fresh")]
      <4>1. encoder'.input = Append(Taken.input, "fresh")
        BY <1>7, <3>1, <3>7 DEF Encoders
      <4> QED BY <3>4, <4>1 DEF ImagesFresh
    <3> QED BY <3>5, <3>6, <3>7
  <2>6. ASSUME CollectFails
        PROVE  ImagesFresh'
    <3>1. recording # None /\ StepFails(WithBuffer, Taken, Collected)
      BY <1>0, <2>6 DEF CollectFails, SessionInv
    <3> QED BY <1>5, <1>7, <3>1
  <2>7. ASSUME EndVideo
        PROVE  ImagesFresh'
    <3>1. recording # None /\ Accounted(recording, encoder)
      BY <1>0, <2>7 DEF EndVideo, SessionInv
    <3>2. \/ Settles([recording EXCEPT !.stopSent = TRUE], Stopped(encoder))
          \/ Settles(recording, encoder)
      BY <2>7 DEF EndVideo
    <3>3. /\ Accounted([recording EXCEPT !.stopSent = TRUE], Stopped(encoder))
          /\ Stopped(encoder).input = encoder.input
      BY <3>1, EndedSession
    <3> QED BY <1>6, <3>1, <3>2, <3>3
  <2>8. ASSUME SkipSample
        PROVE  ImagesFresh'
    BY <1>0, <1>6, <2>8 DEF SkipSample, SessionInv
  <2>9. ASSUME Sample
        PROVE  ImagesFresh'
    <3>1. recording # None /\ Settles(WithBuffer, Taken)
      BY <1>0, <2>9 DEF Sample, SessionInv
    <3> QED BY <1>6, <1>7, <3>1
  <2>10. ASSUME SampleFails
         PROVE  ImagesFresh'
    <3>1. recording # None /\ StepFails(WithBuffer, Taken, video)
      BY <1>0, <2>10 DEF SampleFails, SessionInv
    <3> QED BY <1>5, <1>7, <3>1
  <2> QED BY <1>2, <1>8, <2>1, <2>2, <2>3, <2>4, <2>5, <2>6, <2>7, <2>8, <2>9, <2>10
          DEF PollRecording
<1>9. CASE PollScreenshots \/ PresentFrame \/ Close \/ Closed \/ Execute \/ WriteShot
  <2>1. encoder' = None \/ encoder' = encoder
    BY <1>9 DEF PollScreenshots, ShotWritten, ShotWaits, TakeFrame, RequestShot, PresentFrame,
                SkipPresent, Present, PresentStale, PresentFails, Close, Closed, vars, Execute,
                WriteShot
  <2> QED BY <1>2, <2>1
<1>10. CASE FinishRecording
  <2>1. recording # None /\ encoder' = Stopped(encoder)
    BY <1>10 DEF FinishRecording
  <2>2. Accounted(recording, Stopped(encoder)) \/ Stopped(encoder) \in Encoders
    BY <1>0, <2>1 DEF Stopped, Accounted, Encoders
  <2>3. Stopped(encoder).input = encoder.input /\ Stopped(encoder) # None
    BY <1>0, <2>1, <2>2, NoneAssumption DEF Stopped, Accounted, Encoders
  <2> QED BY <1>0, <1>1, <2>1, <2>3
<1>11. CASE Encode \/ ChangeFormat
  <2>1. /\ Accounted(recording, encoder) /\ Accounted(recording, encoder')
        /\ \/ encoder'.input = encoder.input \/ encoder'.input = <<>>
           \/ encoder.input # <<>> /\ encoder'.input = Tail(encoder.input)
    BY <1>11, WorkerSteps
  <2>2. encoder # None /\ encoder' # None /\ encoder.input \in Seq(Pictures)
    BY <2>1, NoneAssumption DEF Accounted, Encoders
  <2>3. CASE encoder.input # <<>> /\ encoder'.input = Tail(encoder.input)
    <3> DEFINE q == encoder.input
    <3>1. /\ Len(q) \in Nat /\ Len(q) # 0 /\ DOMAIN q = 1..Len(q)
      BY <2>2, <2>3, EmptySeq, LenProperties
    <3>2. /\ Tail(q) \in Seq(Pictures) /\ Len(Tail(q)) = Len(q) - 1
          /\ \A i \in 1..Len(Tail(q)) : Tail(q)[i] = q[i + 1]
      BY <2>2, <2>3, HeadTailProperties
    <3>3. DOMAIN Tail(q) = 1..(Len(q) - 1)
      BY <3>2, LenProperties
    <3>4. Fresh(q)
      BY <2>2 DEF ImagesFresh
    <3> HIDE DEF q
    <3>5. \A i \in 1..(Len(q) - 1) : i + 1 \in 1..Len(q)
      BY <3>1
    <3>6. Fresh(Tail(q))
      BY <3>1, <3>2, <3>3, <3>4, <3>5
    <3> QED BY <2>3, <3>6 DEF ImagesFresh, q
  <2> QED BY <1>1, <1>3, <2>1, <2>2, <2>3
<1> QED BY <1>4, <1>8, <1>9, <1>10, <1>11 DEF Next, Main
-----------------------------------------------------------------------------
(* No queued copy loses its storage, no queued frame its swapchain, while  *)
(* no frame is submitted late after a device-idle wait.                    *)

\* The frames of a queue are recorded for these slots and this size.
Aims(q, v, s, size) ==
    \A i \in DOMAIN q : q[i].work = "frame" =>
        /\ q[i].swapchain = size
        /\ q[i].copy = "video" => v # None /\ v.source = size
        /\ q[i].copy = "still" => s # None /\ s.source = size
NoFrames(q) == \A i \in DOMAIN q : q[i].work # "frame"

LEMMA TargetsParts ==
    /\ TargetsInv <=> /\ Aims(gpu, video, still, extent)
                      /\ at = "closed" => NoFrames(gpu)
                      /\ idle => NoFrames(gpu)
                      /\ Pending(video) => video.source = extent
                      /\ Wanted(still) => still.source = extent
    /\ TargetsInv' <=> /\ Aims(gpu', video', still', extent')
                       /\ at' = "closed" => NoFrames(gpu')
                       /\ idle' => NoFrames(gpu')
                       /\ Pending(video') => video'.source = extent'
                       /\ Wanted(still') => still'.source = extent'
BY DEF TargetsInv, CopyTargetsAlive, Aims, NoFrames

LEMMA NoFramesAims ==
    ASSUME NEW q, NoFrames(q), NEW v, NEW s, NEW size
    PROVE  Aims(q, v, s, size)
BY DEF NoFrames, Aims

\* Work behind the queue and its execution.
LEMMA AppendAims ==
    ASSUME NEW q \in Seq(Work), NEW x \in Work, NEW v, NEW s, NEW size, Aims(q, v, s, size),
           x.work = "frame" => /\ x.swapchain = size
                               /\ x.copy = "video" => v # None /\ v.source = size
                               /\ x.copy = "still" => s # None /\ s.source = size
    PROVE  /\ Aims(Append(q, x), v, s, size)
           /\ NoFrames(q) /\ x.work # "frame" => NoFrames(Append(q, x))
<1> DEFINE n == Len(q)
           r == Append(q, x)
<1>1. /\ n \in Nat /\ DOMAIN q = 1..n /\ DOMAIN r = 1..(n + 1)
      /\ \A i \in 1..n : r[i] = q[i]
      /\ r[n + 1] = x
  BY AppendItems
<1> HIDE DEF n, r
<1>2. \A i \in 1..(n + 1) : i \in 1..n \/ i = n + 1
  BY <1>1
<1>3. Aims(r, v, s, size)
  BY <1>1, <1>2 DEF Aims
<1>4. NoFrames(q) /\ x.work # "frame" => NoFrames(r)
  BY <1>1, <1>2 DEF NoFrames
<1> QED BY <1>3, <1>4 DEF r

LEMMA TailAims ==
    ASSUME NEW q \in Seq(Work), q # <<>>
    PROVE  /\ \A v, s, size : Aims(q, v, s, size) => Aims(Tail(q), v, s, size)
           /\ NoFrames(q) => NoFrames(Tail(q))
<1> DEFINE n == Len(q)
           r == Tail(q)
<1>1. /\ n \in Nat \ {0} /\ DOMAIN q = 1..n /\ DOMAIN r = 1..(n - 1)
      /\ \A i \in 1..(n - 1) : r[i] = q[i + 1]
  <2>1. n \in Nat \ {0}
    BY EmptySeq
  <2>2. r \in Seq(Work) /\ Len(r) = n - 1 /\ \A i \in 1..Len(r) : r[i] = q[i + 1]
    BY HeadTailProperties
  <2>3. DOMAIN q = 1..n /\ DOMAIN r = 1..Len(r)
    BY <2>2, LenProperties
  <2> QED BY <2>1, <2>2, <2>3
<1> HIDE DEF n, r
<1>2. \A i \in 1..(n - 1) : i + 1 \in 1..n
  BY <1>1
<1>3. ASSUME NEW v, NEW s, NEW size, Aims(q, v, s, size)
      PROVE  Aims(r, v, s, size)
  <2>1. ASSUME NEW i \in 1..(n - 1)
        PROVE  i + 1 \in DOMAIN q /\ r[i] = q[i + 1]
    BY <1>1, <1>2
  <2> QED BY <1>1, <1>3, <2>1 DEF Aims
<1>4. NoFrames(q) => NoFrames(r)
  <2>1. ASSUME NEW i \in 1..(n - 1)
        PROVE  i + 1 \in DOMAIN q /\ r[i] = q[i + 1]
    BY <1>1, <1>2
  <2> QED BY <1>1, <2>1 DEF NoFrames
<1> QED BY <1>3, <1>4 DEF r

\* A queue without copies into a slot does not depend on it.
LEMMA AimsWithoutVideo ==
    ASSUME NEW q, NEW v, NEW w, NEW s, NEW size, Aims(q, v, s, size),
           ~HasCopy(q) \/ (w # None /\ (v # None => w.source = v.source))
    PROVE  Aims(q, w, s, size)
BY DEF Aims, HasCopy

\* A frame for the present slots and its fence keep the queue's aim.
LEMMA SubmittedAims ==
    ASSUME NEW s \in StillSlots \union {None}, NEW v \in VideoSlots \union {None},
           NEW q \in Seq(Work), NEW size \in Extents, NEW presented \in BOOLEAN,
           Aims(q, v, s, size), Submitted(s, v, presented),
           Pending(v) => v.source = size, Wanted(s) => s.source = size
    PROVE  /\ Aims(Queued(s, v, q, <<FrameWork(Selected(s, v), size)>>), video', still', size)
           /\ Aims(Queued(s, v, q, <<>>), video', still', size)
           /\ NoFrames(q) => NoFrames(Queued(s, v, q, <<>>))
           /\ Pending(video') => video'.source = size
           /\ Wanted(still') => still'.source = size
<1> DEFINE x == FrameWork(Selected(s, v), size)
           r == Append(q, x)
<1>1. /\ video' = None <=> v = None
      /\ still' = None <=> s = None
      /\ v # None => video'.source = v.source
      /\ s # None => still'.source = s.source
      /\ Fenced(s, v) => video'.submitted
      /\ ~Fenced(s, v) => video' = v
      /\ Wanted(still') => Wanted(s)
  BY SubmittedSlots
<1>2. /\ Selected(s, v) \in Selection /\ x \in Work
      /\ Selected(s, v) = "video" => ~Wanted(s) /\ Pending(v)
      /\ Selected(s, v) = "still" => Wanted(s)
  BY SelectedFrame
<1>3. /\ x.work = "frame" /\ x.copy = Selected(s, v) /\ x.swapchain = size
      /\ Fence \in Work /\ Fence.work = "fence"
  BY <1>2, FrameTypes
<1>4. /\ Queued(s, v, q, <<>>) = IF Fenced(s, v) THEN Append(q, Fence) ELSE q
      /\ Queued(s, v, q, <<x>>) = IF Fenced(s, v) THEN Append(r, Fence) ELSE r
      /\ r \in Seq(Work)
  <2> HIDE DEF x
  <2> QED BY <1>2, QueuedWork
<1> HIDE DEF x
<1>5. Aims(q, video', still', size)
  BY <1>1 DEF Aims
<1>6. Aims(r, video', still', size)
  <2>1. /\ x.copy = "video" => video' # None /\ video'.source = size
        /\ x.copy = "still" => still' # None /\ still'.source = size
    BY <1>1, <1>2, <1>3 DEF Pending, Wanted
  <2> QED BY <1>2, <1>3, <1>5, <2>1, AppendAims
<1> HIDE DEF r
<1>7. /\ Aims(Append(q, Fence), video', still', size)
      /\ NoFrames(q) => NoFrames(Append(q, Fence))
  BY <1>3, <1>5, AppendAims
<1>8. Aims(Append(r, Fence), video', still', size)
  BY <1>3, <1>4, <1>6, AppendAims
<1>9. Pending(video') => video'.source = size
  BY <1>1 DEF Pending
<1>10. Wanted(still') => still'.source = size
  BY <1>1 DEF Wanted
<1> QED BY <1>4, <1>5, <1>6, <1>7, <1>8, <1>9, <1>10 DEF x

LEMMA NextTargets ==
    ASSUME Shape, QueueInv, TargetsInv, ~LateAfterIdle, Next
    PROVE  TargetsInv'
<1>0. /\ TypeOK /\ SessionInv /\ gpu \in Seq(Work) /\ extent \in Extents
      /\ video \in VideoSlots \union {None} /\ still \in StillSlots \union {None}
  BY DEF Shape, TypeOK
<1>1. /\ Aims(gpu, video, still, extent)
      /\ at = "closed" => NoFrames(gpu)
      /\ idle => NoFrames(gpu)
      /\ Pending(video) => video.source = extent
      /\ Wanted(still) => still.source = extent
  BY TargetsParts
\* Another video slot, the queue and the screenshot slot as they are.
<1>2. ASSUME at # "closed", at' # "closed", gpu' = gpu, still' = still, extent' = extent,
             idle' = idle,
             \/ video' = video
             \/ video' # None /\ (Pending(video') => video'.source = extent)
                /\ (~HasCopy(gpu) \/ (video # None /\ video'.source = video.source))
             \/ video' = None /\ ~HasCopy(gpu)
      PROVE  TargetsInv'
  <2>1. Aims(gpu', video', still', extent')
    <3>1. CASE video' = video
      BY <1>1, <1>2, <3>1
    <3>2. CASE video' # video
      <4>1. ~HasCopy(gpu) \/ (video' # None /\ (video # None => video'.source = video.source))
        BY <1>2, <3>2
      <4> QED BY <1>1, <1>2, <4>1, AimsWithoutVideo
    <3> QED BY <3>1, <3>2
  <2>2. Pending(video') => video'.source = extent'
    <3>1. CASE video' = None
      BY <3>1 DEF Pending
    <3> QED BY <1>1, <1>2, <3>1
  <2> QED BY <1>1, <1>2, <2>1, <2>2, TargetsParts
<1>3. ASSUME at # "closed", at' # "closed", gpu' = gpu, still' = still, extent' = extent,
             idle' = idle, video' = AfterEnd(video)
      PROVE  TargetsInv'
  <2>1. video' # video => video' = None /\ ~InFlight(video)
    BY <1>3 DEF AfterEnd, EndsVideo, Complete, InFlight
  <2>2. video' # video => ~HasCopy(gpu)
    BY <1>3, <2>1, NothingQueued
  <2> QED BY <1>2, <1>3, <2>1, <2>2
<1>4. ASSUME at # "closed", at' # "closed", gpu' = gpu, still' = still, extent' = extent,
             idle' = idle, Collects, video' = Collected \/ video' = AfterEnd(Collected)
      PROVE  TargetsInv'
  <2>1. video # None /\ video \in VideoSlots /\ ~InFlight(video)
    BY <1>0, <1>4 DEF Collects, Complete, InFlight
  <2>2. Collected \in VideoSlots /\ Collected.requested = FALSE
    BY <2>1 DEF Collected, VideoSlots, Pictures
  <2>3. video' = None \/ (video' # None /\ ~Pending(video'))
    BY <1>4, <2>2 DEF AfterEnd, Pending
  <2>4. ~HasCopy(gpu)
    BY <1>4, <2>1, NothingQueued
  <2> QED BY <1>2, <1>4, <2>3, <2>4
<1>5. CASE Keys
  <2>1. ASSUME NEW attaches \in BOOLEAN, PressStart(attaches)
        PROVE  TargetsInv'
    <3>1. /\ at # "closed" /\ at' # "closed" /\ gpu' = gpu /\ still' = still
          /\ extent' = extent /\ idle' = idle /\ video = None
      BY <2>1 DEF PressStart
    <3>2. ~HasCopy(gpu)
      BY <3>1, NothingQueued DEF InFlight
    <3>3. video' = None \/ (video' # None /\ video'.requested = FALSE)
      <4>1. NewVideo(extent) \in VideoSlots /\ NewVideo(extent).requested = FALSE
        BY <1>0 DEF NewVideo, VideoSlots, Pictures
      <4> QED BY <2>1, <4>1, NoneAssumption DEF PressStart
    <3> QED BY <1>2, <3>1, <3>2, <3>3 DEF Pending
  <2>2. PressStop \/ PressScreenshot \/ Quit =>
            /\ at # "closed" /\ at' # "closed" /\ gpu' = gpu /\ still' = still
            /\ extent' = extent /\ idle' = idle /\ video' = video
    BY DEF PressStop, PressScreenshot, Quit, renderer
  <2> QED BY <1>2, <1>5, <2>1, <2>2 DEF Keys
<1>6. CASE PollRecording
  <2>0. /\ at # "closed" /\ at' # "closed" /\ gpu' = gpu /\ still' = still
        /\ extent' = extent /\ idle' = idle
    BY <1>6 DEF PollRecording, PollInactive, Poll, DetachFails, CollectNothing, CollectFrame,
                CollectFails, EndVideo, SkipSample, Sample, SampleFails, StepFails, Settles,
                NextStep, renderer
  <2>1. PollInactive \/ Poll \/ SkipSample => video' = video
    BY DEF PollInactive, Poll, SkipSample, renderer
  <2>2. DetachFails \/ EndVideo \/ SampleFails => video' = AfterEnd(video)
    BY DEF DetachFails, EndVideo, SampleFails, StepFails
  <2>3. CollectNothing => (Collects /\ video' = Collected) \/ video' = video
    BY DEF CollectNothing
  <2>4. CollectFrame \/ CollectFails =>
            Collects /\ (video' = Collected \/ video' = AfterEnd(Collected))
    BY DEF CollectFrame, CollectFails, StepFails
  <2>5. ASSUME Sample
        PROVE  TargetsInv'
    <3>1. video # None /\ video \in VideoSlots
      BY <1>0, <2>5 DEF Sample, SessionInv
    <3>2. CASE video' = video
      BY <1>2, <2>0, <3>2
    <3>3. CASE video' # video
      <4>1. video' = [Fitted(video, extent) EXCEPT !.requested = TRUE]
        BY <2>5, <3>3 DEF Sample
      <4>2. Fitted(video, extent) \in VideoSlots
        BY <1>0, <3>1, SlotTypes
      <4>3. video' \in VideoSlots /\ video'.submitted = Fitted(video, extent).submitted
            /\ video'.source = Fitted(video, extent).source
        BY <4>1, <4>2 DEF VideoSlots
      <4>4. video' # None
        BY <4>3, NoneAssumption
      <4>5. CASE video.submitted
        <5>1. Fitted(video, extent) = video
          BY <4>5 DEF Fitted
        <5>2. ~Pending(video') /\ video'.source = video.source
          BY <4>3, <4>5, <5>1 DEF Pending
        <5> QED BY <1>2, <2>0, <3>1, <4>4, <5>2
      <4>6. CASE ~video.submitted
        <5>1. Fitted(video, extent).source = extent
          BY <3>1, <4>6 DEF Fitted, VideoSlots
        <5>2. ~HasCopy(gpu)
          BY <2>0, <4>6, NothingQueued DEF InFlight
        <5> QED BY <1>2, <2>0, <4>3, <4>4, <5>1, <5>2
      <4> QED BY <4>5, <4>6
    <3> QED BY <3>2, <3>3
  <2>6. PollRecording =>
            \/ PollInactive \/ Poll \/ SkipSample \/ DetachFails \/ EndVideo \/ SampleFails
            \/ CollectNothing \/ CollectFrame \/ CollectFails \/ Sample
    BY DEF PollRecording
  <2> QED BY <1>2, <1>3, <1>4, <1>6, <2>0, <2>1, <2>2, <2>3, <2>4, <2>5, <2>6
<1>7. CASE PollScreenshots
  <2>1. ASSUME NEW reads \in BOOLEAN, TakeFrame(reads)
        PROVE  TargetsInv'
    <3>1. /\ at # "closed" /\ at' # "closed" /\ still' = None /\ extent' = extent
          /\ video' = VideoAfterWait(video, gpu) /\ gpu' = QueueAfterWait(gpu)
      BY <2>1 DEF TakeFrame
    <3>2. NoFrames(gpu')
      BY <1>1, <3>1 DEF QueueAfterWait, NoFrames
    <3>3. Pending(video') => video'.source = extent'
      <4>1. CASE idle \/ video = None
        <5>1. video' = video
          BY <3>1, <4>1 DEF VideoAfterWait, ExecutedAll
        <5> QED BY <1>1, <3>1, <5>1
      <4>2. CASE ~idle /\ video # None
        <5>1. video \in VideoSlots /\ video' = ExecutedAll(video, gpu)
          BY <1>0, <3>1, <4>2 DEF VideoAfterWait
        <5>2. video'.requested = video.requested /\ video'.submitted = video.submitted
              /\ video'.source = video.source
          BY <4>2, <5>1 DEF ExecutedAll, VideoSlots
        <5> QED BY <1>1, <3>1, <4>2, <5>2 DEF Pending
      <4> QED BY <4>1, <4>2
    <3>4. ~Wanted(still')
      BY <3>1 DEF Wanted
    <3>5. Aims(gpu', video', still', extent')
      BY <3>2, NoFramesAims
    <3> QED BY <3>2, <3>3, <3>4, <3>5, TargetsParts
  <2>2. ASSUME NEW ok \in BOOLEAN, RequestShot(ok)
        PROVE  TargetsInv'
    <3>1. /\ at # "closed" /\ at' # "closed" /\ gpu' = gpu /\ video' = video
          /\ extent' = extent /\ idle' = idle
          /\ still' = still \/ (still = None /\ still' = NewStill(extent))
      BY <2>2 DEF RequestShot
    <3>2. Aims(gpu', video', still', extent')
      BY <1>1, <3>1 DEF Aims, NewStill
    <3>3. Wanted(still') => still'.source = extent'
      BY <1>1, <3>1 DEF NewStill
    <3> QED BY <1>1, <3>1, <3>2, <3>3, TargetsParts
  <2>3. ShotWritten \/ ShotWaits =>
            /\ at # "closed" /\ at' # "closed" /\ gpu' = gpu /\ still' = still
            /\ extent' = extent /\ idle' = idle /\ video' = video
    BY DEF ShotWritten, ShotWaits, renderer
  <2> QED BY <1>2, <1>7, <2>1, <2>2, <2>3 DEF PollScreenshots
<1>8. CASE PresentFrame
  <2>1. CASE SkipPresent
    <3>1. /\ at # "closed" /\ at' # "closed" /\ gpu' = gpu /\ still' = still
          /\ extent' = extent /\ idle' = idle /\ video' = video
      BY <2>1 DEF SkipPresent, renderer
    <3> QED BY <1>2, <3>1
  <2>2. CASE Present
    <3>1. /\ Submitted(still, video, TRUE) /\ at' = "events" /\ idle' = FALSE
          /\ extent' = extent
          /\ gpu' = Queued(still, video, gpu, <<FrameWork(Selected(still, video), extent)>>)
      BY <2>2 DEF Present
    <3>2. /\ Aims(gpu', video', still', extent)
          /\ Pending(video') => video'.source = extent
          /\ Wanted(still') => still'.source = extent
      BY <1>0, <1>1, <3>1, SubmittedAims
    <3> QED BY <3>1, <3>2, TargetsParts
  <2>3. ASSUME NEW late \in BOOLEAN, PresentStale(late)
        PROVE  TargetsInv'
    <3> DEFINE size == Resized(extent)
               queue == gpu \o Attempted(late)
               waited == VideoAfterWait(video, queue)
               v == Fitted(waited, size)
               s == IF Wanted(still) THEN NewStill(size) ELSE still
               q == QueueAfterWait(queue)
    <3>1. /\ Submitted(s, v, TRUE) /\ extent' = size /\ idle' = FALSE /\ at' = "events"
          /\ gpu' = Queued(s, v, q, <<FrameWork(Selected(s, v), size)>>)
          /\ late => ~idle
      BY <2>3 DEF PresentStale
    <3>2. /\ size \in Extents /\ q \in Seq(Work) /\ v \in VideoSlots \union {None}
          /\ s \in StillSlots \union {None}
      BY RebuiltSlots
    <3>3. NoFrames(q)
      <4>1. CASE idle
        <5>1. ~late /\ q = gpu
          BY <1>0, <3>1, <4>1, AttemptedQueue DEF QueueAfterWait
        <5> QED BY <1>1, <4>1, <5>1
      <4>2. CASE ~idle
        BY <4>2 DEF QueueAfterWait, NoFrames
      <4> QED BY <4>1, <4>2
    <3>4. Pending(v) => v.source = size
      <4>1. queue \in Seq(Work)
        BY <1>0, AttemptedQueue
      <4>2. waited \in VideoSlots \union {None}
        BY <1>0, <4>1, AfterWaitTypes
      <4> HIDE DEF waited, size
      <4> QED BY <4>2 DEF Fitted, Pending, VideoSlots
    <3>5. Wanted(s) => s.source = size
      BY DEF Wanted, NewStill
    <3>6. Aims(q, v, s, size)
      BY <3>3, NoFramesAims
    <3> HIDE DEF size, queue, waited, v, s, q
    <3>7. /\ Aims(gpu', video', still', size)
          /\ Pending(video') => video'.source = size
          /\ Wanted(still') => still'.source = size
      BY <3>1, <3>2, <3>4, <3>5, <3>6, SubmittedAims
    <3> QED BY <3>1, <3>7, TargetsParts
  <2>4. ASSUME NEW late \in BOOLEAN, PresentFails(late)
        PROVE  TargetsInv'
    <3>1. /\ Submitted(still, video, FALSE) /\ at' = "closing" /\ idle' = idle
          /\ extent' = extent /\ (late => ~idle)
          /\ gpu' = Queued(still, video, gpu, Attempted(late))
      BY <2>4 DEF PresentFails
    <3>2. /\ late => Attempted(late) = <<FrameWork(Selected(still, video), extent)>>
          /\ ~late => Attempted(late) = <<>>
      BY DEF Attempted
    <3>3. /\ Aims(Queued(still, video, gpu, <<FrameWork(Selected(still, video), extent)>>),
                  video', still', extent)
          /\ Aims(Queued(still, video, gpu, <<>>), video', still', extent)
          /\ NoFrames(gpu) => NoFrames(Queued(still, video, gpu, <<>>))
          /\ Pending(video') => video'.source = extent
          /\ Wanted(still') => still'.source = extent
      BY <1>0, <1>1, <3>1, SubmittedAims
    <3>4. Aims(gpu', video', still', extent)
      <4>1. CASE late
        BY <3>1, <3>2, <3>3, <4>1
      <4>2. CASE ~late
        BY <3>1, <3>2, <3>3, <4>2
      <4> QED BY <4>1, <4>2
    <3>5. idle' => NoFrames(gpu')
      BY <1>1, <3>1, <3>2, <3>3
    <3> QED BY <3>1, <3>3, <3>4, <3>5, TargetsParts
  <2> QED BY <1>8, <2>1, <2>2, <2>3, <2>4 DEF PresentFrame
<1>9. CASE FinishRecording \/ Encode \/ ChangeFormat \/ WriteShot \/ Closed
  <2>1. /\ gpu' = gpu /\ video' = video /\ still' = still /\ at' = at
        /\ extent' = extent /\ idle' = idle
    BY <1>9 DEF FinishRecording, WriteShot, Closed, vars, renderer, Encode, OpenFiles,
                EncodeImage, ReceiveImage, EndEncoding, ChangeFormat, EncoderStep
  <2> QED BY <1>1, <2>1, TargetsParts
<1>10. CASE Close
  <2>1. video' = None /\ still' = None /\ gpu' = QueueAfterWait(gpu)
    BY <1>10 DEF Close
  <2>2. NoFrames(gpu')
    BY <1>1, <2>1 DEF QueueAfterWait, NoFrames
  <2>3. Aims(gpu', video', still', extent')
    BY <2>2, NoFramesAims
  <2> QED BY <2>1, <2>2, <2>3, TargetsParts DEF Pending, Wanted
<1>11. CASE Execute
  <2>1. /\ gpu' = Tail(gpu) /\ video' = Executed(video, Head(gpu)) /\ gpu # <<>>
        /\ at' = at /\ still' = still /\ extent' = extent /\ idle' = idle
    BY <1>11 DEF Execute
  <2>2. /\ video' = None <=> video = None
        /\ video # None => /\ video'.source = video.source
                           /\ video'.requested = video.requested
                           /\ video'.submitted = video.submitted
    <3>1. Head(gpu) \in Work
      BY <1>0, <2>1, HeadTailProperties
    <3>2. video' = None <=> video = None
      BY <1>0, <2>1, <3>1, ExecutionTypes
    <3>3. video # None => /\ video'.source = video.source
                          /\ video'.requested = video.requested
                          /\ video'.submitted = video.submitted
      BY <1>0, <2>1 DEF Executed, VideoSlots
    <3> QED BY <3>2, <3>3
  <2>3. /\ Aims(gpu', video, still, extent)
        /\ NoFrames(gpu) => NoFrames(gpu')
    BY <1>0, <1>1, <2>1, TailAims
  <2>4. Aims(gpu', video', still', extent')
    BY <2>1, <2>2, <2>3 DEF Aims
  <2>5. Pending(video') => video'.source = extent'
    BY <1>1, <2>1, <2>2 DEF Pending
  <2> QED BY <1>1, <2>1, <2>3, <2>4, <2>5, TargetsParts
<1> QED BY <1>5, <1>6, <1>7, <1>8, <1>9, <1>10, <1>11 DEF Next, Main
-----------------------------------------------------------------------------
(* The theorems.                                                           *)

\* The inductive invariant holds of every state: shapes and buffers, the session's
\* progress, the queue's promises and, without a late frame after a device-idle wait,
\* the targets of the queued copies.
THEOREM CaptureInvariant == Spec => []CaptureInv
<1>1. Init => CaptureInv
  <2> SUFFICES ASSUME Init PROVE CaptureInv
    OBVIOUS
  <2>1. gpu = <<>> /\ video = None /\ still = None /\ encoder = None /\ at = "events"
    BY DEF Init
  <2>2. QueueInv
    BY <2>1, EmptyQueue DEF QueueInv, Promised
  <2>3. ImagesFresh
    BY <2>1 DEF ImagesFresh
  <2>4. TargetsInv
    BY <2>1 DEF TargetsInv, CopyTargetsAlive, Pending, Wanted
  <2> QED BY <2>2, <2>3, <2>4, InitShape DEF CaptureInv, Shape
<1>2. CaptureInv /\ [Next]_vars => CaptureInv'
  <2> SUFFICES ASSUME CaptureInv, [Next]_vars PROVE CaptureInv'
    OBVIOUS
  <2>1. Shape /\ QueueInv /\ ImagesFresh /\ (~LateAfterIdle => TargetsInv)
    BY DEF CaptureInv, Shape
  <2>2. CASE Next
    <3>1. Shape' /\ QueueInv' /\ ImagesFresh'
      BY <2>1, <2>2, NextShape, NextQueue, NextFresh
    <3>2. ~LateAfterIdle => TargetsInv'
      BY <2>1, <2>2, NextTargets
    <3> QED BY <3>1, <3>2 DEF CaptureInv, Shape
  <2>3. CASE UNCHANGED vars
    <3>1. Shape'
      BY <2>1, <2>3, NextShape
    <3>2. /\ gpu' = gpu /\ video' = video /\ still' = still /\ at' = at
          /\ extent' = extent /\ idle' = idle /\ encoder' = encoder
      BY <2>3 DEF vars, renderer
    <3>3. QueueInv' /\ ImagesFresh'
      BY <2>1, <3>2 DEF QueueInv, Promised, InFlight, ImagesFresh
    <3>4. ~LateAfterIdle => TargetsInv'
      BY <2>1, <3>2, TargetsParts
    <3> QED BY <3>1, <3>3, <3>4 DEF CaptureInv, Shape
  <2> QED BY <2>2, <2>3
<1> QED BY <1>1, <1>2, PTL DEF Spec

\* Every record has its shape, and a live worker's pixel buffers are all accounted for.
THEOREM TypeCorrect == Spec => []TypeOK
<1>1. CaptureInv => TypeOK
  BY DEF CaptureInv
<1> QED BY <1>1, CaptureInvariant, PTL

\* Only freshly copied pictures reach the encoder, whether or not a frame may be
\* submitted late after a device-idle wait.
THEOREM PicturesFresh == Spec => []ImagesFresh
<1>1. CaptureInv => ImagesFresh
  BY DEF CaptureInv
<1> QED BY <1>1, CaptureInvariant, PTL

\* What the GPU has still to write to is alive and of its size, as long as the first
\* frame after a device-idle wait does not fail after its submission.
THEOREM TargetsOutliveCopies == ASSUME ~LateAfterIdle PROVE Spec => []CopyTargetsAlive
<1>1. CaptureInv => CopyTargetsAlive
  BY DEF CaptureInv, TargetsInv
<1> QED BY <1>1, CaptureInvariant, PTL
=============================================================================
