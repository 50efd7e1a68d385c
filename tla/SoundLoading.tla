----------------------------- MODULE SoundLoading -----------------------------
(***************************************************************************)
(* From a request for a sound to a playing voice (runtime application      *)
(* sound_coordinator.rs and sound_coordinator/loader.rs, media audio       *)
(* engine/sound_engine.rs, its loading and fades modules, codec/decoder.rs,*)
(* codec/loader.rs and backend/dependency.rs).                             *)
(*                                                                         *)
(* The engine reserves a voice; the loader reads its file and has it       *)
(* decoded by jobs of the CPU pool, one reservation at a time; the main    *)
(* thread starts the voice on a track, taking another's when all play.     *)
(* Meanwhile reservations are cancelled, owners change, voices end and are *)
(* stolen, the output restarts and the application shuts down.             *)
(***************************************************************************)
EXTENDS Naturals, Sequences, SequencesExt, FiniteSetsExt

CONSTANTS
    None,
    Paths,        \* sound files
    Streamed,     \* those too long to be kept as samples
    TrackCount,   \* STOCK_VIRTUAL_VOICE_CAPACITY, 512 in the code
    EffectLimit,  \* maximum_active_voices of the effect channel
    MaxSamples,   \* how many samples the cache budget holds
    MaxLoads      \* bound: reservations made

Tracks == 1..TrackCount
Channels == {"effect", "music", "script", "ambience"}
Owners == {"music", "ambience"}
OwnerOf == [effect |-> None, music |-> "music", script |-> "music", ambience |-> "ambience"]
Loops == {"script", "ambience"}

ASSUME SoundAssumption ==
    /\ Streamed \subseteq Paths /\ TrackCount \in Nat \ {0}
    /\ EffectLimit \in Nat \ {0} /\ MaxSamples \in Nat /\ MaxLoads \in Nat

VARIABLES
    at,        \* where the main thread is in its frame
    loads,     \* reservations made; a reservation's number is its voice's generation
    pending,   \* SoundEngine::pending_voices
    active,    \* SoundEngine::active_voices
    fading,    \* those fading out
    refs,      \* per path: playing voices of its sample, None when not resident
    streams,   \* the resources of streamed voices, by voice
    tracks,    \* per track: the generation on it and whether it plays
    queued,    \* RuntimeSoundLoader::queued
    activeRead, \* its active read
    decoding,  \* what it has read and not had decoded
    jobs,      \* SoundLoader::pending of the decoder
    owners,    \* the coordinator's glue_music and glue_ambience
    repeat     \* glue_music_repeat

engine == <<loads, pending, active, fading, refs, streams, tracks>>
loader == <<queued, activeRead, decoding, jobs>>
soundVars == <<at, engine, loader, owners, repeat>>

Reservations == [id: 1..MaxLoads, path: Paths, channel: Channels]
FileReads == [load: Reservations, state: {"running", "done", "failed"}]
Ownerships == [load: Reservations, started: BOOLEAN]

\* None is neither a file nor what the variables hold otherwise.
ASSUME SilenceAssumption ==
    None \notin Nat \union Paths \union Reservations \union FileReads \union Ownerships

Load(path, channel) == [id |-> loads + 1, path |-> path, channel |-> channel]

SoundInit ==
    /\ at = "settings" /\ loads = 0 /\ pending = {} /\ active = {} /\ fading = {}
    /\ refs = [p \in Paths |-> None] /\ streams = {}
    /\ tracks = [t \in Tracks |-> [voice |-> None, playing |-> FALSE]]
    /\ queued = <<>> /\ activeRead = None /\ decoding = None /\ jobs = {}
    /\ owners = [o \in Owners |-> None] /\ repeat = None

-----------------------------------------------------------------------------
\* The engine: voices and the resources they hold.

Playing(v) == \E t \in Tracks : tracks[t].voice = v.id /\ tracks[t].playing
Stopped == {v \in active : ~Playing(v)}
Ids(voices) == {v.id : v \in voices}

\* decoder.release: a stream goes with its voice, a sample stays without a reference.
Released(gone) == [p \in Paths |-> IF refs[p] = None THEN None
                                   ELSE refs[p] - Cardinality({v \in gone : v.path = p})]
\* stop and collect_stopped_unmanaged_voices: the track keeps its generation.
Retire(gone) ==
    /\ active' = active \ gone /\ fading' = fading \ gone
    /\ refs' = Released(gone) /\ streams' = streams \ Ids(gone)
    /\ tracks' = [t \in Tracks |-> IF tracks[t].voice \in Ids(gone)
                                   THEN [tracks[t] EXCEPT !.playing = FALSE] ELSE tracks[t]]

\* cancel_load: the decode of a cancelled reservation is discarded when it ends.
Cancelled(gone) == {IF j.load \in gone THEN [j EXCEPT !.cancelled = TRUE] ELSE j : j \in jobs}
Cancel(gone) == pending' = pending \ gone /\ jobs' = Cancelled(gone \intersect pending)

\* begin_load and begin_file_load once stopped voices are collected, and the loader's
\* queue: a reservation, given up for the old ones.
Reserve(load, old) ==
    /\ loads < MaxLoads /\ loads' = loads + 1
    /\ pending' = (pending \ old) \union {load}
    /\ queued' = Append(queued, load) /\ jobs' = Cancelled(old \intersect pending)
    /\ UNCHANGED <<activeRead, decoding>>
\* A disabled category makes none.
Disabled(old) == Cancel(old) /\ UNCHANGED <<loads, queued, activeRead, decoding>>
Full == Cardinality({v \in (active \ Stopped) \union pending : v.channel = "effect"})
            >= EffectLimit

\* set_settings collects stopped voices; trim_predecoded_cache drops samples nobody
\* plays until the budget is met, and every cancelled decode that has ended.
Unused(kept) == {p \in Paths \ Streamed : kept[p] = 0}
Trims(gone, unused) ==
    LET resident == {p \in Paths \ Streamed : refs[p] # None}
    IN  \/ Cardinality(resident) <= MaxSamples /\ gone = {}
        \/ gone # {} /\ Cardinality(resident \ gone) = MaxSamples
        \/ gone = unused /\ Cardinality(resident \ gone) > MaxSamples
Trim ==
    /\ at = "settings" /\ at' = "commands"
    /\ active' = active \ Stopped /\ fading' = fading \ Stopped
    /\ streams' = streams \ Ids(Stopped)
    /\ LET kept == Released(Stopped)
       IN  \E gone \in SUBSET Unused(kept) :
              /\ Trims(gone, Unused(kept))
              /\ refs' = [p \in Paths |-> IF p \in gone THEN None ELSE kept[p]]
    /\ jobs' = {j \in jobs : ~(j.cancelled /\ j.state # "running")}
    /\ UNCHANGED <<loads, pending, tracks, queued, activeRead, decoding, owners, repeat>>

-----------------------------------------------------------------------------
\* Media actions.  Each begins by releasing the owners whose voice is over.

Loading(o) == {l \in pending : owners[o] # None /\ ~owners[o].started /\ owners[o].load = l}
Voice(o) == {v \in active : owners[o] # None /\ owners[o].started /\ owners[o].load = v}
Over == {o \in Owners : owners[o] # None /\ Loading(o) = {} /\ Voice(o) \subseteq Stopped}
CollectOwners ==
    /\ owners' = [o \in Owners |-> IF o \in Over THEN None ELSE owners[o]]
    /\ Retire(UNION {Voice(o) : o \in Over})
    /\ UNCHANGED <<loads, pending, loader, repeat>>
BeginCommand == at = "commands" /\ at' = "command" /\ CollectOwners
EndCommands == at = "commands" /\ at' = "fades" /\ UNCHANGED <<engine, loader, owners, repeat>>
Command == at = "command" /\ at' = "commands"

\* PlaySound: an effect belongs to nobody; a full channel refuses it.
PlayEffect(p) ==
    /\ Command /\ Retire(Stopped)
    /\ \/ ~Full /\ Reserve(Load(p, "effect"), {})
       \/ Disabled({})
    /\ UNCHANGED <<owners, repeat>>

\* An owner turns to a new sound, which may be disabled.
Owned(load) == [load |-> load, started |-> FALSE]
Renew(o, load) ==
    \/ Reserve(load, Loading(o)) /\ owners' = [owners EXCEPT ![o] = Owned(load)]
    \/ Disabled(Loading(o)) /\ owners' = [owners EXCEPT ![o] = None]
Plays(o, p, channel) ==
    owners[o] # None /\ owners[o].load.path = p /\ owners[o].load.channel = channel

\* PlayMusic and PlayGlueMusic stop what played; a kit repeats.
PlayMusic(p, channel) ==
    /\ Command /\ ~Plays("music", p, channel)
    /\ Retire(Stopped \union Voice("music"))
    /\ Renew("music", Load(p, channel))
    /\ repeat' = IF channel = "music" THEN p ELSE None
\* PlayGlueAmbience lets what played fade out.
PlayAmbience(p) ==
    /\ Command /\ ~Plays("ambience", p, "ambience")
    /\ active' = active \ Stopped /\ fading' = (fading \union Voice("ambience")) \ Stopped
    /\ refs' = Released(Stopped) /\ streams' = streams \ Ids(Stopped) /\ UNCHANGED tracks
    /\ Renew("ambience", Load(p, "ambience"))
    /\ UNCHANGED repeat

StopMusic ==
    /\ Command /\ Retire(Voice("music")) /\ Cancel(Loading("music"))
    /\ owners' = [owners EXCEPT !["music"] = None] /\ repeat' = None
    /\ UNCHANGED <<loads, queued, activeRead, decoding>>
StopAmbience ==
    /\ Command /\ Cancel(Loading("ambience")) /\ fading' = fading \union Voice("ambience")
    /\ owners' = [owners EXCEPT !["ambience"] = None]
    /\ UNCHANGED <<loads, active, refs, streams, tracks, queued, activeRead, decoding, repeat>>
\* fade_channel_out cancels what has not started.
StopEffects ==
    /\ Command /\ Cancel({l \in pending : l.channel = "effect"})
    /\ fading' = fading \union {v \in active : v.channel = "effect"}
    /\ UNCHANGED <<loads, active, refs, streams, tracks, queued, activeRead, decoding, owners, repeat>>
\* restart_output: every track stops and keeps its generation.
Restart ==
    /\ Command /\ Cancel(pending)
    /\ tracks' = [t \in Tracks |-> [tracks[t] EXCEPT !.playing = FALSE]]
    /\ UNCHANGED <<loads, active, fading, refs, streams, queued, activeRead, decoding, owners, repeat>>
\* The source that plays already is asked for again.
Repeated ==
    /\ Command /\ \E o \in Owners : owners[o] # None
    /\ UNCHANGED <<engine, loader, owners, repeat>>

-----------------------------------------------------------------------------
\* poll_loads.

\* advance_fades stops what has faded out.
AdvanceFades ==
    /\ at = "fades" /\ at' = "owners"
    /\ \E done \in SUBSET (fading \ Stopped) : Retire(Stopped \union done)
    /\ UNCHANGED <<loads, pending, loader, owners, repeat>>
CollectVoices == at = "owners" /\ at' = "read" /\ CollectOwners

\* A completion reaches the owner that still waits for this very reservation.
\* Defect: any owner that waits takes it.
Waits_Any(o, load) == owners[o] # None /\ ~owners[o].started
Waits(o, load) == owners[o] # None /\ owners[o].load = load
Complete(load, started) ==
    owners' = [o \in Owners |->
        IF ~Waits(o, load) THEN owners[o]
        ELSE IF started THEN [owners[o] EXCEPT !.started = TRUE] ELSE None]

\* A file that cannot be read gives its reservation up.
Unread(load) == Cancel({load})
\* RuntimeSoundLoader::poll: a read that has ended is kept for its decode, or fails.
FileReadEnds ==
    /\ at = "read"
    /\ IF activeRead # None /\ activeRead.state # "running"
       THEN /\ activeRead' = None
            /\ IF activeRead.state = "done"
               THEN /\ at' = "decode" /\ decoding' = activeRead.load
                    /\ UNCHANGED <<pending, jobs, owners>>
               ELSE /\ at' = "repeat" /\ Unread(activeRead.load) /\ Complete(activeRead.load, FALSE)
                    /\ UNCHANGED decoding
       ELSE at' = "decode" /\ UNCHANGED <<pending, activeRead, decoding, jobs, owners>>
    /\ UNCHANGED <<loads, active, fading, refs, streams, tracks, queued, repeat>>

Job == {j \in jobs : j.load = decoding /\ ~j.cancelled}
State == IF Job = {} THEN "none" ELSE (CHOOSE j \in Job : TRUE).state
\* Defect: the decode of a cancelled reservation is waited for.
Suppressed_Failed == decoding \in pending /\ State = "failed"
Suppressed == decoding \notin pending \/ State = "failed"
Kept == decoding.path \notin Streamed /\ refs[decoding.path] # None
Startable == decoding \in pending /\ (State = "done" \/ (State = "none" /\ Kept))

\* play_prepared takes the first track that does not play, or the weakest one (any,
\* here), and reports the generation it replaces.
\* Defect: a stopped track is taken without a report.
Replaced_Stolen(t) == {v \in active : v.id = tracks[t].voice /\ tracks[t].playing}
Replaced(t) == {v \in active : v.id = tracks[t].voice}
Free == {t \in Tracks : ~tracks[t].playing}
Candidates == IF Free = {} THEN Tracks ELSE {Min(Free)}

\* start_decoded_voice, with a resource already kept or admitted just now.
Retained(gone) == [Released(gone) EXCEPT ![decoding.path] =
    IF decoding.path \in Streamed THEN None ELSE IF @ = None THEN 1 ELSE @ + 1]
Start ==
    /\ at = "decode" /\ decoding # None /\ Startable /\ at' = "repeat" /\ decoding' = None
    /\ pending' = pending \ {decoding} /\ jobs' = jobs \ Job
    /\ \E t \in Candidates :
          \/ /\ active' = (active \ Replaced(t)) \union {decoding}
             /\ fading' = fading \ Replaced(t)
             /\ refs' = Retained(Replaced(t))
             /\ streams' = (streams \ Ids(Replaced(t)))
                               \union (IF decoding.path \in Streamed THEN {decoding.id} ELSE {})
             /\ tracks' = [tracks EXCEPT ![t] = [voice |-> decoding.id, playing |-> TRUE]]
             /\ Complete(decoding, TRUE)
          \* The output refuses, before or after it has stopped what played on the track.
          \/ /\ refs' = IF Kept \/ decoding.path \in Streamed THEN refs
                        ELSE [refs EXCEPT ![decoding.path] = 0]
             /\ tracks' \in {tracks, [tracks EXCEPT ![t].playing = FALSE]}
             /\ Complete(decoding, FALSE)
             /\ UNCHANGED <<active, fading, streams>>
    /\ UNCHANGED <<loads, queued, activeRead, repeat>>

\* A decode that failed, or a reservation cancelled since its file was read.
Suppress ==
    /\ at = "decode" /\ decoding # None /\ Suppressed
    /\ at' = "repeat" /\ decoding' = None
    /\ pending' = pending \ {decoding} /\ jobs' = jobs \ Job
    /\ Complete(decoding, FALSE)
    /\ UNCHANGED <<loads, active, fading, refs, streams, tracks, queued, activeRead, repeat>>

\* try_submit: the CPU pool may have no room, then the next frame tries again.
Decodes == decoding \in pending /\ State = "none" /\ ~Kept
SubmitDecode ==
    /\ at = "decode" /\ decoding # None /\ Decodes /\ at' = "repeat"
    /\ jobs' = jobs \union {[load |-> decoding, state |-> "running", cancelled |-> FALSE]}
    /\ UNCHANGED <<engine, queued, activeRead, decoding, owners, repeat>>
\* The queue without the cancelled reservations at its front.
Live == LET first == {i \in DOMAIN queued : queued[i] \in pending}
        IN  IF first = {} THEN <<>> ELSE SubSeq(queued, Min(first), Len(queued))
Reads == decoding = None /\ activeRead = None
SubmitRead ==
    /\ at = "decode" /\ Reads /\ Live # <<>> /\ at' = "repeat"
    /\ queued' = Tail(Live) /\ activeRead' = [load |-> Head(Live), state |-> "running"]
    /\ UNCHANGED <<engine, decoding, jobs, owners, repeat>>
Wait ==
    /\ at = "decode" /\ at' = "repeat"
    /\ decoding # None => ~(Startable \/ Suppressed)
    /\ queued' = IF Reads THEN Live ELSE queued
    /\ UNCHANGED <<engine, activeRead, decoding, jobs, owners, repeat>>

\* repeat_glue_music.
RepeatMusic ==
    /\ at = "repeat" /\ at' = "settings"
    /\ IF owners["music"] = None /\ repeat # None
       THEN Retire(Stopped) /\ Renew("music", Load(repeat, "music"))
       ELSE UNCHANGED <<engine, loader, owners>>
    /\ UNCHANGED repeat

-----------------------------------------------------------------------------
\* Outside the frame.

\* enter_world ends the music slowly and the ambience at once.
EnterWorld ==
    /\ at = "settings" /\ (\E o \in Owners : owners[o] # None) /\ UNCHANGED at
    /\ Cancel(Loading("music") \union Loading("ambience"))
    /\ active' = active \ Voice("ambience")
    /\ fading' = (fading \union Voice("music")) \ Voice("ambience")
    /\ refs' = Released(Voice("ambience")) /\ streams' = streams \ Ids(Voice("ambience"))
    /\ tracks' = [t \in Tracks |-> IF tracks[t].voice \in Ids(Voice("ambience"))
                                   THEN [tracks[t] EXCEPT !.playing = FALSE] ELSE tracks[t]]
    /\ owners' = [o \in Owners |-> None] /\ repeat' = None
    /\ UNCHANGED <<loads, queued, activeRead, decoding>>

\* shutdown stops the owners, cancels what the loader holds, joins its read and then
\* every cancelled decode.
\* Defect: a file read but not decoded keeps its reservation.
Held_Reads == ToSet(queued) \union (IF activeRead = None THEN {} ELSE {activeRead.load})
Held == Held_Reads \union (IF decoding = None THEN {} ELSE {decoding})
Shutdown ==
    /\ at = "settings" /\ at' = "joining"
    /\ Retire(Voice("music") \union Voice("ambience"))
    /\ Cancel(Held \union Loading("music") \union Loading("ambience"))
    /\ queued' = <<>> /\ decoding' = None
    /\ owners' = [o \in Owners |-> None] /\ repeat' = None
    /\ UNCHANGED <<loads, activeRead>>
Join ==
    /\ at = "joining" /\ at' = "draining" /\ (activeRead # None => activeRead.state # "running")
    /\ activeRead' = None
    /\ UNCHANGED <<engine, queued, decoding, jobs, owners, repeat>>
Drain ==
    /\ at = "draining" /\ at' = "down"
    /\ \A j \in jobs : j.cancelled => j.state # "running"
    /\ jobs' = {j \in jobs : ~j.cancelled}
    /\ UNCHANGED <<engine, queued, activeRead, decoding, owners, repeat>>

\* CPU workers.
EndRead ==
    /\ activeRead # None /\ activeRead.state = "running"
    /\ \E result \in {"done", "failed"} : activeRead' = [activeRead EXCEPT !.state = result]
    /\ UNCHANGED <<at, engine, queued, decoding, jobs, owners, repeat>>
EndDecode ==
    /\ \E j \in jobs : \E result \in {"done", "failed"} :
          /\ j.state = "running"
          /\ jobs' = (jobs \ {j}) \union {[j EXCEPT !.state = result]}
    /\ UNCHANGED <<at, engine, queued, activeRead, decoding, owners, repeat>>
\* The output plays a sound that does not loop to its end.
EndVoice ==
    /\ \E v \in active : v.channel \notin Loops /\ \E t \in Tracks :
          /\ tracks[t].voice = v.id /\ tracks[t].playing
          /\ tracks' = [tracks EXCEPT ![t].playing = FALSE]
    /\ UNCHANGED <<at, loads, pending, active, fading, refs, streams, loader, owners, repeat>>

Media ==
    \/ \E p \in Paths : PlayEffect(p) \/ PlayMusic(p, "music") \/ PlayMusic(p, "script")
                        \/ PlayAmbience(p)
    \/ StopMusic \/ StopAmbience \/ StopEffects \/ Restart \/ Repeated
Frame ==
    \/ Trim \/ Media \/ EndCommands \/ AdvanceFades \/ CollectVoices
    \/ FileReadEnds \/ Start \/ Suppress \/ SubmitDecode \/ SubmitRead \/ Wait \/ RepeatMusic
    \/ Join \/ Drain
SoundNext ==
    \/ Frame \/ BeginCommand \/ EnterWorld \/ Shutdown \/ EndRead \/ EndDecode \/ EndVoice

SoundSpec == SoundInit /\ [][SoundNext]_soundVars

\* The main loop runs, a frame has finitely many commands, workers end their jobs and
\* the pool has room now and then.
FairSoundSpec ==
    /\ SoundSpec /\ WF_soundVars(Frame) /\ SF_soundVars(EndCommands)
    /\ WF_soundVars(EndRead) /\ WF_soundVars(EndDecode)
    /\ SF_soundVars(SubmitRead) /\ SF_soundVars(SubmitDecode)

-----------------------------------------------------------------------------
\* Properties.

Phases == {"settings", "commands", "command", "fades", "owners", "read", "decode", "repeat",
            "joining", "draining", "down"}
\* Every variable has its type.
SoundTypeOK ==
    /\ at \in Phases /\ loads \in 0..MaxLoads
    /\ pending \subseteq Reservations /\ active \subseteq Reservations /\ fading \subseteq active
    /\ refs \in [Paths -> Nat \union {None}] /\ streams \subseteq 1..MaxLoads
    /\ tracks \in [Tracks -> [voice: 1..MaxLoads \union {None}, playing: BOOLEAN]]
    /\ queued \in Seq(Reservations) /\ decoding \in Reservations \union {None}
    /\ activeRead \in FileReads \union {None}
    /\ jobs \subseteq [load: Reservations, state: {"running", "done", "failed"}, cancelled: BOOLEAN]
    /\ owners \in [Owners -> Ownerships \union {None}]
    /\ repeat \in Paths \union {None}

\* Every reservation that counts against its channel is in the hands of the loader, at
\* exactly one of its stages: none is left that would never start nor end.  Once shut
\* down none is left, and no worker still reads archives or decodes through the mixer.
Stages(l) == Cardinality({i \in DOMAIN queued : queued[i] = l})
             + (IF activeRead # None /\ activeRead.load = l THEN 1 ELSE 0)
             + (IF decoding = l THEN 1 ELSE 0)
ReservationsServed ==
    /\ \A l \in pending : Stages(l) = 1
    /\ at = "down" => activeRead = None /\ jobs = {} /\ pending = {}

\* What voices hold is what is counted: a sample has as many references as voices, a
\* streamed voice its own resource, and the generation of every voice is still on a
\* track, however often voices end, fade, are stolen or restarted.
VoicesAccounted ==
    /\ \A v \in active : \E t \in Tracks : tracks[t].voice = v.id
    /\ streams = Ids({v \in active : v.path \in Streamed})
    /\ \A p \in Paths \ Streamed :
          LET voices == {v \in active : v.path = p}
          IN  IF refs[p] = None THEN voices = {} ELSE refs[p] = Cardinality(voices)

\* Music and ambience that play without end belong to their owner or are fading out: no
\* late completion starts a sound whose owner has turned to another.
OwnersHold ==
    \A v \in active : v.channel # "effect" /\ Playing(v) =>
        v \in fading \/ v \in Voice(OwnerOf[v.channel])

\* Every reservation starts its voice or is given up, whatever else is loading.
LoadsEnd == \A n \in 1..MaxLoads : n \in Ids(pending) ~> n \notin Ids(pending)
=============================================================================
