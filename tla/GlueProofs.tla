----------------------------- MODULE GlueProofs -----------------------------
(***************************************************************************)
(* Theorems about the login screens, for every value of the constants:     *)
(* about LoginCoordinator, for every number of logins and requests and     *)
(* every set of scenes, and about SoundLoading, for every number of        *)
(* tracks, reservations and sound files.                                   *)
(*                                                                         *)
(* LoginCoordinator: the realmd session is in exactly one place, the       *)
(* retained session or the task, and the place of the worker tells how far *)
(* its exchange has come.  Only the user's actions, the worker and the     *)
(* poll move it; scenes and realmd leave it alone.                         *)
(*                                                                         *)
(* SoundLoading: a step does something to the voices (Silences), to the    *)
(* loader (LoaderStep) and to the owners, and the invariant is kept when   *)
(* each of the three is (StepKept).  Only a voice that starts relates them *)
(* otherwise.                                                              *)
(***************************************************************************)
EXTENDS LoginCoordinator, SoundLoading, TLAPS, FiniteSetTheorems, SequenceTheorems,
        WellFoundedInduction


\* One task at a time, and its result is in the channel exactly when its worker
\* has ended; nobody else holds a session meanwhile.
OwnerInv ==
    /\ task = "none" => worker = "idle" /\ outcome = Nothing /\ ~stopping
    /\ task # "none" => ~authenticated /\ (worker = "idle" <=> outcome # Nothing)
    /\ task # "none" \/ authenticated => logins > 0

\* How far the exchange on the stream has come, for each place of the worker.
\* Between a cancelled query and the next login the stream may hold answers
\* nobody reads.
ExchangeInv ==
    /\ torn => cancels
    /\ task = "login" \/ worker = "connecting" => ~cancels
    /\ outcome = "cancelled" => cancels
    /\ worker = "connecting" => requests = 0
    /\ worker = "reading" => consumed < answered
    /\ ~cancels => /\ worker = "request" => consumed = requests
                   /\ worker \in {"waiting", "reading"} => consumed + 1 = requests

LoginInv == TypeOK /\ OwnerInv /\ ExchangeInv /\ StreamInStep

\* The flags hold truth values.  (What follows reasons with them; that they are
\* Boolean is shown apart, because the arithmetic prover cannot.)
Flags ==
    /\ canCancel \in BOOLEAN /\ stopping \in BOOLEAN
    /\ authenticated \in BOOLEAN
    /\ torn \in BOOLEAN /\ realmdOpen \in BOOLEAN /\ cancels \in BOOLEAN
    /\ prewarm \in BOOLEAN /\ published \in BOOLEAN

\* The flags are booleans at the start,
LEMMA InitFlags == Init => Flags
BY Zenon DEF Init, Flags

\* and every step leaves them so.
LEMMA StepFlags ==
    ASSUME Flags, [Next]_vars
    PROVE  Flags'
<1> USE DEF Flags, sessionVars, streamVars, taskVars, glueVars
<1>1. CASE Login
  BY <1>1, Zenon DEF Login, Spawn, FreshStream, PublishFailure
<1>2. CASE CancelLogin \/ CloseRealmList \/ Disconnect
  BY <1>2, Zenon DEF CancelLogin, CloseRealmList, Disconnect, DropLogin, Abort
<1>3. CASE StatusDialogClick
  BY <1>3, Zenon DEF StatusDialogClick, TakeCancellation, Abort
<1>4. ASSUME NEW showDialog \in BOOLEAN, RequestRealmList(showDialog)
      PROVE  Flags'
  BY <1>4, Zenon DEF RequestRealmList, Spawn, PublishFailure
<1>5. CASE CancelRealmListQuery \/ ChangeRealm
  BY <1>5, Zenon DEF CancelRealmListQuery, ChangeRealm, TakeCancellation
<1>6. CASE Worker
  BY <1>6, Zenon DEF Worker, Authenticate, WorkerFails, WriteRequest, BeginRead, FinishRead,
     ObserveCancel, Finish
<1>7. CASE PollFinished
  BY <1>7, Zenon DEF PollFinished, Abort, PublishFailure
<1>8. CASE PollAuthenticated \/ RealmdAnswers \/ RealmdCloses
  BY <1>8, Zenon DEF PollAuthenticated, RealmdAnswers, RealmdCloses
<1>9. ASSUME NEW spare \in BOOLEAN, PrewarmFrame(spare)
      PROVE  Flags'
  BY <1>9, Zenon DEF PrewarmFrame
<1>10. CASE Jobs \/ UNCHANGED vars \/ \E room \in BOOLEAN : ScreenFrame(room)
  BY <1>10, Zenon DEF Jobs, ScreenFrame, vars, loginVars
<1> QED BY <1>1, <1>2, <1>3, <1>4, <1>5, <1>6, <1>7, <1>8, <1>9, <1>10, Zenon
        DEF Next, Glue, Poll

\* The client starts with the strengthened invariant.
LEMMA InitInv == Init => LoginInv
BY LoginAssumption, InitFlags
   DEF Init, Flags, LoginInv, TypeOK, OwnerInv, ExchangeInv, StreamInStep, Nothing, Busy

\* What LoginInv says of them does not depend on the scenes.
LEMMA GlueKeepsInv ==
    ASSUME LoginInv, Flags', Glue
    PROVE  LoginInv'
<1> USE LoginAssumption
    DEF Flags, LoginInv, TypeOK, OwnerInv, ExchangeInv, StreamInStep, Nothing, Busy,
        sessionVars, streamVars, taskVars, glueVars
<1>1. CASE Login
  BY <1>1 DEF Login, Spawn, FreshStream, PublishFailure
<1>2. CASE CancelLogin
  BY <1>2 DEF CancelLogin, Abort
<1>3. CASE StatusDialogClick
  <2>1. CASE CanStop \/ task = "none"
    BY <1>3, <2>1 DEF StatusDialogClick, TakeCancellation, CanStop
  <2>2. CASE ~(CanStop \/ task = "none")
    BY <1>3, <2>2 DEF StatusDialogClick, Abort
  <2> QED BY <2>1, <2>2
<1>4. ASSUME NEW showDialog \in BOOLEAN, RequestRealmList(showDialog)
      PROVE  LoginInv'
  BY <1>4 DEF RequestRealmList, Spawn, PublishFailure
<1>5. CASE CancelRealmListQuery
  BY <1>5 DEF CancelRealmListQuery, TakeCancellation, CanStop
<1>6. CASE ChangeRealm
  BY <1>6 DEF ChangeRealm, TakeCancellation, CanStop
<1>7. CASE CloseRealmList
  BY <1>7 DEF CloseRealmList, DropLogin, Abort
<1>8. CASE Disconnect
  BY <1>8 DEF Disconnect, DropLogin, Abort
<1> QED BY <1>1, <1>2, <1>3, <1>4, <1>5, <1>6, <1>7, <1>8 DEF Glue

\* Steps of the worker keep the strengthened invariant.
LEMMA WorkerKeepsInv ==
    ASSUME LoginInv, Flags', Worker
    PROVE  LoginInv'
<1> USE LoginAssumption
    DEF Flags, LoginInv, TypeOK, OwnerInv, ExchangeInv, StreamInStep, Nothing, Busy,
        sessionVars, streamVars, taskVars, glueVars
<1>1. CASE Authenticate
  BY <1>1 DEF Authenticate
<1>2. CASE WorkerFails
  BY <1>2 DEF WorkerFails, Finish
<1>3. CASE WriteRequest
  BY <1>3 DEF WriteRequest
<1>4. CASE BeginRead
  BY <1>4 DEF BeginRead
<1>5. CASE FinishRead
  BY <1>5 DEF FinishRead, Finish
<1>6. CASE ObserveCancel
  BY <1>6 DEF ObserveCancel, Finish
<1> QED BY <1>1, <1>2, <1>3, <1>4, <1>5, <1>6 DEF Worker

\* So does the poll that takes its result,
LEMMA PollKeepsInv ==
    ASSUME LoginInv, Flags', Poll
    PROVE  LoginInv'
<1> USE LoginAssumption
    DEF Flags, LoginInv, TypeOK, OwnerInv, ExchangeInv, StreamInStep, Nothing, Busy,
        sessionVars, streamVars, taskVars, glueVars
<1>1. CASE PollFinished
  BY <1>1 DEF PollFinished, Abort, PublishFailure, BeginPendingWorld
<1>2. CASE PollAuthenticated
  BY <1>2 DEF PollAuthenticated
<1> QED BY <1>1, <1>2 DEF Poll

\* realmd, which answers or hangs up,
LEMMA RealmdKeepsInv ==
    ASSUME LoginInv, Flags', RealmdAnswers \/ RealmdCloses
    PROVE  LoginInv'
BY LoginAssumption
   DEF Flags, LoginInv, TypeOK, OwnerInv, ExchangeInv, StreamInStep, Nothing, Busy,
       sessionVars, streamVars, taskVars, glueVars, RealmdAnswers, RealmdCloses

\* and what the frame does besides.
LEMMA FramesKeepInv ==
    ASSUME LoginInv, Flags',
           \/ Jobs \/ UNCHANGED vars
           \/ \E spare \in BOOLEAN : PrewarmFrame(spare)
           \/ \E room \in BOOLEAN : ScreenFrame(room)
    PROVE  LoginInv'
<1> USE DEF Flags, LoginInv, TypeOK, OwnerInv, ExchangeInv, StreamInStep,
            sessionVars, streamVars, taskVars, glueVars
<1>1. CASE Jobs \/ UNCHANGED vars \/ \E room \in BOOLEAN : ScreenFrame(room)
  <2>1. UNCHANGED loginVars
    BY <1>1 DEF Jobs, ScreenFrame, vars
  <2> QED BY <2>1 DEF loginVars
<1>2. ASSUME NEW spare \in BOOLEAN, PrewarmFrame(spare)
      PROVE  LoginInv'
  BY <1>2 DEF PrewarmFrame
<1> QED BY <1>1, <1>2

\* The session is accounted for in every reachable state, whatever the user
\* asks for while a task runs or a cancelled query settles.
THEOREM LoginInvariant == Spec => []LoginInv
<1>1. LoginInv /\ [Next]_vars => LoginInv'
  <2>1. LoginInv => Flags
    BY DEF LoginInv, TypeOK, Flags
  <2> QED
    BY <2>1, StepFlags, GlueKeepsInv, WorkerKeepsInv, PollKeepsInv, RealmdKeepsInv,
       FramesKeepInv DEF Next
<1> QED BY InitInv, <1>1, PTL DEF Spec

\* The types and the counters of the stream: realmd answers no request twice,
\* and no answer is read before it was sent (grunt_login.rs).
THEOREM TypeCorrect == Spec => []TypeOK
<1>1. LoginInv => TypeOK
  BY DEF LoginInv
<1> QED BY <1>1, LoginInvariant, PTL

\* The main thread never keeps a session whose stream a worker is using
\* (login_coordinator.rs refresh_realms).
THEOREM StreamOwned == Spec => []OneStreamOwner
<1>1. LoginInv => OneStreamOwner
  BY DEF LoginInv, OwnerInv, OneStreamOwner
<1> QED BY <1>1, LoginInvariant, PTL

\* Until a query is cancelled, a session between two exchanges has no answer
\* left to read and shows the rows of its last request.  Of the stream behind
\* a cancelled query, which is dropped wherever it stands, even in the middle
\* of an answer (login_coordinator.rs:415-420), nothing is promised.
THEOREM ExchangesInStep == Spec => []StreamInStep
<1>1. LoginInv => StreamInStep
  BY DEF LoginInv
<1> QED BY <1>1, LoginInvariant, PTL

-----------------------------------------------------------------------------
(* SoundLoading.                                                           *)

\* A reservation is somewhere in the loader.
Staged(l) ==
    \/ \E i \in 1..Len(queued) : queued[i] = l
    \/ activeRead # None /\ activeRead.load = l
    \/ decoding = l

\* The loader's stages are disjoint, and what is there plays not yet.
LoaderInv ==
    /\ activeRead = None \/ decoding = None
    /\ \A i, j \in 1..Len(queued) : queued[i] = queued[j] => i = j
    /\ \A i \in 1..Len(queued) :
          queued[i] # decoding /\ (activeRead # None => queued[i] # activeRead.load)
    /\ \A l \in Reservations : Staged(l) => l \notin active /\ l.id <= loads
    /\ \A l \in pending : Staged(l)

\* Generations are not used twice.
VoicesInv ==
    /\ IsFiniteSet(active)
    /\ \A v, w \in active \union pending : v.id = w.id => v = w
    /\ \A v \in active \union pending : v.id <= loads
    /\ VoicesAccounted
    /\ \A p \in Streamed : refs[p] = None

\* A decode nobody has cancelled is waited for.
JobsInv == \A j \in jobs : ~j.cancelled => j.load \in pending

\* What is reserved for music or ambience is what its owner waits for.
ReservedInv ==
    \A l \in pending : l.channel # "effect" =>
        owners[OwnerOf[l.channel]] = [load |-> l, started |-> FALSE]

PhaseInv ==
    /\ at \in {"joining", "draining", "down"} => pending = {} /\ decoding = None /\ queued = <<>>
    /\ at \in {"draining", "down"} => activeRead = None
    /\ at = "down" => jobs = {}

SoundInv ==
    /\ SoundTypeOK /\ LoaderInv /\ VoicesInv /\ JobsInv /\ ReservedInv /\ OwnersHold /\ PhaseInv

-----------------------------------------------------------------------------
(* What voices hold.                                                       *)

\* A set of natural numbers that is not empty has a least member.
LEMMA MinFacts ==
    ASSUME NEW S \in SUBSET Nat, S # {}
    PROVE  Min(S) \in S /\ \A y \in S : Min(S) <= y
<1>1. \E x \in S : \A y \in S : ~ (<<y, x>> \in OpToRel(<, Nat))
  BY NatLessThanWellFounded, WFMin
<1>2. \E x \in S : \A y \in S : x <= y
  <2>1. PICK x \in S : \A y \in S : ~ (<<y, x>> \in OpToRel(<, Nat))
    BY <1>1
  <2>2. \A y \in S : ~ (y < x)
    BY <2>1 DEF OpToRel
  <2> QED BY <2>2
<1> QED BY <1>2 DEF Min

\* Voices of a sample that go are no longer counted.
LEMMA ReleasedFacts ==
    ASSUME SoundTypeOK, VoicesInv, NEW gone \in SUBSET active
    PROVE  /\ Released(gone) \in [Paths -> Nat \union {None}]
           /\ \A p \in Paths : Released(gone)[p] = None <=> refs[p] = None
           /\ \A p \in Paths \ Streamed : refs[p] = None =>
                 {v \in active \ gone : v.path = p} = {}
           /\ \A p \in Paths \ Streamed : refs[p] # None =>
                 Released(gone)[p] = Cardinality({v \in active \ gone : v.path = p})
           /\ \A p \in Paths : refs[p] # None => p \notin Streamed
<1>1. \A p \in Paths : refs[p] # None => p \notin Streamed
  BY DEF VoicesInv
<1>2. ASSUME NEW p \in Paths, refs[p] # None
      PROVE  /\ Released(gone)[p] \in Nat
             /\ Released(gone)[p] = Cardinality({v \in active \ gone : v.path = p})
  <2> DEFINE here == {v \in active : v.path = p}
             going == {v \in gone : v.path = p}
             staying == {v \in active \ gone : v.path = p}
  <2>1. refs[p] = Cardinality(here) /\ IsFiniteSet(active)
    BY <1>1, <1>2 DEF VoicesInv, VoicesAccounted
  <2>2. IsFiniteSet(going) /\ IsFiniteSet(staying)
    <3>1. going \subseteq active /\ staying \subseteq active
      OBVIOUS
    <3> QED BY <2>1, <3>1, FS_Subset
  <2>3. here = going \union staying /\ going \intersect staying = {}
    OBVIOUS
  <2>4. Cardinality(going) \in Nat /\ Cardinality(staying) \in Nat
    BY <2>2, FS_CardinalityType
  <2>5. Cardinality(here) = Cardinality(going) + Cardinality(staying)
    <3>1. Cardinality(going \union staying)
            = Cardinality(going) + Cardinality(staying) - Cardinality(going \intersect staying)
      BY <2>2, FS_Union
    <3>2. Cardinality(going \intersect staying) = 0
      BY <2>3, FS_EmptySet
    <3> QED BY <2>3, <2>4, <3>1, <3>2
  <2>6. Released(gone)[p] = refs[p] - Cardinality(going)
    BY <1>2 DEF Released
  <2> HIDE DEF here, going
  <2> QED BY <2>1, <2>4, <2>5, <2>6
<1>3. \A p \in Paths : refs[p] = None => Released(gone)[p] = None
  BY DEF Released
<1>4. Released(gone) \in [Paths -> Nat \union {None}]
  <2>1. Released(gone) = [p \in Paths |-> Released(gone)[p]]
    BY DEF Released
  <2>2. \A p \in Paths : Released(gone)[p] \in Nat \union {None}
    BY <1>2, <1>3
  <2> QED BY <2>1, <2>2
<1>5. \A p \in Paths \ Streamed : refs[p] = None => {v \in active \ gone : v.path = p} = {}
  BY DEF VoicesInv, VoicesAccounted
<1> QED BY <1>1, <1>2, <1>3, <1>4, <1>5, SilenceAssumption

\* When no voice goes, every count stays.
LEMMA ReleasedNone ==
    ASSUME SoundTypeOK, VoicesInv
    PROVE  Released({}) = refs
<1>1. \A p \in Paths : Released({})[p] = refs[p]
  <2> SUFFICES ASSUME NEW p \in Paths, refs[p] # None PROVE Released({})[p] = refs[p]
    BY DEF Released
  <2>1. {v \in {} : v.path = p} = {} /\ refs[p] \in Nat
    BY DEF SoundTypeOK
  <2>2. Cardinality({v \in {} : v.path = p}) = 0
    BY <2>1, FS_EmptySet
  <2>3. Released({})[p] = refs[p] - Cardinality({v \in {} : v.path = p})
    BY DEF Released
  <2> QED BY <2>1, <2>2, <2>3
<1> QED BY <1>1 DEF Released, SoundTypeOK

\* The reservations of a step: at most one, with a generation of its own.
NewIds ==
    \/ pending' \subseteq pending /\ loads' = loads
    \/ \E l \in Reservations : /\ pending' \subseteq pending \union {l}
                               /\ l.id = loads + 1 /\ loads' = loads + 1

\* Voices go with what they hold; no track gets another voice; no sample is dropped
\* that is in use.
Silences(gone) ==
    /\ active' = active \ gone /\ fading' \subseteq active' /\ fading \ gone \subseteq fading'
    /\ refs' \in [Paths -> Nat \union {None}]
    /\ \A p \in Paths : refs'[p] = Released(gone)[p]
                        \/ (refs'[p] = None /\ p \notin Streamed /\ Released(gone)[p] = 0)
                        \/ (refs'[p] = 0 /\ p \notin Streamed /\ Released(gone)[p] = None)
    /\ streams' = streams \ Ids(gone)
    /\ tracks' \in [Tracks -> [voice: 1..MaxLoads \union {None}, playing: BOOLEAN]]
    /\ \A t \in Tracks : tracks'[t].voice = tracks[t].voice /\ (tracks'[t].playing => tracks[t].playing)

\* A generation given to a new reservation is nobody's.
LEMMA UniqueIds ==
    ASSUME SoundTypeOK, VoicesInv, NewIds, active' \subseteq active
    PROVE  /\ \A v, w \in active' \union pending' : v.id = w.id => v = w
           /\ \A v \in active' \union pending' : v.id <= loads'
<1>1. loads \in Nat /\ \A v \in active \union pending : v.id \in Nat /\ v.id <= loads
  BY SoundAssumption DEF SoundTypeOK, VoicesInv, Reservations
<1>2. CASE pending' \subseteq pending /\ loads' = loads
  BY <1>1, <1>2 DEF VoicesInv
<1>3. CASE \E l \in Reservations : /\ pending' \subseteq pending \union {l}
                                   /\ l.id = loads + 1 /\ loads' = loads + 1
  <2>1. PICK l \in Reservations : /\ pending' \subseteq pending \union {l}
                                  /\ l.id = loads + 1 /\ loads' = loads + 1
    BY <1>3
  <2>2. \A v \in active' \union pending' : v = l \/ (v \in active \union pending /\ v.id # l.id)
    BY <1>1, <2>1
  <2> QED BY <1>1, <2>1, <2>2 DEF VoicesInv
<1> QED BY <1>2, <1>3 DEF NewIds

\* Steps that end voices keep their accounts.
LEMMA VoicesKept ==
    ASSUME SoundTypeOK, VoicesInv, NEW gone \in SUBSET active, Silences(gone), NewIds
    PROVE  VoicesInv'
<1>1. active' \subseteq active /\ IsFiniteSet(active')
  BY FS_Subset DEF Silences, VoicesInv
<1>2. /\ \A v, w \in active' \union pending' : v.id = w.id => v = w
      /\ \A v \in active' \union pending' : v.id <= loads'
  BY <1>1, UniqueIds
<1>3. \A v \in active' : \E t \in Tracks : tracks'[t].voice = v.id
  BY <1>1 DEF VoicesInv, VoicesAccounted, Silences
<1>4. streams' = Ids({v \in active' : v.path \in Streamed})
  <2>1. /\ streams = {v.id : v \in {w \in active : w.path \in Streamed}}
        /\ streams' = streams \ {v.id : v \in gone} /\ active' = active \ gone
        /\ \A v, w \in active : v.id = w.id => v = w
    BY DEF VoicesInv, VoicesAccounted, Silences, Ids
  <2> QED BY <2>1 DEF Ids
<1>5. ASSUME NEW p \in Paths \ Streamed
      PROVE  IF refs'[p] = None THEN {v \in active' : v.path = p} = {}
             ELSE refs'[p] = Cardinality({v \in active' : v.path = p})
  <2> DEFINE voices == {v \in active \ gone : v.path = p}
  <2>1. {v \in active' : v.path = p} = voices
    BY DEF Silences
  <2>2. /\ refs[p] = None => Released(gone)[p] = None /\ voices = {}
        /\ refs[p] # None => Released(gone)[p] # None /\ Released(gone)[p] = Cardinality(voices)
    BY ReleasedFacts
  <2>3. IsFiniteSet(voices)
    <3>1. voices \subseteq active
      OBVIOUS
    <3> QED BY <3>1, FS_Subset DEF VoicesInv
  <2>4. Cardinality(voices) = 0 <=> voices = {}
    BY <2>3, FS_EmptySet
  <2>5. \/ refs'[p] = Released(gone)[p]
        \/ refs'[p] = None /\ Released(gone)[p] = 0
        \/ refs'[p] = 0 /\ Released(gone)[p] = None
    BY DEF Silences
  <2>6. 0 # None
    BY SilenceAssumption
  <2> HIDE DEF voices
  <2> QED BY <2>1, <2>2, <2>4, <2>5, <2>6
<1>6. \A p \in Streamed : refs'[p] = None
  BY ReleasedFacts, SoundAssumption DEF VoicesInv, Silences
<1> QED BY <1>1, <1>2, <1>3, <1>4, <1>5, <1>6 DEF VoicesInv, VoicesAccounted

-----------------------------------------------------------------------------
(* Steps that end voices.                                                  *)

\* The type invariant, by the parts of the system.
LoaderTypes ==
    /\ loads \in 0..MaxLoads /\ pending \subseteq Reservations /\ queued \in Seq(Reservations)
    /\ decoding \in Reservations \union {None} /\ activeRead \in FileReads \union {None}
    /\ jobs \subseteq [load: Reservations, state: {"running", "done", "failed"}, cancelled: BOOLEAN]
VoiceTypes ==
    /\ active \subseteq Reservations /\ fading \subseteq active
    /\ refs \in [Paths -> Nat \union {None}] /\ streams \subseteq 1..MaxLoads
    /\ tracks \in [Tracks -> [voice: 1..MaxLoads \union {None}, playing: BOOLEAN]]
OwnerTypes ==
    owners \in [Owners -> Ownerships \union {None}] /\ repeat \in Paths \union {None}

\* The type invariant is that of its parts.
LEMMA SoundTypeParts ==
    SoundTypeOK <=> at \in Phases /\ LoaderTypes /\ VoiceTypes /\ OwnerTypes
BY DEF SoundTypeOK, LoaderTypes, VoiceTypes, OwnerTypes

\* Voices that end keep the types of the engine.
LEMMA SilencedTypes ==
    ASSUME VoiceTypes, NEW gone \in SUBSET active, Silences(gone)
    PROVE  VoiceTypes' /\ active' \subseteq active
BY DEF VoiceTypes, Silences

\* Nothing changes but that tracks stop and voices begin to fade.
LEMMA StopSilences ==
    ASSUME SoundTypeOK, VoicesInv,
           active' = active, fading \subseteq fading', fading' \subseteq active,
           refs' = refs, streams' = streams,
           tracks' \in [Tracks -> [voice: 1..MaxLoads \union {None}, playing: BOOLEAN]],
           \A t \in Tracks : /\ tracks'[t].voice = tracks[t].voice
                             /\ tracks'[t].playing => tracks[t].playing
    PROVE  Silences({})
<1>1. Released({}) = refs
  BY ReleasedNone
<1>2. Ids({}) = {}
  BY DEF Ids
<1> QED BY <1>1, <1>2 DEF Silences, SoundTypeOK

\* Tracks left alone have their type and play what they played.
LEMMA SameTracks ==
    ASSUME SoundTypeOK, tracks' = tracks
    PROVE  /\ tracks' \in [Tracks -> [voice: 1..MaxLoads \union {None}, playing: BOOLEAN]]
           /\ \A t \in Tracks : /\ tracks'[t].voice = tracks[t].voice
                                /\ tracks'[t].playing => tracks[t].playing
BY DEF SoundTypeOK

\* stop and its collections, with the voices that begin to fade.
LEMMA StoppedTracks ==
    ASSUME SoundTypeOK, NEW gone \in SUBSET active,
           tracks' = [t \in Tracks |-> IF tracks[t].voice \in Ids(gone)
                                       THEN [tracks[t] EXCEPT !.playing = FALSE] ELSE tracks[t]]
    PROVE  /\ tracks' \in [Tracks -> [voice: 1..MaxLoads \union {None}, playing: BOOLEAN]]
           /\ \A t \in Tracks : /\ tracks'[t].voice = tracks[t].voice
                                /\ tracks'[t].playing => tracks[t].playing
<1>1. \A t \in Tracks : tracks[t] \in [voice: 1..MaxLoads \union {None}, playing: BOOLEAN]
  BY DEF SoundTypeOK
<1>2. \A t \in Tracks : tracks'[t] = IF tracks[t].voice \in Ids(gone)
                                     THEN [tracks[t] EXCEPT !.playing = FALSE] ELSE tracks[t]
  OBVIOUS
<1>3. \A t \in Tracks : /\ tracks'[t] \in [voice: 1..MaxLoads \union {None}, playing: BOOLEAN]
                        /\ tracks'[t].voice = tracks[t].voice
                        /\ tracks'[t].playing => tracks[t].playing
  BY <1>1, <1>2
<1> QED BY <1>3

\* Voices whose resources are released have ended, whatever begins to fade.
LEMMA ReleaseSilences ==
    ASSUME SoundTypeOK, VoicesInv, NEW gone \in SUBSET active,
           active' = active \ gone, fading' \subseteq active', fading \ gone \subseteq fading',
           refs' = Released(gone), streams' = streams \ Ids(gone),
           tracks' \in [Tracks -> [voice: 1..MaxLoads \union {None}, playing: BOOLEAN]],
           \A t \in Tracks : /\ tracks'[t].voice = tracks[t].voice
                             /\ tracks'[t].playing => tracks[t].playing
    PROVE  Silences(gone)
BY ReleasedFacts DEF Silences

\* stop ends the voices it stops.
LEMMA RetireSilences ==
    ASSUME SoundTypeOK, VoicesInv, NEW gone \in SUBSET active, Retire(gone)
    PROVE  Silences(gone)
<1>1. /\ tracks' \in [Tracks -> [voice: 1..MaxLoads \union {None}, playing: BOOLEAN]]
      /\ \A t \in Tracks : /\ tracks'[t].voice = tracks[t].voice
                           /\ tracks'[t].playing => tracks[t].playing
  BY StoppedTracks DEF Retire
<1>2. fading \subseteq active
  BY DEF SoundTypeOK
<1> QED BY <1>1, <1>2, ReleaseSilences DEF Retire

-----------------------------------------------------------------------------
(* Steps of the loader.                                                    *)

\* What every step of the loader keeps, once the step's voices are over.
LoaderOK == LoaderTypes /\ LoaderInv /\ JobsInv
LoaderStep == LoaderOK' /\ NewIds

\* A step that leaves the loader alone keeps it in order.
LEMMA SameLoader ==
    ASSUME LoaderOK, active' \subseteq active, UNCHANGED <<loads, pending, loader>>
    PROVE  LoaderStep
BY DEF LoaderOK, LoaderStep, LoaderTypes, LoaderInv, Staged, JobsInv, NewIds, loader

\* cancel_load marks decodes and adds none.
LEMMA CancelledFacts ==
    ASSUME LoaderTypes, NEW gone
    PROVE  /\ Cancelled(gone) \subseteq
                 [load: Reservations, state: {"running", "done", "failed"}, cancelled: BOOLEAN]
           /\ \A j \in Cancelled(gone) : ~j.cancelled => j \in jobs /\ j.load \notin gone
BY DEF LoaderTypes, Cancelled

\* Cancelled reservations leave the loader in order; their stages stay behind.
LEMMA CancelLoader ==
    ASSUME LoaderOK, NEW gone, Cancel(gone), active' \subseteq active,
           UNCHANGED <<loads, queued, activeRead, decoding>>
    PROVE  LoaderStep
<1>1. pending' = pending \ gone /\ jobs' = Cancelled(gone \intersect pending)
  BY DEF Cancel
<1>2. /\ jobs' \subseteq [load: Reservations, state: {"running", "done", "failed"}, cancelled: BOOLEAN]
      /\ \A j \in jobs' : ~j.cancelled => j \in jobs /\ j.load \notin gone \intersect pending
  BY <1>1, CancelledFacts DEF LoaderOK
<1>3. LoaderTypes'
  BY <1>1, <1>2 DEF LoaderOK, LoaderTypes
<1>4. LoaderInv'
  BY <1>1 DEF LoaderOK, LoaderInv, Staged
<1>5. JobsInv'
  BY <1>1, <1>2 DEF LoaderOK, JobsInv
<1> QED BY <1>1, <1>3, <1>4, <1>5 DEF LoaderStep, LoaderOK, NewIds

\* A reservation has the next generation.
LEMMA LoadFacts ==
    ASSUME LoaderTypes, NEW p \in Paths, NEW c \in Channels, loads < MaxLoads
    PROVE  /\ Load(p, c) \in Reservations /\ Load(p, c).id = loads + 1
           /\ Load(p, c).path = p /\ Load(p, c).channel = c
BY SoundAssumption DEF LoaderTypes, Load, Reservations

\* A new reservation joins the queue, and those it replaces are cancelled.
LEMMA ReserveLoader ==
    ASSUME LoaderOK, VoiceTypes, VoicesInv, NEW p \in Paths, NEW c \in Channels, NEW old,
           Reserve(Load(p, c), old), active' \subseteq active
    PROVE  LoaderStep
<1> PICK load : load = Load(p, c)
  OBVIOUS
<1>1. /\ loads < MaxLoads /\ loads' = loads + 1 /\ pending' = (pending \ old) \union {load}
      /\ queued' = Append(queued, load) /\ jobs' = Cancelled(old \intersect pending)
      /\ activeRead' = activeRead /\ decoding' = decoding
  BY DEF Reserve
<1>2. load \in Reservations /\ load.id = loads + 1
  BY <1>1, LoadFacts DEF LoaderOK
<1>3. /\ jobs' \subseteq [load: Reservations, state: {"running", "done", "failed"}, cancelled: BOOLEAN]
      /\ \A j \in jobs' : ~j.cancelled => j \in jobs /\ j.load \notin old \intersect pending
  BY <1>1, CancelledFacts DEF LoaderOK
<1>4. loads \in Nat /\ MaxLoads \in Nat /\ loads' \in 0..MaxLoads
  BY <1>1, SoundAssumption DEF LoaderOK, LoaderTypes
<1>5. /\ queued' \in Seq(Reservations) /\ Len(queued') = Len(queued) + 1 /\ Len(queued) \in Nat
      /\ \A i \in 1..Len(queued) : queued'[i] = queued[i]
      /\ queued'[Len(queued) + 1] = load
  BY <1>1, <1>2 DEF LoaderOK, LoaderTypes
<1>6. LoaderTypes'
  BY <1>1, <1>2, <1>3, <1>4, <1>5 DEF LoaderOK, LoaderTypes
<1>7. \A l \in Reservations : l.id \in Nat
  BY DEF Reservations
<1>8. ~Staged(load) /\ load \notin active
  <2>1. ~(load.id <= loads)
    BY <1>2, <1>4
  <2> QED BY <1>2, <2>1 DEF LoaderOK, LoaderInv, VoicesInv
<1>9. \A i \in 1..Len(queued') : \/ i \in 1..Len(queued) /\ queued'[i] = queued[i]
                                 \/ i = Len(queued) + 1 /\ queued'[i] = load
  BY <1>5
<1>10. \A i \in 1..Len(queued) : queued[i] # load
  BY <1>8 DEF Staged
<1>11. \A i, j \in 1..Len(queued') : queued'[i] = queued'[j] => i = j
  BY <1>9, <1>10 DEF LoaderOK, LoaderInv
<1>12. \A i \in 1..Len(queued') :
          queued'[i] # decoding' /\ (activeRead' # None => queued'[i] # activeRead'.load)
  BY <1>1, <1>8, <1>9 DEF LoaderOK, LoaderInv, Staged
<1>13. \A l \in Reservations : Staged(l)' => Staged(l) \/ l = load
  BY <1>1, <1>9 DEF Staged
<1>14. \A l \in Reservations : Staged(l)' => l \notin active' /\ l.id <= loads'
  BY <1>1, <1>2, <1>4, <1>7, <1>8, <1>13 DEF LoaderOK, LoaderInv
<1>15. \A l \in pending' : Staged(l)'
  <2>1. \A l \in pending : Staged(l)
    BY DEF LoaderOK, LoaderInv
  <2>2. ASSUME NEW l, Staged(l) PROVE Staged(l)'
    <3>1. ASSUME NEW i \in 1..Len(queued), queued[i] = l
          PROVE  \E k \in 1..Len(queued') : queued'[k] = l
      BY <1>5, <3>1
    <3> QED BY <1>1, <2>2, <3>1 DEF Staged
  <2>3. Staged(load)'
    <3>1. Len(queued) + 1 \in 1..Len(queued')
      BY <1>5
    <3> QED BY <1>5, <3>1 DEF Staged
  <2> QED BY <1>1, <2>1, <2>2, <2>3
<1>16. LoaderInv'
  <2>1. activeRead' = None \/ decoding' = None
    BY <1>1 DEF LoaderOK, LoaderInv
  <2> QED BY <2>1, <1>11, <1>12, <1>14, <1>15 DEF LoaderInv
<1>17. JobsInv'
  BY <1>1, <1>3 DEF LoaderOK, JobsInv
<1>18. NewIds
  BY <1>1, <1>2 DEF NewIds
<1> QED BY <1>6, <1>16, <1>17, <1>18 DEF LoaderStep, LoaderOK

\* poll_load ends with the reservation: its voice starts, or it is given up.
LEMMA DecodingEnds ==
    ASSUME LoaderOK, decoding # None, decoding' = None,
           pending' = pending \ {decoding}, jobs' = jobs \ Job,
           UNCHANGED <<loads, queued, activeRead>>, active' \subseteq active \union {decoding}
    PROVE  LoaderStep
<1>1. LoaderTypes'
  BY DEF LoaderOK, LoaderTypes
<1>2. activeRead = None
  BY DEF LoaderOK, LoaderInv
<1>3. \A l \in Reservations : Staged(l)' => Staged(l) /\ l # decoding
  <2>1. None \notin Reservations
    BY SilenceAssumption
  <2> QED BY <1>2, <2>1 DEF LoaderOK, LoaderInv, Staged
<1>4. \A l : Staged(l) /\ l # decoding => Staged(l)'
  BY <1>2 DEF Staged
<1>5. LoaderInv'
  <2>1. /\ activeRead' = None \/ decoding' = None
        /\ \A i, j \in 1..Len(queued') : queued'[i] = queued'[j] => i = j
    BY DEF LoaderOK, LoaderInv
  <2>2. \A i \in 1..Len(queued') :
          queued'[i] # decoding' /\ (activeRead' # None => queued'[i] # activeRead'.load)
    BY <1>2, SilenceAssumption DEF LoaderOK, LoaderTypes
  <2>3. \A l \in Reservations : Staged(l)' => l \notin active' /\ l.id <= loads'
    BY <1>3 DEF LoaderOK, LoaderInv
  <2>4. \A l \in pending' : Staged(l)'
    BY <1>4 DEF LoaderOK, LoaderInv
  <2> QED BY <2>1, <2>2, <2>3, <2>4 DEF LoaderInv
<1>6. JobsInv'
  BY DEF LoaderOK, JobsInv, Job
<1> QED BY <1>1, <1>5, <1>6 DEF LoaderStep, LoaderOK, NewIds

\* Live drops from the front of the queue what was cancelled.
LEMMA LiveFacts ==
    ASSUME LoaderTypes
    PROVE  /\ Live \in Seq(Reservations)
           /\ \E k \in 0..Len(queued) :
                 /\ Len(Live) = Len(queued) - k
                 /\ \A i \in 1..Len(Live) : Live[i] = queued[i + k]
                 /\ \A i \in 1..k : queued[i] \notin pending
<1> DEFINE first == {i \in DOMAIN queued : queued[i] \in pending}
<1>1. queued \in Seq(Reservations) /\ Len(queued) \in Nat /\ DOMAIN queued = 1..Len(queued)
  BY DEF LoaderTypes
<1>2. Live = IF first = {} THEN <<>> ELSE SubSeq(queued, Min(first), Len(queued))
  BY DEF Live
<1>3. CASE first = {}
  <2>1. Live = <<>> /\ \A i \in 1..Len(queued) : queued[i] \notin pending
    BY <1>1, <1>2, <1>3
  <2>2. PICK k \in 0..Len(queued) : k = Len(queued)
    <3>1. Len(queued) \in 0..Len(queued)
      BY <1>1
    <3> QED BY <3>1
  <2>3. Live \in Seq(Reservations) /\ Len(Live) = 0
    BY <2>1
  <2>4. /\ Len(Live) = Len(queued) - k
        /\ \A i \in 1..Len(Live) : Live[i] = queued[i + k]
        /\ \A i \in 1..k : queued[i] \notin pending
    BY <1>1, <2>1, <2>2, <2>3
  <2> QED BY <2>3, <2>4
<1>4. CASE first # {}
  <2>1. first \in SUBSET Nat /\ first \subseteq 1..Len(queued)
    BY <1>1
  <2>2. PICK m \in 1..Len(queued) : m = Min(first) /\ \A y \in first : m <= y
    BY <1>4, <2>1, MinFacts
  <2>3. Live = SubSeq(queued, m, Len(queued))
    BY <1>2, <1>4, <2>2
  <2>4. /\ Live \in Seq(Reservations) /\ Len(Live) = Len(queued) - m + 1
        /\ \A i \in 1..Len(queued) - m + 1 : Live[i] = queued[m + i - 1]
    <3>1. m \in 1..Len(queued) + 1 /\ Len(queued) \in m - 1..Len(queued)
      BY <1>1
    <3> QED BY <1>1, <2>3, <3>1, SubSeqProperties
  <2>5. \A i \in 1..m - 1 : queued[i] \notin pending
    <3> SUFFICES ASSUME NEW i \in 1..m - 1, queued[i] \in pending PROVE FALSE
      OBVIOUS
    <3>1. i \in first /\ ~(m <= i)
      BY <1>1
    <3> QED BY <2>2, <3>1
  <2>6. PICK k \in 0..Len(queued) : k = m - 1
    BY <1>1
  <2>7. Len(Live) = Len(queued) - k /\ \A i \in 1..Len(Live) : Live[i] = queued[i + k]
    <3>1. \A i \in 1..Len(Live) : m + i - 1 = i + k
      BY <1>1, <2>6
    <3> QED BY <1>1, <2>4, <2>6, <3>1
  <2>8. \A i \in 1..k : queued[i] \notin pending
    BY <2>5, <2>6
  <2> QED BY <2>4, <2>7, <2>8
<1> QED BY <1>3, <1>4

\* poll starts the next read, or leaves the queue without what was cancelled.
LEMMA LiveLoader ==
    ASSUME LoaderOK, decoding = None, activeRead = None, UNCHANGED <<loads, pending, decoding, jobs>>,
           active' \subseteq active,
           \/ queued' = Live /\ activeRead' = None
           \/ /\ Live # <<>> /\ queued' = Tail(Live)
              /\ activeRead' = [load |-> Head(Live), state |-> "running"]
    PROVE  LoaderStep
<1>1. PICK k \in 0..Len(queued) :
          /\ Live \in Seq(Reservations)
          /\ Len(Live) = Len(queued) - k
          /\ \A i \in 1..Len(Live) : Live[i] = queued[i + k]
          /\ \A i \in 1..k : queued[i] \notin pending
  BY LiveFacts DEF LoaderOK
<1>2. Len(queued) \in Nat /\ Len(Live) \in Nat /\ queued \in Seq(Reservations)
  BY <1>1 DEF LoaderOK, LoaderTypes
<1>3. \A i \in 1..Len(Live) : i + k \in 1..Len(queued)
  BY <1>1, <1>2
<1>4. PICK s \in Seq(Reservations) : s = Live
  BY <1>1
<1>5. /\ \A i, j \in 1..Len(s) : s[i] = s[j] => i = j
      /\ \A i \in 1..Len(s) : s[i] \in Reservations /\ \E j \in 1..Len(queued) : queued[j] = s[i]
  <2>1. \A i, j \in 1..Len(s) : s[i] = s[j] => i = j
    <3> SUFFICES ASSUME NEW i \in 1..Len(s), NEW j \in 1..Len(s), s[i] = s[j] PROVE i = j
      OBVIOUS
    <3>1. queued[i + k] = queued[j + k] /\ i + k \in 1..Len(queued) /\ j + k \in 1..Len(queued)
      BY <1>1, <1>3, <1>4
    <3>2. i + k = j + k
      BY <3>1 DEF LoaderOK, LoaderInv
    <3> QED BY <3>2
  <2> QED BY <1>1, <1>3, <1>4, <2>1
<1>6. \A l \in pending : \E i \in 1..Len(s) : s[i] = l
  <2> SUFFICES ASSUME NEW l \in pending PROVE \E i \in 1..Len(s) : s[i] = l
    OBVIOUS
  <2>1. l \in Reservations /\ Staged(l) /\ l # None
    BY SilenceAssumption DEF LoaderOK, LoaderInv, LoaderTypes
  <2>2. PICK i \in 1..Len(queued) : queued[i] = l
    BY <2>1 DEF Staged
  <2>3. ~(i <= k)
    BY <1>1, <1>2, <2>2
  <2>4. i - k \in 1..Len(s) /\ (i - k) + k = i
    BY <1>1, <1>2, <1>4, <2>3
  <2> QED BY <1>1, <1>4, <2>2, <2>4
<1>7. /\ queued' \in Seq(Reservations) /\ activeRead' \in FileReads \union {None}
      /\ \A i, j \in 1..Len(queued') : queued'[i] = queued'[j] => i = j
      /\ \A i \in 1..Len(queued') : activeRead' # None => queued'[i] # activeRead'.load
      /\ \A l : Staged(l)' <=> \/ \E i \in 1..Len(s) : s[i] = l
                               \/ l = None
  <2>1. CASE queued' = Live /\ activeRead' = None
    BY <1>4, <1>5, <2>1 DEF Staged
  <2>2. CASE /\ Live # <<>> /\ queued' = Tail(Live)
             /\ activeRead' = [load |-> Head(Live), state |-> "running"]
    <3>1. /\ Len(s) \in Nat /\ Len(s) > 0 /\ queued' = Tail(s) /\ queued' \in Seq(Reservations)
          /\ Len(queued') = Len(s) - 1 /\ Head(s) = s[1] /\ Head(s) \in Reservations
          /\ \A i \in 1..Len(queued') : queued'[i] = s[i + 1]
      BY <1>4, <2>2
    <3>2. activeRead' = [load |-> s[1], state |-> "running"]
      BY <1>4, <2>2, <3>1
    <3>3. activeRead' \in FileReads /\ activeRead' # None /\ activeRead'.load = s[1]
      BY <3>1, <3>2, SilenceAssumption DEF FileReads
    <3>4. \A i \in 1..Len(queued') : i + 1 \in 1..Len(s) /\ 1 \in 1..Len(s) /\ i + 1 # 1
      BY <3>1
    <3>5. \A i, j \in 1..Len(queued') : queued'[i] = queued'[j] => i = j
      <4> SUFFICES ASSUME NEW i \in 1..Len(queued'), NEW j \in 1..Len(queued'),
                          queued'[i] = queued'[j]
                   PROVE  i = j
        OBVIOUS
      <4>1. i + 1 = j + 1
        BY <1>5, <3>1, <3>4
      <4> QED BY <4>1
    <3>6. \A i \in 1..Len(queued') : queued'[i] # activeRead'.load
      BY <1>5, <3>1, <3>3, <3>4
    <3>7. ASSUME NEW l PROVE Staged(l)' <=> \/ \E i \in 1..Len(s) : s[i] = l
                                            \/ l = None
      <4>1. \A i \in 1..Len(s) : i = 1 \/ (i - 1 \in 1..Len(queued') /\ queued'[i - 1] = s[i])
        BY <3>1
      <4>2. (\E i \in 1..Len(queued') : queued'[i] = l) => \E i \in 1..Len(s) : s[i] = l
        BY <3>1, <3>4
      <4>3. 1 \in 1..Len(s)
        BY <3>1
      <4> QED BY <3>3, <4>1, <4>2, <4>3 DEF Staged
    <3> QED BY <3>1, <3>3, <3>5, <3>6, <3>7
  <2> QED BY <2>1, <2>2
<1>8. LoaderTypes'
  BY <1>7 DEF LoaderOK, LoaderTypes
<1>9. LoaderInv'
  <2>1. \A i \in 1..Len(queued') : queued'[i] # decoding'
    BY <1>7, SilenceAssumption
  <2>2. \A l \in Reservations : Staged(l)' => l \notin active' /\ l.id <= loads'
    <3>1. \A l \in Reservations : Staged(l)' => Staged(l)
      <4>1. None \notin Reservations
        BY SilenceAssumption
      <4>2. ASSUME NEW l \in Reservations, Staged(l)' PROVE \E i \in 1..Len(queued) : queued[i] = l
        <5>1. PICK i \in 1..Len(s) : s[i] = l
          BY <1>7, <4>1, <4>2
        <5> QED BY <1>5, <5>1
      <4> QED BY <4>2 DEF Staged
    <3> QED BY <3>1 DEF LoaderOK, LoaderInv
  <2>3. \A l \in pending' : Staged(l)'
    BY <1>6, <1>7
  <2> QED BY <1>7, <2>1, <2>2, <2>3 DEF LoaderInv
<1>10. JobsInv' /\ NewIds
  BY DEF LoaderOK, JobsInv, NewIds
<1> QED BY <1>8, <1>9, <1>10 DEF LoaderStep, LoaderOK

-----------------------------------------------------------------------------
(* Steps of the owners.                                                    *)

\* Who owns what plays on a channel.
LEMMA ChannelFacts ==
    /\ Owners = {"music", "ambience"}
    /\ \A c \in Channels : c # "effect" => OwnerOf[c] \in Owners
    /\ OwnerOf["music"] = "music" /\ OwnerOf["script"] = "music"
    /\ OwnerOf["ambience"] = "ambience"
BY DEF Owners, Channels, OwnerOf

\* What an owner keeps is not None.
LEMMA OwnershipFacts ==
    ASSUME NEW l \in Reservations, NEW started \in BOOLEAN
    PROVE  /\ [load |-> l, started |-> started] \in Ownerships
           /\ [load |-> l, started |-> started] # None
<1>1. [load |-> l, started |-> started] \in Ownerships
  BY DEF Ownerships
<1> QED BY <1>1, SilenceAssumption

\* What is reserved for music or ambience is loading for its owner.
LEMMA ReservedForOwner ==
    ASSUME SoundTypeOK, ReservedInv, NEW l \in pending, l.channel # "effect"
    PROVE  l \in Loading(OwnerOf[l.channel]) /\ OwnerOf[l.channel] \in Owners
<1>1. owners[OwnerOf[l.channel]] = [load |-> l, started |-> FALSE] /\ l.channel \in Channels
      /\ l \in Reservations
  BY DEF ReservedInv, SoundTypeOK, Reservations
<1>2. OwnerOf[l.channel] \in Owners
  BY <1>1, ChannelFacts
<1>3. [load |-> l, started |-> FALSE] # None
  BY <1>1, OwnershipFacts
<1>4. owners[OwnerOf[l.channel]] # None /\ ~owners[OwnerOf[l.channel]].started
      /\ owners[OwnerOf[l.channel]].load = l
  BY <1>1, <1>3
<1> QED BY <1>2, <1>4 DEF Loading

\* An owner may change when nothing that is reserved is loading for it.
LEMMA OwnersChange ==
    ASSUME SoundTypeOK, ReservedInv, pending' \subseteq pending,
           \A o \in Owners : owners'[o] = owners[o] \/ Loading(o) \intersect pending' = {}
    PROVE  ReservedInv'
BY ReservedForOwner DEF ReservedInv

\* A reservation's end reaches the owner that waits for it, whose voice plays not yet.
LEMMA CompleteFalse ==
    ASSUME SoundTypeOK, ReservedInv, NEW load, load \notin active,
           Complete(load, FALSE), pending' = pending \ {load}
    PROVE  /\ owners' \in [Owners -> Ownerships \union {None}] /\ ReservedInv'
           /\ \A o \in Owners : owners'[o] = owners[o] \/ Voice(o) = {}
<1>1. \A o \in Owners : owners'[o] = IF ~Waits(o, load) THEN owners[o] ELSE None
  BY DEF Complete
<1>2. owners' \in [Owners -> Ownerships \union {None}]
  <2>1. owners' = [o \in Owners |-> owners'[o]]
    BY DEF Complete
  <2>2. \A o \in Owners : owners'[o] \in Ownerships \union {None}
    BY <1>1 DEF SoundTypeOK
  <2> QED BY <2>1, <2>2
<1>3. \A o \in Owners : Waits(o, load) => Voice(o) = {} /\ Loading(o) \subseteq {load}
  BY DEF Waits, Voice, Loading
<1>4. ReservedInv'
  BY <1>1, <1>3, OwnersChange
<1> QED BY <1>1, <1>2, <1>3, <1>4

\* An owner turns to a new sound, or to none.
LEMMA RenewOwner ==
    ASSUME SoundTypeOK, LoaderOK, VoiceTypes, VoicesInv, ReservedInv,
           NEW o \in Owners, NEW p \in Paths, NEW c \in Channels, c # "effect", OwnerOf[c] = o,
           Renew(o, Load(p, c)), active' \subseteq active
    PROVE  /\ LoaderStep /\ owners' \in [Owners -> Ownerships \union {None}] /\ ReservedInv'
           /\ \A other \in Owners \ {o} : owners'[other] = owners[other]
<1>1. CASE Reserve(Load(p, c), Loading(o)) /\ owners' = [owners EXCEPT ![o] = Owned(Load(p, c))]
  <2>1. LoaderStep
    BY <1>1, ReserveLoader
  <2> PICK load : load = Load(p, c)
    OBVIOUS
  <2>2. load \in Reservations /\ load.channel = c
    <3>1. loads < MaxLoads
      BY <1>1 DEF Reserve
    <3> QED BY <3>1, LoadFacts DEF LoaderOK
  <2>3. owners' = [owners EXCEPT ![o] = [load |-> load, started |-> FALSE]]
    BY <1>1 DEF Owned
  <2>4. [load |-> load, started |-> FALSE] \in Ownerships
    BY <2>2 DEF Ownerships
  <2>5. owners' \in [Owners -> Ownerships \union {None}]
    BY <2>3, <2>4 DEF SoundTypeOK
  <2>6. /\ owners'[o] = [load |-> load, started |-> FALSE]
        /\ \A other \in Owners \ {o} : owners'[other] = owners[other]
    BY <2>3 DEF SoundTypeOK
  <2>7. pending' = (pending \ Loading(o)) \union {load}
    BY <1>1 DEF Reserve
  <2>8. ReservedInv'
    <3> SUFFICES ASSUME NEW l \in pending', l.channel # "effect"
                 PROVE  owners'[OwnerOf[l.channel]] = [load |-> l, started |-> FALSE]
      BY DEF ReservedInv
    <3>1. CASE l = load
      BY <3>1, <2>2, <2>6
    <3>2. CASE l \in pending /\ l \notin Loading(o)
      <4>1. OwnerOf[l.channel] \in Owners \ {o}
        BY <3>2, ReservedForOwner
      <4> QED BY <3>2, <4>1, <2>6 DEF ReservedInv
    <3> QED BY <2>7, <3>1, <3>2
  <2> QED BY <2>1, <2>5, <2>6, <2>8
<1>2. CASE Disabled(Loading(o)) /\ owners' = [owners EXCEPT ![o] = None]
  <2>1. LoaderStep /\ pending' = pending \ Loading(o)
    BY <1>2, CancelLoader DEF Disabled, Cancel
  <2>2. /\ owners' \in [Owners -> Ownerships \union {None}]
        /\ \A other \in Owners \ {o} : owners'[other] = owners[other]
    BY <1>2 DEF SoundTypeOK
  <2>3. ReservedInv'
    BY <2>1, <2>2, OwnersChange
  <2> QED BY <2>1, <2>2, <2>3
<1> QED BY <1>1, <1>2 DEF Renew

\* Music and ambience that play without end keep their owner, fade or are over.
LEMMA HoldKept ==
    ASSUME SoundTypeOK, OwnersHold, NEW gone \in SUBSET active, Silences(gone),
           \A o \in Owners : owners'[o] = owners[o] \/ Voice(o) \subseteq gone \union fading'
    PROVE  OwnersHold'
<1> SUFFICES ASSUME NEW v \in active', v.channel # "effect", Playing(v)',
                    v \notin fading'
             PROVE  v \in Voice(OwnerOf[v.channel])'
  BY DEF OwnersHold
<1>1. v \in active /\ v \notin gone /\ v.channel \in Channels /\ Playing(v)
  BY DEF Silences, SoundTypeOK, Reservations, Playing
<1>2. v \notin fading
  BY <1>1 DEF Silences
<1>3. v \in Voice(OwnerOf[v.channel]) /\ OwnerOf[v.channel] \in Owners
  BY <1>1, <1>2, ChannelFacts DEF OwnersHold
<1>4. owners'[OwnerOf[v.channel]] = owners[OwnerOf[v.channel]]
  BY <1>1, <1>3
<1> QED BY <1>3, <1>4 DEF Voice

\* A step of the loader, the voices and the owners keeps the invariant when each does.
LEMMA SoundParts ==
    ASSUME SoundInv
    PROVE  /\ SoundTypeOK /\ LoaderOK /\ VoiceTypes /\ OwnerTypes /\ VoicesInv /\ JobsInv
           /\ ReservedInv /\ OwnersHold /\ PhaseInv
BY SoundTypeParts DEF SoundInv, LoaderOK

\* The voices, the loader and the owners keep the invariant between them.
LEMMA StepKept ==
    ASSUME SoundInv, NEW gone \in SUBSET active, Silences(gone), LoaderStep,
           owners' \in [Owners -> Ownerships \union {None}], repeat' \in Paths \union {None},
           ReservedInv',
           \A o \in Owners : owners'[o] = owners[o] \/ Voice(o) \subseteq gone \union fading',
           at' \in Phases, PhaseInv'
    PROVE  SoundInv'
<1>1. VoiceTypes' /\ VoicesInv'
  BY SoundParts, SilencedTypes, VoicesKept DEF LoaderStep
<1>2. OwnersHold'
  BY SoundParts, HoldKept
<1>3. SoundTypeOK'
  <2>1. OwnerTypes' /\ LoaderTypes'
    BY DEF OwnerTypes, LoaderStep, LoaderOK
  <2> QED BY <1>1, <2>1 DEF SoundTypeOK, OwnerTypes, LoaderTypes, VoiceTypes
<1> QED BY <1>1, <1>2, <1>3 DEF SoundInv, LoaderStep, LoaderOK

\* Most steps leave the frame in its loop.
LEMMA PhaseOpen ==
    ASSUME at' \in Phases \ {"joining", "draining", "down"}
    PROVE  PhaseInv' /\ at' \in Phases
BY DEF PhaseInv

-----------------------------------------------------------------------------
(* The frame.                                                              *)

\* set_settings drops samples nobody plays.
LEMMA TrimKeeps ==
    ASSUME SoundInv, Trim
    PROVE  SoundInv'
<1>1. SoundTypeOK /\ LoaderOK /\ VoicesInv /\ ReservedInv /\ OwnerTypes
  BY SoundParts
<1>2. Stopped \subseteq active /\ fading \subseteq active
  BY <1>1 DEF Stopped, SoundTypeOK
<1>3. Silences(Stopped)
  <2>1. active' = active \ Stopped /\ fading' \subseteq active' /\ fading \ Stopped \subseteq fading'
        /\ streams' = streams \ Ids(Stopped)
    BY <1>2 DEF Trim
  <2>2. PICK dropped \in SUBSET Unused(Released(Stopped)) :
          refs' = [p \in Paths |-> IF p \in dropped THEN None ELSE Released(Stopped)[p]]
    BY DEF Trim
  <2>3. \A p \in Paths : \/ refs'[p] = Released(Stopped)[p]
                         \/ refs'[p] = None /\ p \notin Streamed /\ Released(Stopped)[p] = 0
    BY <2>2 DEF Unused
  <2>4. Released(Stopped) \in [Paths -> Nat \union {None}]
    BY <1>1, <1>2, ReleasedFacts
  <2>5. refs' \in [Paths -> Nat \union {None}]
    BY <2>2, <2>4
  <2>6. tracks' = tracks
    BY DEF Trim
  <2> QED BY <1>1, <2>1, <2>3, <2>5, <2>6, SameTracks DEF Silences
<1>4. LoaderStep
  <2>1. /\ UNCHANGED <<loads, pending, queued, activeRead, decoding>> /\ active' \subseteq active
        /\ jobs' \subseteq jobs
    BY DEF Trim
  <2>2. LoaderTypes' /\ JobsInv' /\ LoaderInv'
    BY <1>1, <2>1 DEF LoaderOK, LoaderTypes, JobsInv, LoaderInv, Staged
  <2> QED BY <2>1, <2>2 DEF LoaderStep, LoaderOK, NewIds
<1>5. owners' = owners /\ repeat' = repeat /\ pending' = pending
  BY DEF Trim
<1>6. ReservedInv'
  BY <1>1, <1>5 DEF ReservedInv
<1>7. at' \in Phases \ {"joining", "draining", "down"}
  BY DEF Trim, Phases
<1> QED BY <1>1, <1>2, <1>3, <1>4, <1>5, <1>6, <1>7, StepKept, PhaseOpen DEF OwnerTypes

\* The owners whose voice is over are released.
LEMMA CollectOwnersKeeps ==
    ASSUME SoundInv, CollectOwners, at' \in Phases \ {"joining", "draining", "down"}
    PROVE  SoundInv'
<1> DEFINE gone == UNION {Voice(o) : o \in Over}
<1>1. SoundTypeOK /\ LoaderOK /\ VoicesInv /\ ReservedInv /\ OwnerTypes
  BY SoundParts
<1>2. gone \subseteq active /\ \A o \in Over : Voice(o) \subseteq gone
  BY DEF Voice
<1>3. Silences(gone)
  BY <1>1, <1>2, RetireSilences DEF CollectOwners
<1>4. \A o \in Owners : owners'[o] = IF o \in Over THEN None ELSE owners[o]
  BY DEF CollectOwners
<1>5. owners' \in [Owners -> Ownerships \union {None}]
  BY <1>1 DEF CollectOwners, SoundTypeOK
<1>6. UNCHANGED <<loads, pending, loader, repeat>>
  BY DEF CollectOwners
<1>7. LoaderStep
  <2>1. active' \subseteq active
    BY <1>3 DEF Silences
  <2> QED BY <1>1, <1>6, <2>1, SameLoader
<1>8. ReservedInv'
  <2>1. \A o \in Over : Loading(o) = {}
    BY DEF Over
  <2> QED BY <1>1, <1>4, <1>6, <2>1, OwnersChange
<1>9. \A o \in Owners : owners'[o] = owners[o] \/ Voice(o) \subseteq gone \union fading'
  BY <1>2, <1>4
<1> HIDE DEF gone
<1> QED BY <1>1, <1>2, <1>3, <1>5, <1>6, <1>7, <1>8, <1>9, StepKept, PhaseOpen DEF OwnerTypes

\* This happens before a media action
LEMMA BeginCommandKeeps == ASSUME SoundInv, BeginCommand PROVE SoundInv'
BY CollectOwnersKeeps DEF BeginCommand, Phases

\* and in poll_loads.
LEMMA CollectVoicesKeeps == ASSUME SoundInv, CollectVoices PROVE SoundInv'
BY CollectOwnersKeeps DEF CollectVoices, Phases

\* Steps that leave the voices, the loader and the owners alone.
LEMMA PhaseKeeps ==
    ASSUME SoundInv, UNCHANGED <<engine, loader, owners, repeat>>, at' \in Phases, PhaseInv'
    PROVE  SoundInv'
<1>1. SoundTypeOK /\ LoaderOK /\ VoicesInv /\ ReservedInv /\ OwnerTypes
  BY SoundParts
<1>2. /\ active' = active /\ fading' = fading /\ refs' = refs /\ streams' = streams
      /\ tracks' = tracks /\ loads' = loads /\ pending' = pending /\ owners' = owners
      /\ repeat' = repeat /\ UNCHANGED loader
  BY DEF engine
<1>3. Silences({})
  <2>1. fading \subseteq active
    BY <1>1 DEF SoundTypeOK
  <2> QED BY <1>1, <1>2, <2>1, StopSilences, SameTracks
<1>4. LoaderStep
  BY <1>1, <1>2, SameLoader
<1>5. ReservedInv'
  BY <1>1, <1>2 DEF ReservedInv
<1> QED BY <1>1, <1>2, <1>3, <1>4, <1>5, StepKept DEF OwnerTypes

\* The end of the media actions is one of them,
LEMMA EndCommandsKeeps == ASSUME SoundInv, EndCommands PROVE SoundInv'
BY PhaseKeeps, PhaseOpen DEF EndCommands, Phases

\* and an action that asks for what plays already is another.
LEMMA RepeatedKeeps == ASSUME SoundInv, Repeated PROVE SoundInv'
BY PhaseKeeps, PhaseOpen DEF Repeated, Command, Phases

\* advance_fades stops voices that have faded out.
LEMMA AdvanceFadesKeeps ==
    ASSUME SoundInv, AdvanceFades
    PROVE  SoundInv'
<1>1. SoundTypeOK /\ LoaderOK /\ VoicesInv /\ ReservedInv /\ OwnerTypes
  BY SoundParts
<1>2. PICK done \in SUBSET (fading \ Stopped) : Retire(Stopped \union done)
  BY DEF AdvanceFades
<1>3. Stopped \union done \in SUBSET active
  BY <1>1 DEF Stopped, SoundTypeOK
<1>4. Silences(Stopped \union done)
  BY <1>1, <1>2, <1>3, RetireSilences
<1>5. UNCHANGED <<loads, pending, loader, owners, repeat>>
  BY DEF AdvanceFades
<1>6. LoaderStep
  <2>1. active' \subseteq active
    BY <1>4 DEF Silences
  <2> QED BY <1>1, <1>5, <2>1, SameLoader
<1>7. ReservedInv'
  BY <1>1, <1>5 DEF ReservedInv
<1>8. at' \in Phases \ {"joining", "draining", "down"}
  BY DEF AdvanceFades, Phases
<1> QED BY <1>1, <1>3, <1>4, <1>5, <1>6, <1>7, <1>8, StepKept, PhaseOpen DEF OwnerTypes

-----------------------------------------------------------------------------
(* Media actions.                                                          *)

\* After a media action the frame goes on.
LEMMA CommandEnds ==
    ASSUME Command
    PROVE  at' \in Phases \ {"joining", "draining", "down"}
BY DEF Command, Phases

\* An effect belongs to no owner.
LEMMA PlayEffectKeeps ==
    ASSUME SoundInv, NEW p \in Paths, PlayEffect(p)
    PROVE  SoundInv'
<1>1. SoundTypeOK /\ LoaderOK /\ VoicesInv /\ ReservedInv /\ OwnerTypes /\ VoiceTypes
  BY SoundParts
<1>2. Stopped \in SUBSET active /\ Silences(Stopped)
  <2>1. Stopped \in SUBSET active
    BY DEF Stopped
  <2> QED BY <1>1, <2>1, RetireSilences DEF PlayEffect
<1>3. active' \subseteq active /\ owners' = owners /\ repeat' = repeat
  BY <1>2 DEF Silences, PlayEffect
<1>4. CASE Reserve(Load(p, "effect"), {})
  <2>1. LoaderStep
    BY <1>1, <1>3, <1>4, ReserveLoader DEF Channels
  <2>2. ReservedInv'
    <3> PICK load : load = Load(p, "effect")
      OBVIOUS
    <3>1. load.channel = "effect" /\ pending' = (pending \ {}) \union {load}
      BY <1>4 DEF Reserve, Load
    <3> QED BY <1>1, <1>3, <3>1 DEF ReservedInv
  <2> QED BY <1>1, <1>2, <1>3, <2>1, <2>2, StepKept, PhaseOpen, CommandEnds DEF PlayEffect, OwnerTypes
<1>5. CASE Disabled({})
  <2>1. LoaderStep
    BY <1>1, <1>3, <1>5, CancelLoader DEF Disabled
  <2>2. pending' = pending \ {}
    BY <1>5 DEF Disabled, Cancel
  <2>3. ReservedInv'
    BY <1>1, <1>3, <2>2 DEF ReservedInv
  <2> QED BY <1>1, <1>2, <1>3, <2>1, <2>3, StepKept, PhaseOpen, CommandEnds DEF PlayEffect, OwnerTypes
<1> QED BY <1>4, <1>5 DEF PlayEffect

\* Music stops what played and renews its owner.
LEMMA PlayMusicKeeps ==
    ASSUME SoundInv, NEW p \in Paths, NEW c \in {"music", "script"}, PlayMusic(p, c)
    PROVE  SoundInv'
<1> DEFINE gone == Stopped \union Voice("music")
<1>1. SoundTypeOK /\ LoaderOK /\ VoicesInv /\ ReservedInv /\ OwnerTypes /\ VoiceTypes
  BY SoundParts
<1>2. gone \in SUBSET active /\ Silences(gone)
  <2>1. gone \in SUBSET active
    BY DEF Stopped, Voice
  <2> QED BY <1>1, <2>1, RetireSilences DEF PlayMusic
<1>3. active' \subseteq active
  BY <1>2 DEF Silences
<1>4. c \in Channels /\ c # "effect" /\ OwnerOf[c] = "music" /\ "music" \in Owners
  BY ChannelFacts DEF Channels
<1>5. Renew("music", Load(p, c))
  BY DEF PlayMusic
<1>6. /\ LoaderStep /\ owners' \in [Owners -> Ownerships \union {None}] /\ ReservedInv'
      /\ \A other \in Owners \ {"music"} : owners'[other] = owners[other]
  BY <1>1, <1>3, <1>4, <1>5, RenewOwner
<1>7. \A o \in Owners : owners'[o] = owners[o] \/ Voice(o) \subseteq gone \union fading'
  BY <1>6
<1>8. repeat' \in Paths \union {None}
  BY DEF PlayMusic
<1>9. at' \in Phases \ {"joining", "draining", "down"}
  BY CommandEnds DEF PlayMusic
<1> HIDE DEF gone
<1> QED BY <1>2, <1>6, <1>7, <1>8, <1>9, StepKept, PhaseOpen

\* Ambience lets what played fade and renews its owner.
LEMMA PlayAmbienceKeeps ==
    ASSUME SoundInv, NEW p \in Paths, PlayAmbience(p)
    PROVE  SoundInv'
<1>1. SoundTypeOK /\ LoaderOK /\ VoicesInv /\ ReservedInv /\ OwnerTypes /\ VoiceTypes
  BY SoundParts
<1>2. Stopped \in SUBSET active /\ Voice("ambience") \subseteq active /\ fading \subseteq active
  BY <1>1 DEF Stopped, Voice, SoundTypeOK
<1>3. Silences(Stopped)
  <2>1. tracks' = tracks
    BY DEF PlayAmbience
  <2>2. /\ active' = active \ Stopped /\ fading' \subseteq active'
        /\ fading \ Stopped \subseteq fading'
        /\ refs' = Released(Stopped) /\ streams' = streams \ Ids(Stopped)
    BY <1>2 DEF PlayAmbience
  <2> QED BY <1>1, <1>2, <2>1, <2>2, SameTracks, ReleaseSilences
<1>4. active' \subseteq active
  BY <1>3 DEF Silences
<1>5. /\ "ambience" \in Channels /\ "ambience" # "effect" /\ OwnerOf["ambience"] = "ambience"
      /\ "ambience" \in Owners
  BY ChannelFacts DEF Channels
<1>6. Renew("ambience", Load(p, "ambience"))
  BY DEF PlayAmbience
<1>7. /\ LoaderStep /\ owners' \in [Owners -> Ownerships \union {None}] /\ ReservedInv'
      /\ \A other \in Owners \ {"ambience"} : owners'[other] = owners[other]
  BY <1>1, <1>4, <1>5, <1>6, RenewOwner
<1>8. Voice("ambience") \subseteq Stopped \union fading'
  BY <1>2 DEF PlayAmbience
<1>9. \A o \in Owners : owners'[o] = owners[o] \/ Voice(o) \subseteq Stopped \union fading'
  BY <1>7, <1>8
<1>10. repeat' \in Paths \union {None}
  BY <1>1 DEF PlayAmbience, OwnerTypes
<1>11. at' \in Phases \ {"joining", "draining", "down"}
  BY CommandEnds DEF PlayAmbience
<1> QED BY <1>2, <1>3, <1>7, <1>9, <1>10, <1>11, StepKept, PhaseOpen

\* What an owner stops is what is reserved for it.
LEMMA StopMusicKeeps ==
    ASSUME SoundInv, StopMusic
    PROVE  SoundInv'
<1>1. SoundTypeOK /\ LoaderOK /\ VoicesInv /\ ReservedInv /\ OwnerTypes
  BY SoundParts
<1>2. Voice("music") \in SUBSET active /\ Silences(Voice("music"))
  <2>1. Voice("music") \in SUBSET active
    BY DEF Voice
  <2> QED BY <1>1, <2>1, RetireSilences DEF StopMusic
<1>3. LoaderStep /\ pending' = pending \ Loading("music")
  <2>1. active' \subseteq active
    BY <1>2 DEF Silences
  <2> QED BY <1>1, <2>1, CancelLoader DEF StopMusic, Cancel
<1>4. /\ owners' \in [Owners -> Ownerships \union {None}]
      /\ \A o \in Owners : o = "music" \/ owners'[o] = owners[o]
      /\ repeat' = None
  BY <1>1 DEF StopMusic, SoundTypeOK
<1>5. ReservedInv'
  BY <1>1, <1>3, <1>4, OwnersChange
<1>6. \A o \in Owners : owners'[o] = owners[o] \/ Voice(o) \subseteq Voice("music") \union fading'
  BY <1>4
<1>7. at' \in Phases \ {"joining", "draining", "down"}
  BY CommandEnds DEF StopMusic
<1> QED BY <1>2, <1>3, <1>4, <1>5, <1>6, <1>7, StepKept, PhaseOpen

\* Ambience that stops fades.
LEMMA StopAmbienceKeeps ==
    ASSUME SoundInv, StopAmbience
    PROVE  SoundInv'
<1>1. SoundTypeOK /\ LoaderOK /\ VoicesInv /\ ReservedInv /\ OwnerTypes
  BY SoundParts
<1>2. /\ active' = active /\ refs' = refs /\ streams' = streams /\ tracks' = tracks
      /\ fading' = fading \union Voice("ambience") /\ repeat' = repeat
      /\ UNCHANGED <<loads, queued, activeRead, decoding>> /\ Cancel(Loading("ambience"))
  BY DEF StopAmbience
<1>3. Silences({})
  <2>1. fading \subseteq fading' /\ fading' \subseteq active
    BY <1>1, <1>2 DEF Voice, SoundTypeOK
  <2> QED BY <1>1, <1>2, <2>1, StopSilences, SameTracks
<1>4. LoaderStep /\ pending' = pending \ Loading("ambience")
  BY <1>1, <1>2, CancelLoader DEF Cancel
<1>5. /\ owners' \in [Owners -> Ownerships \union {None}]
      /\ \A o \in Owners : o = "ambience" \/ owners'[o] = owners[o]
  BY <1>1 DEF StopAmbience, SoundTypeOK
<1>6. ReservedInv'
  BY <1>1, <1>4, <1>5, OwnersChange
<1>7. \A o \in Owners : owners'[o] = owners[o] \/ Voice(o) \subseteq {} \union fading'
  BY <1>2, <1>5
<1>8. at' \in Phases \ {"joining", "draining", "down"}
  BY CommandEnds DEF StopAmbience
<1> QED BY <1>1, <1>2, <1>3, <1>4, <1>5, <1>6, <1>7, <1>8, StepKept, PhaseOpen DEF OwnerTypes

\* Cancelling reservations while the owners keep what they wait for.
LEMMA CancelKeeps ==
    ASSUME SoundInv, Command, NEW gone, Cancel(gone), Silences({}),
           UNCHANGED <<loads, active, queued, activeRead, decoding, owners, repeat>>
    PROVE  SoundInv'
<1>1. SoundTypeOK /\ LoaderOK /\ VoicesInv /\ ReservedInv /\ OwnerTypes
  BY SoundParts
<1>2. LoaderStep /\ pending' = pending \ gone
  BY <1>1, CancelLoader DEF Cancel
<1>3. ReservedInv'
  BY <1>1, <1>2, OwnersChange
<1> QED BY <1>1, <1>2, <1>3, StepKept, PhaseOpen, CommandEnds DEF OwnerTypes

\* Effects that stop fade, those reserved are cancelled.
LEMMA StopEffectsKeeps ==
    ASSUME SoundInv, StopEffects
    PROVE  SoundInv'
<1>1. SoundTypeOK /\ VoicesInv
  BY SoundParts
<1>2. /\ active' = active /\ refs' = refs /\ streams' = streams /\ tracks' = tracks
      /\ fading' = fading \union {v \in active : v.channel = "effect"}
      /\ Cancel({l \in pending : l.channel = "effect"}) /\ Command
      /\ UNCHANGED <<loads, active, queued, activeRead, decoding, owners, repeat>>
  BY DEF StopEffects
<1>3. Silences({})
  <2>1. fading \subseteq fading' /\ fading' \subseteq active
    BY <1>1, <1>2 DEF SoundTypeOK
  <2> QED BY <1>1, <1>2, <2>1, StopSilences, SameTracks
<1> QED BY <1>2, <1>3, CancelKeeps

\* A restarted output stops every track.
LEMMA RestartKeeps ==
    ASSUME SoundInv, Restart
    PROVE  SoundInv'
<1>1. SoundTypeOK /\ VoicesInv
  BY SoundParts
<1>2. /\ active' = active /\ refs' = refs /\ streams' = streams /\ fading' = fading
      /\ tracks' = [t \in Tracks |-> [tracks[t] EXCEPT !.playing = FALSE]]
      /\ Cancel(pending) /\ Command
      /\ UNCHANGED <<loads, active, queued, activeRead, decoding, owners, repeat>>
  BY DEF Restart
<1>3. /\ tracks' \in [Tracks -> [voice: 1..MaxLoads \union {None}, playing: BOOLEAN]]
      /\ \A t \in Tracks : tracks'[t].voice = tracks[t].voice /\ ~tracks'[t].playing
  BY <1>1, <1>2 DEF SoundTypeOK
<1>4. Silences({})
  <2>1. fading \subseteq active
    BY <1>1 DEF SoundTypeOK
  <2> QED BY <1>1, <1>2, <1>3, <2>1, StopSilences
<1> QED BY <1>2, <1>4, CancelKeeps

-----------------------------------------------------------------------------
(* poll_loads.                                                             *)

\* A read that has ended is kept for its decode, or gives its reservation up.
LEMMA FileReadEndsKeeps ==
    ASSUME SoundInv, FileReadEnds
    PROVE  SoundInv'
<1>1. SoundTypeOK /\ LoaderOK /\ VoicesInv /\ ReservedInv /\ OwnerTypes
  BY SoundParts
<1>2. /\ UNCHANGED <<loads, active, fading, refs, streams, tracks, queued, repeat>>
      /\ at' \in Phases \ {"joining", "draining", "down"}
  BY DEF FileReadEnds, Phases
<1>3. Silences({})
  <2>1. fading \subseteq active
    BY <1>1 DEF SoundTypeOK
  <2> QED BY <1>1, <1>2, <2>1, StopSilences, SameTracks
<1>4. CASE ~(activeRead # None /\ activeRead.state # "running")
  <2>1. UNCHANGED <<pending, loader, owners>>
    BY <1>2, <1>4 DEF FileReadEnds, loader
  <2>2. LoaderStep
    BY <1>1, <1>2, <2>1, SameLoader
  <2>3. ReservedInv'
    BY <1>1, <2>1 DEF ReservedInv
  <2> QED BY <1>1, <1>2, <1>3, <2>1, <2>2, <2>3, StepKept, PhaseOpen DEF OwnerTypes
<1>5. CASE activeRead # None /\ activeRead.state # "running"
  <2>1. activeRead.load \in Reservations /\ decoding = None /\ activeRead' = None
    BY <1>1, <1>5 DEF SoundTypeOK, FileReads, LoaderOK, LoaderInv, FileReadEnds
  <2>2. activeRead.load \notin active /\ Staged(activeRead.load)
    BY <1>1, <1>5, <2>1 DEF LoaderOK, LoaderInv, Staged
  <2>3. CASE activeRead.state = "done"
    <3>1. decoding' = activeRead.load /\ UNCHANGED <<pending, jobs, owners>>
      BY <1>5, <2>3 DEF FileReadEnds
    <3>2. LoaderTypes' /\ JobsInv' /\ NewIds
      BY <1>1, <1>2, <2>1, <3>1 DEF LoaderOK, LoaderTypes, JobsInv, NewIds
    <3>3. \A l \in Reservations : Staged(l)' <=> Staged(l)
      <4>1. None \notin Reservations
        BY SilenceAssumption
      <4> QED BY <1>2, <1>5, <2>1, <3>1, <4>1 DEF Staged
    <3>4. LoaderInv'
      <4>1. pending \subseteq Reservations
        BY <1>1 DEF SoundTypeOK
      <4> QED BY <1>1, <1>2, <1>5, <2>1, <3>1, <3>3, <4>1 DEF LoaderOK, LoaderInv
    <3>5. ReservedInv'
      BY <1>1, <3>1 DEF ReservedInv
    <3> QED BY <1>1, <1>2, <1>3, <3>1, <3>2, <3>4, <3>5, StepKept, PhaseOpen
            DEF OwnerTypes, LoaderStep, LoaderOK
  <2>4. CASE activeRead.state # "done"
    <3> PICK load \in Reservations : load = activeRead.load
      BY <2>1
    <3>1. /\ decoding' = decoding /\ Cancel({load}) /\ Complete(load, FALSE)
          /\ pending' = pending \ {load}
      BY <1>5, <2>4 DEF FileReadEnds, Unread, Cancel
    <3>2. /\ owners' \in [Owners -> Ownerships \union {None}] /\ ReservedInv'
          /\ \A o \in Owners : owners'[o] = owners[o] \/ Voice(o) = {}
      BY <1>1, <2>2, <3>1, CompleteFalse
    <3>3. /\ jobs' \subseteq [load: Reservations, state: {"running", "done", "failed"}, cancelled: BOOLEAN]
          /\ \A j \in jobs' : ~j.cancelled => j \in jobs /\ j.load \notin {load} \intersect pending
      BY <1>1, <3>1, CancelledFacts DEF LoaderOK, Cancel
    <3>4. LoaderTypes' /\ JobsInv' /\ NewIds
      BY <1>1, <1>2, <2>1, <3>1, <3>3 DEF LoaderOK, LoaderTypes, JobsInv, NewIds
    <3>5. \A l \in Reservations : Staged(l)' => Staged(l)
      <4>1. None \notin Reservations
        BY SilenceAssumption
      <4> QED BY <1>2, <2>1, <3>1, <4>1 DEF Staged
    <3>6. \A l : Staged(l) /\ l # load => Staged(l)'
      BY <1>2, <2>1, <3>1 DEF Staged
    <3>7. LoaderInv'
      BY <1>1, <1>2, <1>5, <2>1, <3>1, <3>5, <3>6 DEF LoaderOK, LoaderInv
    <3> QED BY <1>1, <1>2, <1>3, <3>2, <3>4, <3>7, StepKept, PhaseOpen
            DEF OwnerTypes, LoaderStep, LoaderOK
  <2> QED BY <2>3, <2>4
<1> QED BY <1>4, <1>5

\* The voice takes a track; the one it replaces lets go of what it held.
LEMMA StartedVoices ==
    ASSUME SoundTypeOK, LoaderOK, VoicesInv, decoding \in pending, NEW t \in Tracks,
           pending' = pending \ {decoding}, loads' = loads,
           active' = (active \ Replaced(t)) \union {decoding},
           fading' = fading \ Replaced(t),
           refs' = Retained(Replaced(t)),
           streams' = (streams \ Ids(Replaced(t)))
                          \union (IF decoding.path \in Streamed THEN {decoding.id} ELSE {}),
           tracks' = [tracks EXCEPT ![t] = [voice |-> decoding.id, playing |-> TRUE]]
    PROVE  VoiceTypes' /\ VoicesInv'
<1> PICK d \in Reservations : d = decoding
  BY DEF SoundTypeOK
<1> PICK gone \in SUBSET active : gone = Replaced(t)
  BY DEF Replaced
<1>1. /\ active' = (active \ gone) \union {d} /\ fading' = fading \ gone
      /\ streams' = (streams \ Ids(gone)) \union (IF d.path \in Streamed THEN {d.id} ELSE {})
      /\ tracks' = [tracks EXCEPT ![t] = [voice |-> d.id, playing |-> TRUE]]
      /\ pending' = pending \ {d} /\ loads' = loads
  OBVIOUS
<1>2. d \in pending /\ d \notin active /\ d.id \in 1..MaxLoads /\ d.path \in Paths
  BY DEF LoaderOK, LoaderInv, Reservations
<1>3. IsFiniteSet(active \ gone) /\ IsFiniteSet(active')
  <2>1. IsFiniteSet(active \ gone)
    BY FS_Subset DEF VoicesInv
  <2> QED BY <1>1, <2>1, FS_AddElement
<1>4. \A p \in Paths : refs'[p] = IF p = d.path
                                  THEN IF p \in Streamed THEN None
                                       ELSE IF Released(gone)[p] = None THEN 1
                                       ELSE Released(gone)[p] + 1
                                  ELSE Released(gone)[p]
  <2>1. Released(gone) \in [Paths -> Nat \union {None}]
    BY ReleasedFacts
  <2>2. refs' = [Released(gone) EXCEPT ![d.path] =
                    IF d.path \in Streamed THEN None
                    ELSE IF Released(gone)[d.path] = None THEN 1 ELSE Released(gone)[d.path] + 1]
    BY DEF Retained
  <2> QED BY <1>2, <2>1, <2>2
<1>5. refs' \in [Paths -> Nat \union {None}]
  <2>1. Released(gone) \in [Paths -> Nat \union {None}]
    BY ReleasedFacts
  <2>2. refs' = [p \in Paths |-> refs'[p]]
    BY <2>1 DEF Retained
  <2>3. \A p \in Paths : refs'[p] \in Nat \union {None}
    BY <1>4, <2>1
  <2> QED BY <2>2, <2>3
<1>6. tracks' \in [Tracks -> [voice: 1..MaxLoads \union {None}, playing: BOOLEAN]]
      /\ \A s \in Tracks \ {t} : tracks'[s] = tracks[s]
      /\ tracks'[t].voice = d.id
  BY <1>1, <1>2 DEF SoundTypeOK
<1>7. VoiceTypes'
  <2>1. active' \subseteq Reservations /\ fading' \subseteq active'
    BY <1>1 DEF SoundTypeOK
  <2>2. streams' \subseteq 1..MaxLoads
    BY <1>1, <1>2 DEF SoundTypeOK
  <2> QED BY <1>5, <1>6, <2>1, <2>2 DEF VoiceTypes
<1>8. /\ \A v, w \in active' \union pending' : v.id = w.id => v = w
      /\ \A v \in active' \union pending' : v.id <= loads'
  <2>1. active' \union pending' \subseteq active \union pending
    BY <1>1, <1>2
  <2> QED BY <1>1, <2>1 DEF VoicesInv
<1>9. \A v \in active' : \E s \in Tracks : tracks'[s].voice = v.id
  <2> SUFFICES ASSUME NEW v \in active \ gone PROVE \E s \in Tracks : tracks'[s].voice = v.id
    BY <1>1, <1>6
  <2>1. PICK s \in Tracks : tracks[s].voice = v.id
    BY DEF VoicesInv, VoicesAccounted
  <2>2. s # t
    BY <2>1 DEF Replaced
  <2> QED BY <1>6, <2>1, <2>2
<1>10. streams' = Ids({v \in active' : v.path \in Streamed})
  <2>1. /\ streams = {v.id : v \in {w \in active : w.path \in Streamed}}
        /\ \A v, w \in active : v.id = w.id => v = w
    BY DEF VoicesInv, VoicesAccounted, Ids
  <2>2. streams \ Ids(gone) = {v.id : v \in {w \in active \ gone : w.path \in Streamed}}
    BY <2>1 DEF Ids
  <2>3. {w \in active' : w.path \in Streamed}
          = {w \in active \ gone : w.path \in Streamed}
              \union (IF d.path \in Streamed THEN {d} ELSE {})
    BY <1>1
  <2> QED BY <1>1, <2>2, <2>3 DEF Ids
<1>11. ASSUME NEW p \in Paths \ Streamed
       PROVE  IF refs'[p] = None THEN {v \in active' : v.path = p} = {}
              ELSE refs'[p] = Cardinality({v \in active' : v.path = p})
  <2> DEFINE voices == {v \in active \ gone : v.path = p}
  <2>1. IsFiniteSet(voices)
    <3>1. voices \subseteq active \ gone
      OBVIOUS
    <3> QED BY <1>3, <3>1, FS_Subset
  <2>2. /\ refs[p] = None => Released(gone)[p] = None /\ voices = {}
        /\ refs[p] # None => Released(gone)[p] # None /\ Released(gone)[p] = Cardinality(voices)
        /\ Cardinality(voices) \in Nat
    BY <2>1, ReleasedFacts, FS_CardinalityType
  <2>3. CASE p # d.path
    <3>1. {v \in active' : v.path = p} = voices /\ refs'[p] = Released(gone)[p]
      BY <1>1, <1>4, <2>3
    <3> HIDE DEF voices
    <3> QED BY <2>2, <3>1
  <2>4. CASE p = d.path
    <3>1. {v \in active' : v.path = p} = voices \union {d} /\ d \notin voices
      BY <1>1, <1>2, <2>4
    <3>2. Cardinality(voices \union {d}) = Cardinality(voices) + 1
      BY <2>1, <3>1, FS_AddElement
    <3>3. refs'[p] = IF Released(gone)[p] = None THEN 1 ELSE Released(gone)[p] + 1
      BY <1>4, <2>4
    <3>4. voices = {} => Cardinality(voices) = 0
      BY FS_EmptySet
    <3>5. refs'[p] = Cardinality(voices) + 1
      <4> HIDE DEF voices
      <4> QED BY <2>2, <3>3, <3>4
    <3>6. Cardinality(voices) + 1 # None
      BY <2>2, SilenceAssumption
    <3> QED BY <3>1, <3>2, <3>5, <3>6
  <2> QED BY <2>3, <2>4
<1>12. \A p \in Streamed : refs'[p] = None
  BY <1>4, ReleasedFacts, SoundAssumption DEF VoicesInv
<1> QED BY <1>3, <1>7, <1>8, <1>9, <1>10, <1>11, <1>12 DEF VoicesInv, VoicesAccounted

\* The voice that starts is its owner's; whose owner waits for another does not.
LEMMA StartedOwners ==
    ASSUME SoundTypeOK, LoaderOK, VoicesInv, ReservedInv, OwnersHold,
           decoding \in pending, NEW t \in Tracks, NEW gone \in SUBSET active,
           pending' = pending \ {decoding}, Complete(decoding, TRUE),
           active' = (active \ gone) \union {decoding}, fading' = fading \ gone,
           tracks' = [tracks EXCEPT ![t] = [voice |-> decoding.id, playing |-> TRUE]]
    PROVE  owners' \in [Owners -> Ownerships \union {None}] /\ ReservedInv' /\ OwnersHold'
<1> PICK d \in Reservations : d = decoding
  BY DEF SoundTypeOK
<1>1. /\ active' = (active \ gone) \union {d} /\ d \in pending /\ pending' = pending \ {d}
      /\ d \notin active
  BY DEF LoaderOK, LoaderInv
<1>2. \A o \in Owners : owners'[o] = IF Waits(o, d) THEN [owners[o] EXCEPT !.started = TRUE]
                                     ELSE owners[o]
  <2>1. Complete(d, TRUE)
    OBVIOUS
  <2> QED BY <2>1 DEF Complete
<1>3. owners' \in [Owners -> Ownerships \union {None}]
  <2>1. owners' = [o \in Owners |-> owners'[o]]
    BY DEF Complete
  <2>2. \A o \in Owners : owners'[o] \in Ownerships \union {None}
    BY <1>2 DEF SoundTypeOK, Waits, Ownerships
  <2> QED BY <2>1, <2>2
<1>4. \A l \in pending : l.channel # "effect" =>
         /\ OwnerOf[l.channel] \in Owners
         /\ owners[OwnerOf[l.channel]] = [load |-> l, started |-> FALSE]
  BY ReservedForOwner DEF ReservedInv
<1>5. ReservedInv'
  <2> SUFFICES ASSUME NEW l \in pending', l.channel # "effect"
               PROVE  owners'[OwnerOf[l.channel]] = [load |-> l, started |-> FALSE]
    BY DEF ReservedInv
  <2>1. l \in pending /\ l # d
    BY <1>1
  <2>2. /\ OwnerOf[l.channel] \in Owners
        /\ owners[OwnerOf[l.channel]] = [load |-> l, started |-> FALSE]
    BY <1>4, <2>1
  <2>3. owners[OwnerOf[l.channel]].load = l
    BY <2>2
  <2>4. ~Waits(OwnerOf[l.channel], d)
    BY <2>1, <2>3 DEF Waits
  <2> QED BY <1>2, <2>2, <2>4
<1>6. OwnersHold'
  <2> SUFFICES ASSUME NEW v \in active', v.channel # "effect", Playing(v)', v \notin fading'
               PROVE  v \in Voice(OwnerOf[v.channel])'
    BY DEF OwnersHold
  <2>1. CASE v = d
    <3>1. /\ OwnerOf[d.channel] \in Owners
          /\ owners[OwnerOf[d.channel]] = [load |-> d, started |-> FALSE]
      BY <1>1, <1>4, <2>1
    <3>2. [load |-> d, started |-> FALSE] # None /\ [load |-> d, started |-> TRUE] # None
      BY OwnershipFacts
    <3>3. owners[OwnerOf[d.channel]] # None /\ owners[OwnerOf[d.channel]].load = d
      BY <3>1, <3>2
    <3>4. Waits(OwnerOf[d.channel], d)
      BY <3>3 DEF Waits
    <3>5. owners'[OwnerOf[d.channel]] = [load |-> d, started |-> TRUE]
      BY <1>2, <3>1, <3>4
    <3>6. /\ owners'[OwnerOf[d.channel]] # None /\ owners'[OwnerOf[d.channel]].started
          /\ owners'[OwnerOf[d.channel]].load = d
      BY <3>2, <3>5
    <3> QED BY <1>1, <2>1, <3>6 DEF Voice
  <2>2. CASE v # d
    <3>1. v \in active /\ v \notin gone /\ v.id # d.id /\ v.channel \in Channels
      BY <1>1, <2>2 DEF VoicesInv, SoundTypeOK, Reservations
    <3>2. \A s \in Tracks : tracks'[s] = IF s = t THEN [voice |-> d.id, playing |-> TRUE] ELSE tracks[s]
      BY DEF SoundTypeOK
    <3>3. Playing(v) /\ v \notin fading
      BY <3>1, <3>2 DEF Playing
    <3>4. v \in Voice(OwnerOf[v.channel]) /\ OwnerOf[v.channel] \in Owners
      BY <3>1, <3>3, ChannelFacts DEF OwnersHold
    <3>5. ~Waits(OwnerOf[v.channel], d)
      BY <2>2, <3>4 DEF Waits, Voice
    <3>6. owners'[OwnerOf[v.channel]] = owners[OwnerOf[v.channel]]
      BY <1>2, <3>4, <3>5
    <3> QED BY <3>4, <3>6 DEF Voice
  <2> QED BY <2>1, <2>2
<1> QED BY <1>3, <1>5, <1>6

\* A decoded voice starts, or the output refuses it.
LEMMA StartKeeps ==
    ASSUME SoundInv, Start
    PROVE  SoundInv'
<1>1. SoundTypeOK /\ LoaderOK /\ VoicesInv /\ ReservedInv /\ OwnerTypes /\ OwnersHold
  BY SoundParts
<1>2. /\ decoding # None /\ decoding' = None /\ decoding \in pending
      /\ pending' = pending \ {decoding} /\ jobs' = jobs \ Job
      /\ UNCHANGED <<loads, queued, activeRead, repeat>>
      /\ at' \in Phases \ {"joining", "draining", "down"}
  BY DEF Start, Startable, Phases
<1>3. Candidates \subseteq Tracks
  <2>1. Free \subseteq Tracks /\ Free \in SUBSET Nat
    BY DEF Free, Tracks
  <2>2. Free # {} => Min(Free) \in Free
    BY <2>1, MinFacts
  <2> QED BY <2>1, <2>2 DEF Candidates
<1>4. PICK t \in Tracks :
          \/ /\ active' = (active \ Replaced(t)) \union {decoding}
             /\ fading' = fading \ Replaced(t)
             /\ refs' = Retained(Replaced(t))
             /\ streams' = (streams \ Ids(Replaced(t)))
                               \union (IF decoding.path \in Streamed THEN {decoding.id} ELSE {})
             /\ tracks' = [tracks EXCEPT ![t] = [voice |-> decoding.id, playing |-> TRUE]]
             /\ Complete(decoding, TRUE)
          \/ /\ refs' = IF Kept \/ decoding.path \in Streamed THEN refs
                        ELSE [refs EXCEPT ![decoding.path] = 0]
             /\ tracks' \in {tracks, [tracks EXCEPT ![t].playing = FALSE]}
             /\ Complete(decoding, FALSE)
             /\ UNCHANGED <<active, fading, streams>>
  BY <1>3 DEF Start
<1>5. CASE /\ active' = (active \ Replaced(t)) \union {decoding}
           /\ fading' = fading \ Replaced(t)
           /\ refs' = Retained(Replaced(t))
           /\ streams' = (streams \ Ids(Replaced(t)))
                             \union (IF decoding.path \in Streamed THEN {decoding.id} ELSE {})
           /\ tracks' = [tracks EXCEPT ![t] = [voice |-> decoding.id, playing |-> TRUE]]
           /\ Complete(decoding, TRUE)
  <2>1. VoiceTypes' /\ VoicesInv'
    BY <1>1, <1>2, <1>5, StartedVoices
  <2>2. Replaced(t) \in SUBSET active
    BY DEF Replaced
  <2>3. owners' \in [Owners -> Ownerships \union {None}] /\ ReservedInv' /\ OwnersHold'
    BY <1>1, <1>2, <1>5, <2>2, StartedOwners
  <2>4. LoaderStep
    <3>1. active' \subseteq active \union {decoding}
      BY <1>5
    <3> QED BY <1>1, <1>2, <3>1, DecodingEnds
  <2>5. at' \in Phases /\ PhaseInv'
    BY <1>2, PhaseOpen
  <2>6. SoundTypeOK'
    <3>1. LoaderTypes' /\ OwnerTypes'
      BY <1>1, <1>2, <2>3, <2>4 DEF LoaderStep, LoaderOK, OwnerTypes
    <3> QED BY <2>1, <2>5, <3>1 DEF SoundTypeOK, LoaderTypes, VoiceTypes, OwnerTypes
  <2> QED BY <2>1, <2>3, <2>4, <2>5, <2>6 DEF SoundInv, LoaderStep, LoaderOK
<1>6. CASE /\ refs' = IF Kept \/ decoding.path \in Streamed THEN refs
                      ELSE [refs EXCEPT ![decoding.path] = 0]
           /\ tracks' \in {tracks, [tracks EXCEPT ![t].playing = FALSE]}
           /\ Complete(decoding, FALSE)
           /\ UNCHANGED <<active, fading, streams>>
  <2>1. Silences({})
    <3>1. Released({}) = refs /\ Ids({}) = {} /\ fading \subseteq active
      BY <1>1, ReleasedNone DEF Ids, SoundTypeOK
    <3>2. /\ tracks' \in [Tracks -> [voice: 1..MaxLoads \union {None}, playing: BOOLEAN]]
          /\ \A s \in Tracks : /\ tracks'[s].voice = tracks[s].voice
                               /\ tracks'[s].playing => tracks[s].playing
      <4>1. CASE tracks' = tracks
        BY <1>1, <4>1, SameTracks
      <4>2. CASE tracks' = [tracks EXCEPT ![t].playing = FALSE]
        BY <1>1, <4>2 DEF SoundTypeOK
      <4> QED BY <1>6, <4>1, <4>2
    <3>3. /\ refs' \in [Paths -> Nat \union {None}]
          /\ \A p \in Paths : \/ refs'[p] = refs[p]
                              \/ refs'[p] = 0 /\ p \notin Streamed /\ refs[p] = None
      BY <1>1, <1>6 DEF SoundTypeOK, Kept
    <3> QED BY <1>6, <3>1, <3>2, <3>3 DEF Silences
  <2>2. LoaderStep
    <3>1. active' \subseteq active \union {decoding}
      BY <1>6
    <3> QED BY <1>1, <1>2, <3>1, DecodingEnds
  <2>3. /\ owners' \in [Owners -> Ownerships \union {None}] /\ ReservedInv'
        /\ \A o \in Owners : owners'[o] = owners[o] \/ Voice(o) = {}
    <3> PICK d : d = decoding
      OBVIOUS
    <3>1. d \notin active /\ Complete(d, FALSE) /\ pending' = pending \ {d}
      BY <1>1, <1>2, <1>6 DEF LoaderOK, LoaderInv, LoaderTypes
    <3> QED BY <1>1, <3>1, CompleteFalse
  <2> QED BY <1>1, <1>2, <2>1, <2>2, <2>3, StepKept, PhaseOpen DEF OwnerTypes
<1> QED BY <1>4, <1>5, <1>6

\* A decode that failed or was cancelled is given up.
LEMMA SuppressKeeps ==
    ASSUME SoundInv, Suppress
    PROVE  SoundInv'
<1>1. SoundTypeOK /\ LoaderOK /\ VoicesInv /\ ReservedInv /\ OwnerTypes
  BY SoundParts
<1>2. /\ decoding # None /\ decoding' = None
      /\ pending' = pending \ {decoding} /\ jobs' = jobs \ Job
      /\ UNCHANGED <<loads, active, fading, refs, streams, tracks, queued, activeRead, repeat>>
      /\ at' \in Phases \ {"joining", "draining", "down"} /\ Complete(decoding, FALSE)
  BY DEF Suppress, Phases
<1>3. Silences({})
  <2>1. fading \subseteq active
    BY <1>1 DEF SoundTypeOK
  <2> QED BY <1>1, <1>2, <2>1, StopSilences, SameTracks
<1>4. LoaderStep
  BY <1>1, <1>2, DecodingEnds
<1>5. /\ owners' \in [Owners -> Ownerships \union {None}] /\ ReservedInv'
      /\ \A o \in Owners : owners'[o] = owners[o] \/ Voice(o) = {}
  <2> PICK d : d = decoding
    OBVIOUS
  <2>1. d \in Reservations /\ Staged(d)
    BY <1>1, <1>2 DEF SoundTypeOK, Staged
  <2>2. d \notin active /\ Complete(d, FALSE) /\ pending' = pending \ {d}
    BY <1>1, <1>2, <2>1 DEF LoaderOK, LoaderInv
  <2> QED BY <1>1, <2>2, CompleteFalse
<1> QED BY <1>1, <1>2, <1>3, <1>4, <1>5, StepKept, PhaseOpen DEF OwnerTypes

\* Requests to the workers: the loader changes, nothing else.
LEMMA RequestKeeps ==
    ASSUME SoundInv, UNCHANGED <<engine, owners, repeat>>, LoaderStep, at' \in Phases, PhaseInv'
    PROVE  SoundInv'
<1>1. SoundTypeOK /\ LoaderOK /\ VoicesInv /\ ReservedInv /\ OwnerTypes
  BY SoundParts
<1>2. /\ active' = active /\ fading' = fading /\ refs' = refs /\ streams' = streams
      /\ tracks' = tracks /\ loads' = loads /\ pending' = pending /\ owners' = owners
      /\ repeat' = repeat
  BY DEF engine
<1>3. Silences({})
  <2>1. fading \subseteq active
    BY <1>1 DEF SoundTypeOK
  <2> QED BY <1>1, <1>2, <2>1, StopSilences, SameTracks
<1>4. ReservedInv'
  BY <1>1, <1>2 DEF ReservedInv
<1> QED BY <1>1, <1>2, <1>3, <1>4, StepKept DEF OwnerTypes

\* A decode begins for a reservation that is wanted.
LEMMA SubmitDecodeKeeps ==
    ASSUME SoundInv, SubmitDecode
    PROVE  SoundInv'
<1>1. LoaderOK
  BY SoundParts
<1>2. /\ UNCHANGED <<engine, queued, activeRead, decoding, owners, repeat>>
      /\ loads' = loads /\ pending' = pending /\ active' = active
      /\ decoding \in pending
      /\ jobs' = jobs \union {[load |-> decoding, state |-> "running", cancelled |-> FALSE]}
      /\ at' \in Phases \ {"joining", "draining", "down"}
  BY DEF SubmitDecode, Decodes, engine, Phases
<1>3. LoaderTypes' /\ JobsInv' /\ NewIds
  <2> PICK d \in pending : d = decoding
    BY <1>2
  <2>1. d \in Reservations /\ jobs' = jobs \union {[load |-> d, state |-> "running", cancelled |-> FALSE]}
    BY <1>1, <1>2 DEF LoaderOK, LoaderTypes
  <2>2. LoaderTypes'
    <3>1. [load |-> d, state |-> "running", cancelled |-> FALSE]
            \in [load: Reservations, state: {"running", "done", "failed"}, cancelled: BOOLEAN]
      BY <2>1
    <3>2. jobs' \subseteq [load: Reservations, state: {"running", "done", "failed"}, cancelled: BOOLEAN]
      BY <1>1, <2>1, <3>1 DEF LoaderOK, LoaderTypes
    <3> QED BY <1>1, <1>2, <3>2 DEF LoaderOK, LoaderTypes
  <2>3. JobsInv' /\ NewIds
    BY <1>1, <1>2, <2>1 DEF LoaderOK, JobsInv, NewIds
  <2> QED BY <2>2, <2>3
<1>4. LoaderInv'
  BY <1>1, <1>2 DEF LoaderOK, LoaderInv, Staged
<1> QED BY <1>2, <1>3, <1>4, RequestKeeps, PhaseOpen DEF LoaderStep, LoaderOK

\* A read begins for the first of them in the queue.
LEMMA SubmitReadKeeps ==
    ASSUME SoundInv, SubmitRead
    PROVE  SoundInv'
<1>1. LoaderOK
  BY SoundParts
<1>2. /\ UNCHANGED <<engine, decoding, jobs, owners, repeat>>
      /\ loads' = loads /\ pending' = pending /\ active' = active /\ decoding' = decoding
      /\ decoding = None /\ activeRead = None
      /\ Live # <<>> /\ queued' = Tail(Live)
      /\ activeRead' = [load |-> Head(Live), state |-> "running"]
      /\ at' \in Phases \ {"joining", "draining", "down"}
  BY DEF SubmitRead, Reads, engine, Phases
<1>3. LoaderStep
  BY <1>1, <1>2, LiveLoader
<1> QED BY <1>2, <1>3, RequestKeeps, PhaseOpen

\* A poll that can do nothing may clear the queue's front.
LEMMA WaitKeeps ==
    ASSUME SoundInv, Wait
    PROVE  SoundInv'
<1>1. LoaderOK
  BY SoundParts
<1>2. /\ UNCHANGED <<engine, activeRead, decoding, jobs, owners, repeat>>
      /\ loads' = loads /\ pending' = pending /\ active' = active
      /\ decoding' = decoding /\ activeRead' = activeRead /\ jobs' = jobs
      /\ queued' = IF Reads THEN Live ELSE queued
      /\ at' \in Phases \ {"joining", "draining", "down"}
  BY DEF Wait, engine, Phases
<1>3. CASE Reads
  <2>1. decoding = None /\ activeRead = None /\ queued' = Live /\ activeRead' = None
    BY <1>2, <1>3 DEF Reads
  <2>2. LoaderStep
    BY <1>1, <1>2, <2>1, LiveLoader
  <2> QED BY <1>2, <2>2, RequestKeeps, PhaseOpen
<1>4. CASE ~Reads
  <2>1. LoaderStep
    BY <1>1, <1>2, <1>4, SameLoader DEF loader
  <2> QED BY <1>2, <2>1, RequestKeeps, PhaseOpen
<1> QED BY <1>3, <1>4

\* A kit that has ended is reserved again.
LEMMA RepeatMusicKeeps ==
    ASSUME SoundInv, RepeatMusic
    PROVE  SoundInv'
<1>1. SoundTypeOK /\ LoaderOK /\ VoicesInv /\ ReservedInv /\ OwnerTypes /\ VoiceTypes
  BY SoundParts
<1>2. at' \in Phases \ {"joining", "draining", "down"} /\ repeat' = repeat
  BY DEF RepeatMusic, Phases
<1>3. CASE owners["music"] = None /\ repeat # None
  <2>1. Retire(Stopped) /\ Renew("music", Load(repeat, "music"))
    BY <1>3 DEF RepeatMusic
  <2>2. Stopped \in SUBSET active /\ Silences(Stopped)
    <3>1. Stopped \in SUBSET active
      BY DEF Stopped
    <3> QED BY <1>1, <2>1, <3>1, RetireSilences
  <2> PICK p \in Paths : p = repeat
    BY <1>1, <1>3 DEF OwnerTypes
  <2>3. /\ LoaderStep /\ owners' \in [Owners -> Ownerships \union {None}] /\ ReservedInv'
        /\ \A other \in Owners \ {"music"} : owners'[other] = owners[other]
    <3>1. active' \subseteq active
      BY <2>2 DEF Silences
    <3>2. "music" \in Channels /\ "music" # "effect" /\ OwnerOf["music"] = "music" /\ "music" \in Owners
      BY ChannelFacts DEF Channels
    <3>3. Renew("music", Load(p, "music"))
      BY <2>1
    <3> QED BY <1>1, <3>1, <3>2, <3>3, RenewOwner
  <2>4. Voice("music") = {}
    BY <1>3 DEF Voice
  <2>5. \A o \in Owners : owners'[o] = owners[o] \/ Voice(o) \subseteq Stopped \union fading'
    BY <2>3, <2>4
  <2> QED BY <1>1, <1>2, <2>2, <2>3, <2>5, StepKept, PhaseOpen DEF OwnerTypes
<1>4. CASE ~(owners["music"] = None /\ repeat # None)
  <2>1. UNCHANGED <<engine, loader, owners, repeat>>
    BY <1>2, <1>4 DEF RepeatMusic
  <2> QED BY <1>2, <2>1, PhaseKeeps, PhaseOpen
<1> QED BY <1>3, <1>4

-----------------------------------------------------------------------------
(* Outside the frame.                                                      *)

\* All owners are gone, and their reservations with them.
LEMMA EnterWorldKeeps ==
    ASSUME SoundInv, EnterWorld
    PROVE  SoundInv'
<1> DEFINE gone == Voice("ambience")
           given == Loading("music") \union Loading("ambience")
<1>1. SoundTypeOK /\ LoaderOK /\ VoicesInv /\ ReservedInv /\ OwnerTypes
  BY SoundParts
<1>2. gone \in SUBSET active /\ Voice("music") \subseteq active /\ fading \subseteq active
  BY <1>1 DEF Voice, SoundTypeOK
<1>3. Silences(gone)
  <2>1. /\ tracks' \in [Tracks -> [voice: 1..MaxLoads \union {None}, playing: BOOLEAN]]
        /\ \A t \in Tracks : /\ tracks'[t].voice = tracks[t].voice
                             /\ tracks'[t].playing => tracks[t].playing
    BY <1>1, <1>2, StoppedTracks DEF EnterWorld
  <2>2. /\ active' = active \ gone /\ fading' \subseteq active' /\ fading \ gone \subseteq fading'
        /\ refs' = Released(gone) /\ streams' = streams \ Ids(gone)
    BY <1>2 DEF EnterWorld
  <2> HIDE DEF gone
  <2> QED BY <1>1, <1>2, <2>1, <2>2, ReleaseSilences
<1>4. LoaderStep /\ pending' = pending \ given
  <2>1. active' \subseteq active
    BY <1>3 DEF Silences
  <2> QED BY <1>1, <2>1, CancelLoader DEF EnterWorld, Cancel
<1>5. /\ owners' \in [Owners -> Ownerships \union {None}] /\ repeat' = None
  BY DEF EnterWorld
<1>6. ReservedInv'
  <2>1. \A o \in Owners : Loading(o) \intersect pending' = {}
    BY <1>4, ChannelFacts
  <2> QED BY <1>1, <1>4, <2>1, OwnersChange
<1>7. \A o \in Owners : Voice(o) \subseteq gone \union fading'
  BY ChannelFacts DEF EnterWorld
<1>8. at' \in Phases \ {"joining", "draining", "down"}
  BY DEF EnterWorld, Phases
<1> HIDE DEF gone, given
<1> QED BY <1>2, <1>3, <1>4, <1>5, <1>6, <1>7, <1>8, StepKept, PhaseOpen

\* shutdown cancels what the loader holds, and that is all that is reserved.
LEMMA ShutdownKeeps ==
    ASSUME SoundInv, Shutdown
    PROVE  SoundInv'
<1> DEFINE gone == Voice("music") \union Voice("ambience")
           given == Held \union Loading("music") \union Loading("ambience")
<1>1. SoundTypeOK /\ LoaderOK /\ VoicesInv /\ ReservedInv /\ OwnerTypes
  BY SoundParts
<1>2. gone \in SUBSET active /\ Silences(gone)
  <2>1. gone \in SUBSET active
    BY DEF Voice
  <2> QED BY <1>1, <2>1, RetireSilences DEF Shutdown
<1>3. /\ pending' = pending \ given /\ jobs' = Cancelled(given \intersect pending)
      /\ queued' = <<>> /\ decoding' = None /\ repeat' = None
      /\ owners' = [o \in Owners |-> None] /\ loads' = loads /\ activeRead' = activeRead
      /\ at' = "joining"
  BY DEF Shutdown, Cancel
<1>4. pending' = {}
  <2>1. \A l \in pending : l \in Held
    <3> SUFFICES ASSUME NEW l \in pending PROVE l \in Held
      OBVIOUS
    <3>1. Staged(l) /\ l # None
      BY <1>1, SilenceAssumption DEF LoaderOK, LoaderInv, LoaderTypes
    <3>2. DOMAIN queued = 1..Len(queued)
      BY <1>1 DEF LoaderOK, LoaderTypes
    <3> QED BY <3>1, <3>2 DEF Staged, Held, Held_Reads, ToSet
  <2> QED BY <1>3, <2>1
<1>5. /\ jobs' \subseteq [load: Reservations, state: {"running", "done", "failed"}, cancelled: BOOLEAN]
      /\ \A j \in jobs' : ~j.cancelled => j \in jobs /\ j.load \notin given \intersect pending
  BY <1>1, <1>3, CancelledFacts DEF LoaderOK
<1>6. LoaderStep
  <2>1. LoaderTypes'
    <3>1. queued' \in Seq(Reservations)
      BY <1>3
    <3>2. pending' \subseteq Reservations
      BY <1>4
    <3> HIDE DEF given
    <3> QED BY <1>1, <1>3, <1>5, <3>1, <3>2 DEF LoaderOK, LoaderTypes
  <2>2. JobsInv'
    BY <1>1, <1>3, <1>5 DEF LoaderOK, JobsInv
  <2>3. LoaderInv'
    <3>1. \A l \in Reservations : Staged(l)' => Staged(l)
      <4>1. None \notin Reservations
        BY SilenceAssumption
      <4> QED BY <1>3, <4>1 DEF Staged
    <3>2. active' \subseteq active
      BY <1>2 DEF Silences
    <3>3. Len(queued') = 0 /\ 1..Len(queued') = {}
      BY <1>3
    <3> QED BY <1>1, <1>3, <1>4, <3>1, <3>2, <3>3 DEF LoaderOK, LoaderInv
  <2> QED BY <1>3, <2>1, <2>2, <2>3 DEF LoaderStep, LoaderOK, NewIds
<1>7. owners' \in [Owners -> Ownerships \union {None}] /\ ReservedInv'
  BY <1>3, <1>4 DEF ReservedInv
<1>8. \A o \in Owners : Voice(o) \subseteq gone
  BY ChannelFacts
<1>9. at' \in Phases /\ PhaseInv'
  BY <1>3, <1>4 DEF Phases, PhaseInv
<1> HIDE DEF gone, given
<1> QED BY <1>2, <1>3, <1>6, <1>7, <1>8, <1>9, StepKept

\* Shutdown waits for the read
LEMMA JoinKeeps ==
    ASSUME SoundInv, Join
    PROVE  SoundInv'
<1>1. LoaderOK /\ PhaseInv
  BY SoundParts
<1>2. /\ UNCHANGED <<engine, queued, decoding, jobs, owners, repeat>>
      /\ loads' = loads /\ pending' = pending /\ active' = active
      /\ at = "joining" /\ at' = "draining" /\ activeRead' = None
  BY DEF Join, engine
<1>3. pending = {} /\ decoding = None /\ queued = <<>>
  BY <1>1, <1>2 DEF PhaseInv
<1>4. LoaderStep
  <2>1. LoaderTypes' /\ JobsInv' /\ NewIds
    BY <1>1, <1>2 DEF LoaderOK, LoaderTypes, JobsInv, NewIds
  <2>2. \A l \in Reservations : Staged(l)' => Staged(l)
    BY <1>2 DEF Staged
  <2>3. LoaderInv'
    BY <1>1, <1>2, <1>3, <2>2 DEF LoaderOK, LoaderInv
  <2> QED BY <2>1, <2>3 DEF LoaderStep, LoaderOK
<1>5. at' \in Phases /\ PhaseInv'
  BY <1>2, <1>3 DEF Phases, PhaseInv
<1> QED BY <1>2, <1>4, <1>5, RequestKeeps

\* and for the decodes; those left were all cancelled.
LEMMA DrainKeeps ==
    ASSUME SoundInv, Drain
    PROVE  SoundInv'
<1>1. LoaderOK /\ PhaseInv
  BY SoundParts
<1>2. /\ UNCHANGED <<engine, queued, activeRead, decoding, owners, repeat>>
      /\ loads' = loads /\ pending' = pending /\ active' = active
      /\ at = "draining" /\ at' = "down" /\ jobs' = {j \in jobs : ~j.cancelled}
  BY DEF Drain, engine
<1>3. pending = {} /\ decoding = None /\ queued = <<>> /\ activeRead = None
  BY <1>1, <1>2 DEF PhaseInv
<1>4. jobs' = {}
  BY <1>1, <1>2, <1>3 DEF LoaderOK, JobsInv
<1>5. LoaderStep
  <2>1. LoaderTypes' /\ JobsInv' /\ NewIds
    BY <1>1, <1>2, <1>4 DEF LoaderOK, LoaderTypes, JobsInv, NewIds
  <2>2. LoaderInv'
    BY <1>1, <1>2 DEF LoaderOK, LoaderInv, Staged
  <2> QED BY <2>1, <2>2 DEF LoaderStep, LoaderOK
<1>6. at' \in Phases /\ PhaseInv'
  BY <1>2, <1>3, <1>4 DEF Phases, PhaseInv
<1> QED BY <1>2, <1>5, <1>6, RequestKeeps

\* A worker ends a read
LEMMA EndReadKeeps ==
    ASSUME SoundInv, EndRead
    PROVE  SoundInv'
<1>1. LoaderOK /\ PhaseInv /\ SoundTypeOK
  BY SoundParts
<1>2. PICK result \in {"done", "failed"} : activeRead' = [activeRead EXCEPT !.state = result]
  BY DEF EndRead
<1>3. /\ UNCHANGED <<engine, queued, decoding, jobs, owners, repeat>>
      /\ loads' = loads /\ pending' = pending /\ active' = active /\ at' = at
      /\ activeRead # None
  BY DEF EndRead, engine
<1>4. activeRead' \in FileReads /\ activeRead' # None /\ activeRead'.load = activeRead.load
  <2>1. activeRead \in FileReads
    BY <1>1, <1>3 DEF SoundTypeOK
  <2>2. activeRead' \in FileReads /\ activeRead'.load = activeRead.load
    BY <1>2, <2>1 DEF FileReads
  <2> QED BY <2>2, SilenceAssumption
<1>5. LoaderStep
  <2>1. LoaderTypes' /\ JobsInv' /\ NewIds
    BY <1>1, <1>3, <1>4 DEF LoaderOK, LoaderTypes, JobsInv, NewIds
  <2>2. \A l : Staged(l)' <=> Staged(l)
    BY <1>3, <1>4 DEF Staged
  <2>3. LoaderInv'
    <3>1. pending' \subseteq Reservations
      BY <2>1 DEF LoaderTypes
    <3> QED BY <1>1, <1>3, <1>4, <2>2, <3>1 DEF LoaderOK, LoaderInv
  <2> QED BY <2>1, <2>3 DEF LoaderStep, LoaderOK
<1>6. at' \in Phases /\ PhaseInv'
  BY <1>1, <1>3 DEF SoundTypeOK, PhaseInv
<1> QED BY <1>3, <1>5, <1>6, RequestKeeps

\* or a decode.
LEMMA EndDecodeKeeps ==
    ASSUME SoundInv, EndDecode
    PROVE  SoundInv'
<1>1. LoaderOK /\ PhaseInv /\ SoundTypeOK
  BY SoundParts
<1>2. PICK j \in jobs, result \in {"done", "failed"} :
          jobs' = (jobs \ {j}) \union {[j EXCEPT !.state = result]}
  BY DEF EndDecode
<1>3. /\ UNCHANGED <<engine, queued, activeRead, decoding, owners, repeat>>
      /\ loads' = loads /\ pending' = pending /\ active' = active /\ at' = at
  BY DEF EndDecode, engine
<1>4. PICK ended : ended = [j EXCEPT !.state = result]
  OBVIOUS
<1>5. /\ ended \in [load: Reservations, state: {"running", "done", "failed"}, cancelled: BOOLEAN]
      /\ ended.load = j.load /\ ended.cancelled = j.cancelled
      /\ jobs' = (jobs \ {j}) \union {ended}
  <2>1. j \in [load: Reservations, state: {"running", "done", "failed"}, cancelled: BOOLEAN]
    BY <1>1 DEF SoundTypeOK
  <2> QED BY <1>2, <1>4, <2>1
<1>6. LoaderStep
  <2>1. LoaderTypes' /\ NewIds
    BY <1>1, <1>3, <1>5 DEF LoaderOK, LoaderTypes, NewIds
  <2>2. JobsInv'
    BY <1>1, <1>3, <1>5 DEF LoaderOK, JobsInv
  <2>3. LoaderInv'
    BY <1>1, <1>3 DEF LoaderOK, LoaderInv, Staged
  <2> QED BY <2>1, <2>2, <2>3 DEF LoaderStep, LoaderOK
<1>7. at' \in Phases /\ PhaseInv'
  BY <1>1, <1>2, <1>3 DEF SoundTypeOK, PhaseInv
<1> QED BY <1>3, <1>6, <1>7, RequestKeeps

\* A sound plays to its end.
LEMMA EndVoiceKeeps ==
    ASSUME SoundInv, EndVoice
    PROVE  SoundInv'
<1>1. SoundTypeOK /\ LoaderOK /\ VoicesInv /\ ReservedInv /\ OwnerTypes /\ PhaseInv
  BY SoundParts
<1>2. PICK t \in Tracks : tracks' = [tracks EXCEPT ![t].playing = FALSE]
  BY DEF EndVoice
<1>3. UNCHANGED <<at, loads, pending, active, fading, refs, streams, loader, owners, repeat>>
  BY DEF EndVoice
<1>4. Silences({})
  <2>1. fading \subseteq active
    BY <1>1 DEF SoundTypeOK
  <2>2. /\ tracks' \in [Tracks -> [voice: 1..MaxLoads \union {None}, playing: BOOLEAN]]
        /\ \A s \in Tracks : /\ tracks'[s].voice = tracks[s].voice
                             /\ tracks'[s].playing => tracks[s].playing
    BY <1>1, <1>2 DEF SoundTypeOK
  <2> QED BY <1>1, <1>3, <2>1, <2>2, StopSilences
<1>5. LoaderStep
  BY <1>1, <1>3, SameLoader
<1>6. ReservedInv'
  BY <1>1, <1>3 DEF ReservedInv
<1>7. at' \in Phases /\ PhaseInv'
  BY <1>1, <1>3 DEF SoundTypeOK, PhaseInv, loader
<1> QED BY <1>1, <1>3, <1>4, <1>5, <1>6, <1>7, StepKept DEF OwnerTypes

-----------------------------------------------------------------------------
(* The theorems.                                                           *)

\* Before the first frame nothing is reserved and nothing plays.
LEMMA SoundStarts == SoundInit => SoundInv
<1> SUFFICES ASSUME SoundInit PROVE SoundInv
  OBVIOUS
<1>1. /\ pending = {} /\ active = {} /\ fading = {} /\ streams = {} /\ queued = <<>>
      /\ activeRead = None /\ decoding = None /\ jobs = {} /\ loads = 0 /\ repeat = None
      /\ at = "settings" /\ refs = [p \in Paths |-> None]
      /\ tracks = [t \in Tracks |-> [voice |-> None, playing |-> FALSE]]
      /\ owners = [o \in Owners |-> None]
  BY DEF SoundInit
<1>2. SoundTypeOK
  <2>1. loads \in 0..MaxLoads
    BY <1>1, SoundAssumption
  <2>2. /\ refs \in [Paths -> Nat \union {None}] /\ owners \in [Owners -> Ownerships \union {None}]
        /\ tracks \in [Tracks -> [voice: 1..MaxLoads \union {None}, playing: BOOLEAN]]
    BY <1>1
  <2>3. at \in Phases /\ queued \in Seq(Reservations)
    BY <1>1 DEF Phases
  <2> QED BY <1>1, <2>1, <2>2, <2>3 DEF SoundTypeOK
<1>3. LoaderInv
  <2>1. \A l \in Reservations : ~Staged(l)
    BY <1>1, SilenceAssumption DEF Staged
  <2> QED BY <1>1, <2>1 DEF LoaderInv
<1>4. VoicesInv
  <2>1. IsFiniteSet(active)
    BY <1>1, FS_EmptySet
  <2>2. streams = Ids({v \in active : v.path \in Streamed})
    BY <1>1 DEF Ids
  <2>3. \A p \in Paths : refs[p] = None
    BY <1>1
  <2> QED BY <1>1, <2>1, <2>2, <2>3, SoundAssumption DEF VoicesInv, VoicesAccounted
<1>5. JobsInv /\ ReservedInv /\ OwnersHold /\ PhaseInv
  BY <1>1 DEF JobsInv, ReservedInv, OwnersHold, PhaseInv
<1> QED BY <1>2, <1>3, <1>4, <1>5 DEF SoundInv

\* Every step of the frame, the workers and the output keeps the invariant.
LEMMA SoundSteps == SoundInv /\ [SoundNext]_soundVars => SoundInv'
<1> SUFFICES ASSUME SoundInv, [SoundNext]_soundVars PROVE SoundInv'
  OBVIOUS
<1>1. CASE Media
  <2>1. CASE \E p \in Paths : PlayEffect(p) \/ PlayMusic(p, "music") \/ PlayMusic(p, "script")
                              \/ PlayAmbience(p)
    BY <2>1, PlayEffectKeeps, PlayMusicKeeps, PlayAmbienceKeeps
  <2>2. CASE StopMusic \/ StopAmbience \/ StopEffects \/ Restart \/ Repeated
    BY <2>2, StopMusicKeeps, StopAmbienceKeeps, StopEffectsKeeps, RestartKeeps, RepeatedKeeps
  <2> QED BY <1>1, <2>1, <2>2 DEF Media
<1>2. CASE Frame /\ ~Media
  BY <1>2, TrimKeeps, EndCommandsKeeps, AdvanceFadesKeeps, CollectVoicesKeeps, FileReadEndsKeeps,
     StartKeeps, SuppressKeeps, SubmitDecodeKeeps, SubmitReadKeeps, WaitKeeps, RepeatMusicKeeps,
     JoinKeeps, DrainKeeps DEF Frame
<1>3. CASE BeginCommand \/ EnterWorld \/ Shutdown \/ EndRead \/ EndDecode \/ EndVoice
  BY <1>3, BeginCommandKeeps, EnterWorldKeeps, ShutdownKeeps, EndReadKeeps, EndDecodeKeeps,
     EndVoiceKeeps
<1>4. CASE UNCHANGED soundVars
  <2>1. /\ UNCHANGED <<engine, loader, owners, repeat>> /\ at' = at
        /\ pending' = pending /\ decoding' = decoding /\ queued' = queued
        /\ activeRead' = activeRead /\ jobs' = jobs
    BY <1>4 DEF soundVars, engine, loader
  <2>2. at' \in Phases /\ PhaseInv'
    BY <2>1, SoundParts DEF SoundTypeOK, PhaseInv
  <2> QED BY <2>1, <2>2, PhaseKeeps
<1> QED BY <1>1, <1>2, <1>3, <1>4 DEF SoundNext

\* The inductive invariant of sound loading.
THEOREM SoundInvariant == SoundSpec => []SoundInv
BY SoundStarts, SoundSteps, PTL DEF SoundSpec

\* Every variable of sound loading keeps its type.
THEOREM SoundTypes == SoundSpec => []SoundTypeOK
<1>1. SoundInv => SoundTypeOK
  BY DEF SoundInv
<1> QED BY <1>1, SoundInvariant, PTL

\* The loader's stages are disjoint: a reservation is at one of them.
LEMMA OneStage ==
    ASSUME SoundTypeOK, LoaderInv, NEW l \in pending
    PROVE  Stages(l) = 1
<1> DEFINE places == {i \in DOMAIN queued : queued[i] = l}
<1>1. DOMAIN queued = 1..Len(queued) /\ l \in Reservations /\ l # None
  BY SilenceAssumption DEF SoundTypeOK
<1>2. Stages(l) = Cardinality(places)
                  + (IF activeRead # None /\ activeRead.load = l THEN 1 ELSE 0)
                  + (IF decoding = l THEN 1 ELSE 0)
  BY DEF Stages
<1>3. CASE \E i \in 1..Len(queued) : queued[i] = l
  <2>1. PICK i \in 1..Len(queued) : queued[i] = l
    BY <1>3
  <2>2. places = {i}
    BY <1>1, <2>1 DEF LoaderInv
  <2>3. Cardinality(places) = 1
    BY <2>2, FS_Singleton
  <2>4. decoding # l /\ ~(activeRead # None /\ activeRead.load = l)
    BY <2>1 DEF LoaderInv
  <2> HIDE DEF places
  <2> QED BY <1>2, <2>3, <2>4
<1>4. CASE ~\E i \in 1..Len(queued) : queued[i] = l
  <2>1. places = {}
    BY <1>1, <1>4
  <2>2. Cardinality(places) = 0
    BY <2>1, FS_EmptySet
  <2>3. \/ activeRead # None /\ activeRead.load = l /\ decoding # l
        \/ ~(activeRead # None /\ activeRead.load = l) /\ decoding = l
    BY <1>1, <1>4 DEF LoaderInv, Staged
  <2> HIDE DEF places
  <2> QED BY <1>2, <2>2, <2>3
<1> QED BY <1>3, <1>4

\* Every reservation is at exactly one stage of the loader, and a client that is down
\* has none, nor a worker that reads or decodes.
THEOREM LoadsServed == SoundSpec => []ReservationsServed
<1>1. SoundInv => ReservationsServed
  BY OneStage DEF SoundInv, PhaseInv, ReservationsServed
<1> QED BY <1>1, SoundInvariant, PTL

\* Samples, streams and tracks are held exactly by the voices that use them.
THEOREM VoicesAccountedFor == SoundSpec => []VoicesAccounted
<1>1. SoundInv => VoicesAccounted
  BY DEF SoundInv, VoicesInv
<1> QED BY <1>1, SoundInvariant, PTL

\* What plays without end has an owner or fades.
THEOREM OwnersHoldVoices == SoundSpec => []OwnersHold
<1>1. SoundInv => OwnersHold
  BY DEF SoundInv
<1> QED BY <1>1, SoundInvariant, PTL
=============================================================================
