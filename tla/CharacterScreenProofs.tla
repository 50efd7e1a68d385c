------------------------ MODULE CharacterScreenProofs ------------------------
(***************************************************************************)
(* Theorems about CharacterScreen for every finite set of characters and   *)
(* every bound.                                                            *)
(*                                                                         *)
(* The argument: phase and worker together say who has the session and how *)
(* far its exchange has come (OwnerInv, ExchangeInv).  From that follows   *)
(* what a list on the screen can be, an older one than the server's only   *)
(* while a refresh is pending or a cancelled operation went unseen         *)
(* (ListInv), and that an entry has its card up (InputInv).                *)
(***************************************************************************)
EXTENDS CharacterScreen, SequenceTheorems, TLAPS

Lent == Operations \union {"refreshing"}
Retained == screen \/ selection \/ InPlay
Changes == {"created", "deleted", "renamed"}

JobKind(operation) ==
    CASE operation = "refreshing" -> "enum"
      [] operation = "creating" -> "create"
      [] operation = "deleting" -> "delete"
      [] operation = "renaming" -> "rename"
      [] operation = "entering" -> "enter"

\* The stream stands between two frames and owes nothing.
Quiet == \A i \in 1..Len(toClient) : toClient[i].kind = "setup"
InStep == ~halfRead /\ toServer = <<>> /\ Quiet /\ Len(toClient) <= spent.setup

\* The session is retained, lent to the task or not there; the task has an
\* outcome exactly when its worker has ended, and the outcome answers it.
OwnerInv ==
    /\ phase = "none" => worker = "idle" /\ outcome = Nothing /\ ~cancelled
    /\ phase # "none" => ~Retained /\ (worker = "idle" <=> outcome.kind # "nothing")
    /\ phase = "connecting" => /\ worker \in {"connecting", "idle"}
                               /\ outcome.kind \in {"nothing", "screen", "error"}
                               /\ ~cancelled
    /\ phase \in Lent => /\ worker \in {"write", "read", "idle"}
                         /\ outcome.kind \in {"nothing", "error", "io"} \union Answers(phase)
                         /\ job.kind = JobKind(phase)
    /\ screen => ~selection /\ ~InPlay
    /\ selection => ~InPlay
    /\ phase \in Operations => ~gameplay
    /\ apart => gameplay

\* How far the exchange has come.  A task that failed may leave anything on a
\* stream that nobody uses again.
ExchangeInv ==
    /\ halfRead => toClient # <<>> /\ (worker = "read" \/ outcome.kind = "io")
    /\ Len(toServer) + Len(toClient) <= spent.setup + 1
    /\ \/ Retained \/ (gameplay /\ phase = "none")
       \/ worker = "write" \/ outcome.kind \in AnswerKinds
       => InStep
    /\ phase = "connecting" => InStep /\ toClient = <<>>
    /\ worker = "read" =>
        /\ toServer \in {<<>>, <<job>>}
        /\ toServer # <<>> => Quiet
        /\ \A i \in 1..Len(toClient) : toClient[i].kind \in {"setup"} \union Answers(phase)
        /\ \A i, j \in 1..Len(toClient) :
               toClient[i].kind # "setup" /\ toClient[j].kind # "setup" => i = j

\* A change was granted and the client does not know yet.
Granting ==
    \/ outcome.kind \in Changes /\ outcome.ok
    \/ \E i \in 1..Len(toClient) : toClient[i].kind \in Changes /\ toClient[i].ok

\* What the directory of a session says of the roster, and the screen of it.
ListInv ==
    /\ phase = "connecting" \/ screen \/ phase = "refreshing" => ~directoryPublished
    /\ directoryPublished /\ ~InPlay => shown = directory
    /\ selection /\ gameplay => directory = roster
    /\ ~pending /\ ~mailbox /\ ~behind =>
        /\ selection => directory = roster
        /\ phase \in Operations /\ outcome.kind \notin {"error", "io"}
            => directory = roster \/ Granting
    /\ outcome.kind = "enum" => outcome.chars = roster
    /\ worker = "read" =>
        \A i \in 1..Len(toClient) : toClient[i].kind = "enum" => toClient[i].chars = roster

\* An entry is covered by the card, under which nothing can be cancelled.
InputInv == phase = "entering" => loading /\ ~cancelled

ScreenInv == TypeOK /\ OwnerInv /\ ExchangeInv /\ ListInv /\ InputInv
-----------------------------------------------------------------------------
(* The flags are Boolean, shown apart as the arithmetic prover cannot.     *)

SessionFlags ==
    /\ cancelled \in BOOLEAN /\ screen \in BOOLEAN /\ selection \in BOOLEAN
    /\ gameplay \in BOOLEAN /\ halfRead \in BOOLEAN /\ serverOpen \in BOOLEAN
    /\ behind \in BOOLEAN

GlueFlags ==
    /\ screenPublished \in BOOLEAN /\ directoryPublished \in BOOLEAN
    /\ mailbox \in BOOLEAN /\ pending \in BOOLEAN /\ loading \in BOOLEAN

RealmFlags == apart \in BOOLEAN /\ query \in BOOLEAN /\ pendingRealm \in BOOLEAN

Flags == SessionFlags /\ GlueFlags /\ RealmFlags

LEMMA InitFlags == Init => Flags
BY Zenon DEF Init, Flags, SessionFlags, GlueFlags, RealmFlags

LEMMA StepSessionFlags ==
    ASSUME Flags, [Next]_vars
    PROVE  SessionFlags'
<1> USE DEF Flags, SessionFlags, GlueFlags, RealmFlags, activeVars, retainedVars, playVars,
    realmVars, streamVars, glueVars
<1>1. CASE ChooseRealm \/ RequestRealmList \/ RealmQuerySettles \/ Disconnect
  BY <1>1, ZenonT(60) DEF ChooseRealm, BeginPendingWorld, Drop, NewStream, Spawn,
     RequestRealmList, RealmQuerySettles, Disconnect, DisconnectFromServer, Settle
<1>2. CASE \/ StatusDialogClick \/ RefuseName \/ ShowCharacterCreate
           \/ LeaveCharacterCreate \/ Admit
  BY <1>2, ZenonT(60) DEF StatusDialogClick, RefuseName, FailQuietly, ShowCharacterCreate,
     LeaveCharacterCreate, ShowCharSelect, Admit, LendForRefresh, Spawn
<1>3. CASE \/ Connect \/ WriteRequest \/ WorkerFails \/ BeginRead \/ FinishRead \/ Serve
           \/ ServerSpeaks \/ ServerCloses \/ UNCHANGED vars
  BY <1>3, ZenonT(60) DEF Connect, WriteRequest, WorkerFails, BeginRead, FinishRead, KeepSetup,
     Serve, ServerSpeaks, ServerCloses, vars
<1>4. CASE PollClosed \/ PollFails \/ GameplayLost \/ WorldShown \/ CompleteLogout
  BY <1>4, ZenonT(60) DEF PollClosed, ConnectionLost, DisconnectFromServer, Settle, Drop,
     NewStream, PollFails, FailQuietly, GameplayLost, WorldShown, CompleteLogout
<1>5. CASE \/ PollRetained \/ PollPending \/ PollScreen \/ PollDirectory \/ PollEntered
           \/ PollRejected
  BY <1>5, ZenonT(60) DEF PollRetained, PublishDirectory, PublishScreen, ShowCharSelect,
     PollPending, PollScreen, Took, Settle, PollDirectory, PollEntered, PollRejected
<1>6. CASE PollCreated \/ PollDeleted \/ PollRenamed
  BY <1>6, ZenonT(60) DEF PollCreated, Unseen, Refused, ShowCharSelect, Took, Settle,
     PollDeleted, Changed, PollRenamed
<1>7. ASSUME NEW c \in Characters, NEW kind, NEW request, Begin(kind, request, c)
      PROVE  SessionFlags'
  BY <1>7, Zenon DEF Begin, Spawn, FailQuietly
<1> QED
  BY <1>1, <1>2, <1>3, <1>4, <1>5, <1>6, <1>7, Zenon
     DEF Next, Poll, Worker, CreateCharacter, DeleteCharacter, RenameCharacter, EnterWorld

LEMMA StepGlueFlags ==
    ASSUME Flags, [Next]_vars
    PROVE  GlueFlags'
<1> USE DEF Flags, SessionFlags, GlueFlags, RealmFlags, activeVars, retainedVars, playVars,
            realmVars, streamVars, glueVars
<1>1. CASE ChooseRealm \/ RequestRealmList \/ RealmQuerySettles \/ Disconnect
  BY <1>1, ZenonT(60) DEF ChooseRealm, BeginPendingWorld, Drop, NewStream, Spawn,
     RequestRealmList, RealmQuerySettles, Disconnect, DisconnectFromServer, Settle
<1>2. CASE \/ StatusDialogClick \/ RefuseName \/ ShowCharacterCreate
           \/ LeaveCharacterCreate \/ Admit
  BY <1>2, ZenonT(60) DEF StatusDialogClick, RefuseName, FailQuietly, ShowCharacterCreate,
     LeaveCharacterCreate, ShowCharSelect, Admit, LendForRefresh, Spawn
<1>3. CASE \/ Connect \/ WriteRequest \/ WorkerFails \/ BeginRead \/ FinishRead \/ Serve
           \/ ServerSpeaks \/ ServerCloses \/ UNCHANGED vars
  BY <1>3, ZenonT(60) DEF Connect, WriteRequest, WorkerFails, BeginRead, FinishRead, KeepSetup,
     Serve, ServerSpeaks, ServerCloses, vars
<1>4. CASE PollClosed \/ PollFails \/ GameplayLost \/ WorldShown \/ CompleteLogout
  BY <1>4, ZenonT(60) DEF PollClosed, ConnectionLost, DisconnectFromServer, Settle, Drop,
     NewStream, PollFails, FailQuietly, GameplayLost, WorldShown, CompleteLogout
<1>5. CASE \/ PollRetained \/ PollPending \/ PollScreen \/ PollDirectory \/ PollEntered
           \/ PollRejected
  BY <1>5, ZenonT(60) DEF PollRetained, PublishDirectory, PublishScreen, ShowCharSelect,
     PollPending, PollScreen, Took, Settle, PollDirectory, PollEntered, PollRejected
<1>6. CASE PollCreated \/ PollDeleted \/ PollRenamed
  BY <1>6, ZenonT(60) DEF PollCreated, Unseen, Refused, ShowCharSelect, Took, Settle,
     PollDeleted, Changed, PollRenamed
<1>7. ASSUME NEW c \in Characters, NEW kind, NEW request, Begin(kind, request, c)
      PROVE  GlueFlags'
  BY <1>7, Zenon DEF Begin, Spawn, FailQuietly
<1> QED
  BY <1>1, <1>2, <1>3, <1>4, <1>5, <1>6, <1>7, Zenon
     DEF Next, Poll, Worker, CreateCharacter, DeleteCharacter, RenameCharacter, EnterWorld

LEMMA StepRealmFlags ==
    ASSUME Flags, [Next]_vars
    PROVE  RealmFlags'
<1> USE DEF Flags, SessionFlags, GlueFlags, RealmFlags, activeVars, retainedVars, playVars,
            realmVars, streamVars, glueVars
<1>1. CASE ChooseRealm \/ RequestRealmList \/ RealmQuerySettles \/ Disconnect
  BY <1>1, ZenonT(60) DEF ChooseRealm, BeginPendingWorld, Drop, NewStream, Spawn,
     RequestRealmList, RealmQuerySettles, Disconnect, DisconnectFromServer, Settle
<1>2. CASE \/ StatusDialogClick \/ RefuseName \/ ShowCharacterCreate
           \/ LeaveCharacterCreate \/ Admit
  BY <1>2, ZenonT(60) DEF StatusDialogClick, RefuseName, FailQuietly, ShowCharacterCreate,
     LeaveCharacterCreate, ShowCharSelect, Admit, LendForRefresh, Spawn
<1>3. CASE \/ Connect \/ WriteRequest \/ WorkerFails \/ BeginRead \/ FinishRead \/ Serve
           \/ ServerSpeaks \/ ServerCloses \/ UNCHANGED vars
  BY <1>3, ZenonT(60) DEF Connect, WriteRequest, WorkerFails, BeginRead, FinishRead, KeepSetup,
     Serve, ServerSpeaks, ServerCloses, vars
<1>4. CASE PollClosed \/ PollFails \/ GameplayLost \/ WorldShown \/ CompleteLogout
  BY <1>4, ZenonT(60) DEF PollClosed, ConnectionLost, DisconnectFromServer, Settle, Drop,
     NewStream, PollFails, FailQuietly, GameplayLost, WorldShown, CompleteLogout
<1>5. CASE \/ PollRetained \/ PollPending \/ PollScreen \/ PollDirectory \/ PollEntered
           \/ PollRejected
  BY <1>5, ZenonT(60) DEF PollRetained, PublishDirectory, PublishScreen, ShowCharSelect,
     PollPending, PollScreen, Took, Settle, PollDirectory, PollEntered, PollRejected
<1>6. CASE PollCreated \/ PollDeleted \/ PollRenamed
  BY <1>6, ZenonT(60) DEF PollCreated, Unseen, Refused, ShowCharSelect, Took, Settle,
     PollDeleted, Changed, PollRenamed
<1>7. ASSUME NEW c \in Characters, NEW kind, NEW request, Begin(kind, request, c)
      PROVE  RealmFlags'
  BY <1>7, Zenon DEF Begin, Spawn, FailQuietly
<1> QED
  BY <1>1, <1>2, <1>3, <1>4, <1>5, <1>6, <1>7, Zenon
     DEF Next, Poll, Worker, CreateCharacter, DeleteCharacter, RenameCharacter, EnterWorld

LEMMA StepFlags ==
    ASSUME Flags, [Next]_vars
    PROVE  Flags'
BY StepSessionFlags, StepGlueFlags, StepRealmFlags DEF Flags
-----------------------------------------------------------------------------
(* Each action keeps the invariant.                                        *)

LEMMA InitInv == Init => ScreenInv
<1> SUFFICES ASSUME Init PROVE ScreenInv
  OBVIOUS
<1> USE InitFlags, ScreenAssumption DEF Init, Flags, SessionFlags, GlueFlags, RealmFlags,
    Nothing
<1>1. TypeOK
  BY DEF TypeOK, Rosters, NoCharacters, Outcomes, Operations
<1>2. OwnerInv
  BY DEF OwnerInv, Retained, InPlay, Lent, Operations
<1>3. ExchangeInv
  BY DEF ExchangeInv, InStep, Quiet, Retained, InPlay, AnswerKinds
<1>4. ListInv /\ InputInv
  BY DEF ListInv, InputInv, Retained, InPlay, Operations
<1> QED BY <1>1, <1>2, <1>3, <1>4 DEF ScreenInv

\* Actions of the screens: the stream is left alone or replaced.
LEMMA SpendRealm ==
    ASSUME ScreenInv, spent.realms < MaxRealms, Spend("realms")
    PROVE  /\ spent' \in [requests : 0..MaxRequests, realms : 0..MaxRealms, setup : 0..MaxSetup]
           /\ spent'.setup = spent.setup
<1>1. spent \in [requests : 0..MaxRequests, realms : 0..MaxRealms, setup : 0..MaxSetup]
  BY DEF ScreenInv, TypeOK
<1>2. spent' = [spent EXCEPT !.realms = spent.realms + 1]
  BY DEF Spend
<1>3. spent.realms + 1 \in 0..MaxRealms
  BY <1>1, ScreenAssumption
<1> QED BY <1>1, <1>2, <1>3

\* A step of the login task beside the coordinator.
LEMMA AsideKeepsInv ==
    ASSUME ScreenInv, Flags', dialog' \in {"none", "cancel", "okay"},
           spent' \in [requests : 0..MaxRequests, realms : 0..MaxRealms, setup : 0..MaxSetup],
           spent'.setup = spent.setup,
           UNCHANGED <<at, activeVars, retainedVars, streamVars, glue, shown, screenPublished,
                       directoryPublished, mailbox, pending, loading, behind>>
    PROVE  ScreenInv'
<1>1. UNCHANGED <<at, phase, cancelled, job, worker, outcome, sinceRequest, screen, selection,
                 gameplay, apart, directory, setup, toServer, toClient, halfRead, roster,
                 serverOpen, glue, shown, screenPublished, directoryPublished, mailbox, pending,
                 loading, behind>>
  BY DEF activeVars, retainedVars, playVars, streamVars
<1>2. TypeOK /\ OwnerInv /\ ExchangeInv /\ ListInv /\ InputInv
  BY DEF ScreenInv
<1>3. TypeOK'
  BY <1>1, <1>2 DEF TypeOK, Flags, SessionFlags, GlueFlags, RealmFlags
<1>4. OwnerInv' /\ ExchangeInv'
  BY <1>1, <1>2 DEF OwnerInv, ExchangeInv, InStep, Quiet, Retained, InPlay
<1>5. ListInv' /\ InputInv'
  BY <1>1, <1>2 DEF ListInv, InputInv, Granting, InPlay
<1> QED BY <1>3, <1>4, <1>5 DEF ScreenInv

LEMMA BeginWorldKeepsInv ==
    ASSUME ScreenInv, Flags', BeginPendingWorld, at' = at,
           dialog' \in {"none", "cancel", "okay"},
           spent' \in [requests : 0..MaxRequests, realms : 0..MaxRealms, setup : 0..MaxSetup],
           spent'.setup = spent.setup
    PROVE  ScreenInv'
<1> USE ScreenAssumption
    DEF ScreenInv, Flags, SessionFlags, GlueFlags, RealmFlags, BeginPendingWorld, Drop,
        NewStream, Spawn, Nothing
<1>1. TypeOK'
  BY DEF TypeOK, Rosters, NoCharacters, Outcomes, Operations
<1>2. OwnerInv'
  BY DEF TypeOK, OwnerInv, Retained, InPlay, Lent, Operations
<1>3. ExchangeInv'
  BY DEF TypeOK, ExchangeInv, InStep, Quiet, Retained, InPlay, AnswerKinds
<1>4. ListInv' /\ InputInv'
  BY DEF TypeOK, ListInv, InputInv, Retained, InPlay, Operations
<1> QED BY <1>1, <1>2, <1>3, <1>4

LEMMA RealmKeepsInv ==
    ASSUME ScreenInv, Flags', RequestRealmList \/ ChooseRealm \/ RealmQuerySettles
    PROVE  ScreenInv'
<1>1. dialog \in {"none", "cancel", "okay"} /\ spent \in
          [requests : 0..MaxRequests, realms : 0..MaxRealms, setup : 0..MaxSetup]
  BY DEF ScreenInv, TypeOK
<1>2. CASE RequestRealmList
  BY <1>2, SpendRealm, AsideKeepsInv DEF RequestRealmList
<1>3. CASE ChooseRealm
  BY <1>1, <1>3, SpendRealm, AsideKeepsInv, BeginWorldKeepsInv DEF ChooseRealm
<1>4. CASE RealmQuerySettles
  BY <1>1, <1>4, AsideKeepsInv, BeginWorldKeepsInv DEF RealmQuerySettles
<1> QED BY <1>2, <1>3, <1>4

LEMMA BeginKeepsInv ==
    ASSUME ScreenInv, Flags', NEW c \in Characters, NEW kind \in Operations,
           Begin(kind, JobKind(kind), c)
    PROVE  ScreenInv'
<1>1. /\ TypeOK /\ OwnerInv /\ ExchangeInv /\ ListInv /\ InputInv
      /\ phase = "none" /\ ~gameplay /\ ~apart
      /\ spent' \in [requests : 0..MaxRequests, realms : 0..MaxRealms, setup : 0..MaxSetup]
      /\ spent'.setup = spent.setup
      /\ UNCHANGED <<at, screen, gameplay, apart, directory, setup, toServer, toClient, halfRead,
                     roster, serverOpen, behind, glue, shown, mailbox, pending>>
  <2>1. spent \in [requests : 0..MaxRequests, realms : 0..MaxRealms, setup : 0..MaxSetup]
    BY DEF ScreenInv, TypeOK
  <2>2. spent' = [spent EXCEPT !.requests = spent.requests + 1] /\ spent.requests < MaxRequests
    BY DEF Begin, Spend
  <2>3. spent.requests + 1 \in 0..MaxRequests
    BY <2>1, <2>2, ScreenAssumption
  <2> QED
    BY <2>1, <2>2, <2>3 DEF ScreenInv, OwnerInv, Begin, Interactive, FailQuietly, playVars,
        streamVars
<1>2. CASE /\ selection /\ selection' = FALSE
           /\ Spawn(kind, "write", Request(JobKind(kind), c))
           /\ dialog' \in {"none", "cancel"} /\ loading' = (kind = "entering")
           /\ directoryPublished' = directoryPublished
  <2>1. Request(JobKind(kind), c) \in Requests /\ Request(JobKind(kind), c).kind = JobKind(kind)
    BY DEF Operations, JobKind, Request, Requests
  <2>2. /\ phase' = kind /\ cancelled' = FALSE /\ worker' = "write" /\ outcome' = Nothing
        /\ job' \in Requests /\ job'.kind = JobKind(kind) /\ sinceRequest' = 0
    BY <1>2, <2>1 DEF Spawn
  <2>3. TypeOK'
    BY <1>1, <1>2, <2>2, ScreenAssumption
       DEF TypeOK, Flags, SessionFlags, GlueFlags, RealmFlags, Nothing, Outcomes
  <2>4. OwnerInv'
    BY <1>1, <1>2, <2>2 DEF OwnerInv, Retained, InPlay, Lent, Operations, Nothing
  <2>5. ExchangeInv'
    BY <1>1, <1>2, <2>2 DEF TypeOK, OwnerInv, ExchangeInv, InStep, Quiet, Retained, InPlay,
        Operations
  <2>6. ListInv' /\ InputInv'
    BY <1>1, <1>2, <2>2 DEF OwnerInv, ListInv, InputInv, InPlay, Operations, Nothing
  <2> QED BY <2>3, <2>4, <2>5, <2>6 DEF ScreenInv
<1>3. CASE /\ UNCHANGED <<phase, cancelled, job, worker, outcome, sinceRequest, selection, dialog>>
           /\ directoryPublished' = FALSE
  <2>1. TypeOK'
    BY <1>1, <1>3 DEF TypeOK, Flags, SessionFlags, GlueFlags, RealmFlags
  <2>2. OwnerInv' /\ ExchangeInv'
    BY <1>1, <1>3 DEF OwnerInv, ExchangeInv, InStep, Quiet, Retained, InPlay
  <2>3. ListInv' /\ InputInv'
    BY <1>1, <1>3 DEF ListInv, InputInv, Granting, InPlay
  <2> QED BY <2>1, <2>2, <2>3 DEF ScreenInv
<1> QED BY <1>2, <1>3 DEF Begin, FailQuietly, activeVars

LEMMA AdmitKeepsInv ==
    ASSUME ScreenInv, Flags', Admit
    PROVE  ScreenInv'
<1> USE DEF ScreenInv, Flags, SessionFlags, GlueFlags, RealmFlags, Admit, CanRefresh,
    LendForRefresh, Spawn, Nothing, JobKind,
            Enumerate, Operations, streamVars, activeVars, playVars, realmVars
<1>1. TypeOK'
  BY DEF TypeOK, Requests, Outcomes
<1>2. OwnerInv'
  BY DEF TypeOK, OwnerInv, Retained, InPlay, Lent
<1>3. ExchangeInv'
  BY DEF TypeOK, OwnerInv, ExchangeInv, InStep, Quiet, Retained, InPlay, AnswerKinds
<1>4. ListInv' /\ InputInv'
  BY DEF TypeOK, OwnerInv, ListInv, InputInv, Retained, InPlay, Granting
<1> QED BY <1>1, <1>2, <1>3, <1>4

LEMMA NavigationKeepsInv ==
    ASSUME ScreenInv, Flags',
           StatusDialogClick \/ RefuseName \/ ShowCharacterCreate \/ LeaveCharacterCreate
    PROVE  ScreenInv'
<1>1. UNCHANGED <<at, phase, job, worker, outcome, sinceRequest, screen, selection, gameplay,
                  apart, directory, setup, toServer, toClient, halfRead, roster, serverOpen,
                  shown, pending, behind, spent>>
  BY DEF StatusDialogClick, RefuseName, FailQuietly, ShowCharacterCreate, LeaveCharacterCreate,
     ShowCharSelect, activeVars, retainedVars, playVars, streamVars
<1>2. /\ ~loading /\ dialog' \in {dialog, "none", "okay"}
      /\ glue' \in {glue, "charselect", "charcreate"}
  BY DEF StatusDialogClick, RefuseName, FailQuietly, ShowCharacterCreate, LeaveCharacterCreate,
     ShowCharSelect, Interactive
<1>3. (cancelled' = cancelled) \/ phase \in Operations
  BY Zenon DEF StatusDialogClick, RefuseName, ShowCharacterCreate, LeaveCharacterCreate,
      activeVars
<1>4. (directoryPublished' => directoryPublished) /\ (mailbox => mailbox')
  <2>1. CASE StatusDialogClick
    BY <2>1, Zenon DEF StatusDialogClick
  <2>2. CASE RefuseName
    <3>1. /\ mailbox' = mailbox
          /\ (directoryPublished' = FALSE) \/ (directoryPublished' = directoryPublished)
      BY <2>2 DEF RefuseName, FailQuietly
    <3>2. mailbox => mailbox'
      BY <3>1, Zenon
    <3>3. directoryPublished' => directoryPublished
      BY <3>1, Zenon
    <3> QED BY <3>2, <3>3
  <2>3. CASE ShowCharacterCreate
    BY <2>3, Zenon DEF ShowCharacterCreate
  <2>4. CASE LeaveCharacterCreate
    BY <2>4, Zenon DEF LeaveCharacterCreate, ShowCharSelect
  <2> QED BY <2>1, <2>2, <2>3, <2>4
<1>5. TypeOK /\ OwnerInv /\ ExchangeInv /\ ListInv /\ InputInv
  BY DEF ScreenInv
<1>6. TypeOK'
  BY <1>5, <1>1, <1>2 DEF TypeOK, Flags, SessionFlags, GlueFlags, RealmFlags
<1>7. OwnerInv' /\ ExchangeInv'
  BY <1>5, <1>1, <1>3 DEF OwnerInv, ExchangeInv, InStep, Quiet, Retained, InPlay, Operations
<1>8. ListInv' /\ InputInv'
  BY <1>5, <1>1, <1>2, <1>3, <1>4 DEF ListInv, InputInv, Granting, InPlay
<1> QED BY <1>6, <1>7, <1>8 DEF ScreenInv

LEMMA ConnectKeepsInv ==
    ASSUME ScreenInv, Flags', Connect \/ WorkerFails
    PROVE  ScreenInv'
<1> USE DEF ScreenInv, Flags, SessionFlags, GlueFlags, RealmFlags, Connect, WorkerFails,
    Finish, Nothing, Operations, AnswerKinds,
            retainedVars, playVars, realmVars, streamVars, glueVars
<1>1. TypeOK'
  BY DEF TypeOK, Outcomes
<1>2. OwnerInv'
  BY DEF TypeOK, OwnerInv, Retained, InPlay, Lent
<1>3. ExchangeInv'
  BY DEF TypeOK, OwnerInv, ExchangeInv, InStep, Quiet, Retained, InPlay
<1>4. ListInv' /\ InputInv'
  BY DEF TypeOK, OwnerInv, ListInv, InputInv, Retained, InPlay, Granting, Changes
<1> QED BY <1>1, <1>2, <1>3, <1>4

LEMMA WriteKeepsInv ==
    ASSUME ScreenInv, Flags', WriteRequest
    PROVE  ScreenInv'
<1> USE DEF ScreenInv, Flags, SessionFlags, GlueFlags, RealmFlags, WriteRequest, Nothing,
    Operations, AnswerKinds,
            retainedVars, playVars, realmVars, glueVars
<1>1. /\ phase \in Lent /\ ~Retained /\ InStep
      /\ job \in Requests
      /\ toServer' = <<job>>
  <2>1. phase \in Lent /\ ~Retained /\ InStep
    BY DEF TypeOK, OwnerInv, ExchangeInv, Lent
  <2>2. job.kind # "nothing"
    BY <2>1 DEF OwnerInv, Lent, JobKind
  <2>3. job \in Requests
    BY <2>2 DEF TypeOK
  <2>4. toServer' = <<job>>
    BY <2>1 DEF InStep
  <2> QED BY <2>1, <2>3, <2>4
<1>2. TypeOK'
  BY <1>1 DEF TypeOK
<1>3. OwnerInv'
  BY <1>1 DEF TypeOK, OwnerInv, Retained, InPlay, Lent
<1>4. ExchangeInv'
  BY <1>1 DEF TypeOK, OwnerInv, ExchangeInv, InStep, Quiet, Retained, InPlay, Lent
<1>5. ListInv' /\ InputInv'
  BY <1>1 DEF TypeOK, OwnerInv, ListInv, InputInv, InStep, Quiet, Retained, InPlay, Granting
<1> QED BY <1>2, <1>3, <1>4, <1>5

LEMMA BeginReadKeepsInv ==
    ASSUME ScreenInv, Flags', BeginRead
    PROVE  ScreenInv'
<1> USE DEF ScreenInv, Flags, SessionFlags, GlueFlags, RealmFlags, BeginRead, Operations,
    activeVars, retainedVars, playVars, realmVars, glueVars
<1>1. TypeOK'
  BY DEF TypeOK
<1>2. OwnerInv'
  BY DEF TypeOK, OwnerInv, Retained, InPlay, Lent
<1>3. ExchangeInv'
  BY DEF TypeOK, OwnerInv, ExchangeInv, InStep, Quiet, Retained, InPlay, AnswerKinds
<1>4. ListInv' /\ InputInv'
  BY DEF TypeOK, OwnerInv, ListInv, InputInv, Retained, InPlay, Granting
<1> QED BY <1>1, <1>2, <1>3, <1>4
\* The stream after its first packet was read.
LEMMA ReadFacts ==
    ASSUME ScreenInv, FinishRead
    PROVE  /\ phase \in Lent /\ ~Retained
           /\ Len(toClient) >= 1 /\ Head(toClient) = toClient[1] /\ Head(toClient) \in Packets
           /\ toClient' \in Seq(Packets) /\ Len(toClient') = Len(toClient) - 1
           /\ \A i \in 1..Len(toClient') : i + 1 \in 1..Len(toClient) /\ toClient'[i] = toClient[i + 1]
<1> USE DEF ScreenInv, TypeOK, FinishRead
<1>1. phase \in Lent /\ ~Retained
  BY DEF OwnerInv, Lent, Operations
<1>2. toClient # <<>>
  BY DEF ExchangeInv
<1>3. Len(toClient) >= 1 /\ Head(toClient) = toClient[1] /\ Head(toClient) \in Packets
  BY <1>2
<1>4. toClient' \in Seq(Packets) /\ Len(toClient') = Len(toClient) - 1
  BY <1>2
<1>5. \A i \in 1..Len(toClient') : i + 1 \in 1..Len(toClient) /\ toClient'[i] = toClient[i + 1]
  BY <1>2, <1>4
<1> QED BY <1>1, <1>3, <1>4, <1>5

LEMMA AnswerKinds1 ==
    ASSUME NEW p \in Lent
    PROVE  Answers(p) \subseteq AnswerKinds
BY DEF Lent, Operations, Answers, AnswerKinds

LEMMA FinishReadKeepsInv ==
    ASSUME ScreenInv, Flags', FinishRead
    PROVE  ScreenInv'
<1>1. /\ phase \in Lent /\ ~Retained
      /\ Len(toClient) >= 1 /\ Head(toClient) = toClient[1] /\ Head(toClient) \in Packets
      /\ toClient' \in Seq(Packets) /\ Len(toClient') = Len(toClient) - 1
      /\ \A i \in 1..Len(toClient') : i + 1 \in 1..Len(toClient) /\ toClient'[i] = toClient[i + 1]
  BY ReadFacts
<1> DEFINE packet == Head(toClient)
           rest == toClient'
<1>2. /\ TypeOK /\ OwnerInv /\ ExchangeInv /\ ListInv /\ InputInv
      /\ worker = "read" /\ halfRead
  BY DEF ScreenInv, FinishRead
<1>3. /\ halfRead' = FALSE
      /\ UNCHANGED <<at, phase, cancelled, job, screen, selection, playVars, directory, toServer,
                     roster, serverOpen, glueVars, behind, realmVars, spent>>
      /\ \/ /\ packet.kind \in Answers(phase)
            /\ outcome' = packet /\ worker' = "idle" /\ UNCHANGED <<setup, sinceRequest>>
         \/ /\ packet.kind \notin Answers(phase)
            /\ KeepSetup
  BY DEF FinishRead, Finish
<1> USE DEF glueVars, playVars, realmVars
<1> HIDE DEF packet, rest
<1>4. CASE packet.kind \in Answers(phase)
  <2>1. /\ outcome' = packet /\ worker' = "idle" /\ UNCHANGED <<setup, sinceRequest>>
        /\ packet.kind \in AnswerKinds
    BY <1>1, <1>3, <1>4, AnswerKinds1
  <2>2. packet.kind # "setup"
    BY <2>1 DEF AnswerKinds
  <2>3. toServer = <<>>
    BY <1>1, <1>2, <2>2 DEF ExchangeInv, Quiet, packet
  <2>4. \A i \in 2..Len(toClient) : toClient[i].kind = "setup"
    BY <1>1, <1>2, <2>2 DEF ExchangeInv, packet
  <2>5. InStep'
    <3>1. Len(toClient') <= spent'.setup
      BY <1>1, <1>2, <1>3, <2>3 DEF TypeOK, ExchangeInv
    <3>2. Quiet'
      BY <1>1, <2>4 DEF Quiet
    <3> QED BY <1>3, <2>3, <3>1, <3>2 DEF InStep
  <2>6. TypeOK'
    <3>1. outcome' \in Outcomes
      BY <1>1, <2>1 DEF Packets, Outcomes, packet
    <3> QED BY <1>1, <1>2, <1>3, <2>1, <3>1, ScreenAssumption DEF TypeOK, Flags, SessionFlags,
        GlueFlags, RealmFlags
  <2>7. OwnerInv'
    BY <1>1, <1>2, <1>3, <1>4, <2>1 DEF TypeOK, OwnerInv, Retained, InPlay, Lent, Operations,
        AnswerKinds
  <2>8. ExchangeInv'
    BY <1>1, <1>2, <1>3, <2>1, <2>5 DEF TypeOK, ExchangeInv, InStep, Retained, InPlay, Lent,
        Operations, AnswerKinds
  <2>9. Granting => Granting'
    BY <1>1, <1>2, <2>1, <2>4 DEF OwnerInv, Granting, Changes, packet, AnswerKinds
  <2>10. ListInv' /\ InputInv'
    <3>1. packet.kind = "enum" => packet.chars = roster
      BY <1>1, <1>2 DEF ListInv, packet
    <3> QED
      BY <1>1, <1>2, <1>3, <2>1, <2>9, <3>1
         DEF TypeOK, ListInv, InputInv, OwnerInv, Retained, InPlay, Lent, Operations,
             AnswerKinds
  <2> QED BY <2>6, <2>7, <2>8, <2>10 DEF ScreenInv
<1>5. CASE packet.kind \notin Answers(phase)
  <2>1. packet.kind = "setup"
    BY <1>1, <1>2, <1>5 DEF ExchangeInv, packet
  <2>2. /\ setup' \in 0..SetupLimit /\ sinceRequest' \in 0..setup'
        /\ \/ outcome' = outcome /\ worker' = worker
           \/ outcome' = [kind |-> "error"] /\ worker' = "idle"
    BY <1>2, <1>3, <1>5, ScreenAssumption, SMTT(30) DEF KeepSetup, Finish, TypeOK
  <2>3. TypeOK'
    <3>1. outcome' \in Outcomes
      BY <1>2, <2>2 DEF TypeOK, Outcomes
    <3> QED BY <1>1, <1>2, <1>3, <2>2, <3>1, ScreenAssumption DEF TypeOK, Flags, SessionFlags,
        GlueFlags, RealmFlags
  <2>4. OwnerInv'
    BY <1>1, <1>2, <1>3, <2>2 DEF TypeOK, OwnerInv, Retained, InPlay, Lent, Operations
  <2>5. ExchangeInv'
    <3>1. toServer # <<>> => Quiet'
      BY <1>1, <1>2 DEF ExchangeInv, Quiet
    <3>2. \A i \in 1..Len(rest) : rest[i].kind \in {"setup"} \union Answers(phase)
      BY <1>1, <1>2 DEF ExchangeInv, rest
    <3>3. \A i, j \in 1..Len(rest) : rest[i].kind # "setup" /\ rest[j].kind # "setup" => i = j
      <4> SUFFICES ASSUME NEW i \in 1..Len(rest), NEW j \in 1..Len(rest),
                          rest[i].kind # "setup", rest[j].kind # "setup"
                   PROVE  i = j
        OBVIOUS
      <4>1. /\ i + 1 \in 1..Len(toClient) /\ toClient[i + 1].kind # "setup"
            /\ j + 1 \in 1..Len(toClient) /\ toClient[j + 1].kind # "setup"
        BY <1>1 DEF rest
      <4>2. i + 1 = j + 1
        BY <1>2, <4>1 DEF ExchangeInv
      <4> QED BY <4>2
    <3>4. /\ ~Retained' /\ phase' # "connecting" /\ phase' # "none"
          /\ worker' # "write" /\ outcome'.kind \notin AnswerKinds
      BY <1>1, <1>2, <1>3, <2>2 DEF OwnerInv, Retained, InPlay, Lent, Operations, AnswerKinds
    <3>5. Len(toServer') + Len(toClient') <= (spent.setup + 1)'
      BY <1>1, <1>2, <1>3 DEF TypeOK, ExchangeInv
    <3> QED
      BY <1>2, <1>3, <3>1, <3>2, <3>3, <3>4, <3>5 DEF ExchangeInv, rest
  <2>6. Granting /\ outcome' = outcome => Granting'
    <3> SUFFICES ASSUME NEW i \in 1..Len(toClient),
                        toClient[i].kind \in Changes, toClient[i].ok
                 PROVE  \E j \in 1..Len(rest) : rest[j].kind \in Changes /\ rest[j].ok
      BY DEF Granting, rest
    <3>1. i # 1
      BY <1>1, <2>1 DEF Changes, packet
    <3>2. i - 1 \in 1..Len(rest) /\ rest[i - 1] = toClient[i]
      BY <1>1, <1>2, <3>1 DEF TypeOK, rest
    <3> QED BY <3>2
  <2>7. ListInv'
    <3>1. \A i \in 1..Len(toClient') :
              toClient'[i].kind = "enum" => toClient'[i].chars = roster
      BY <1>1, <1>2 DEF ListInv
    <3>2. phase' # "none" /\ phase' # "connecting" /\ outcome.kind # "enum"
      BY <1>1, <1>2, <1>3 DEF OwnerInv, Lent, Operations
    <3> QED BY <1>1, <1>2, <1>3, <2>2, <2>6, <3>1, <3>2 DEF ListInv, Retained, InPlay
  <2>8. InputInv'
    BY <1>1, <1>2, <1>3 DEF InputInv, Retained, InPlay
  <2> QED BY <2>3, <2>4, <2>5, <2>7, <2>8 DEF ScreenInv
<1> QED BY <1>4, <1>5
\* What the server appends to the stream when it serves a request.
LEMMA ServeFacts ==
    ASSUME ScreenInv, Serve
    PROVE  /\ ~Retained /\ phase # "connecting" /\ worker # "write"
           /\ ~(gameplay /\ phase = "none")
           /\ outcome.kind \notin AnswerKinds
           /\ toServer' = <<>> /\ roster' \in Rosters
           /\ \E p \in Packets :
                /\ p.kind # "setup"
                /\ toClient' = Append(toClient, p)
                /\ p.kind = "enum" => p.chars = roster'
                /\ roster' # roster => p.kind \in Changes /\ p.ok
                /\ worker = "read" => p.kind \in Answers(phase)
           /\ worker = "read" => toServer # <<>> /\ Quiet
<1> DEFINE request == Head(toServer)
<1>1. /\ ~Retained /\ phase # "connecting" /\ worker # "write"
      /\ ~(gameplay /\ phase = "none")
      /\ outcome.kind \notin AnswerKinds
  BY DEF Serve, ScreenInv, ExchangeInv, InStep
<1>2. worker = "read" => toServer # <<>> /\ Quiet /\ request = job
  BY DEF Serve, ScreenInv, ExchangeInv
<1>3. request \in Requests /\ toServer' = <<>>
  BY DEF Serve, ScreenInv, TypeOK
<1>4. worker = "read" => phase \in Lent /\ request.kind = JobKind(phase)
  BY <1>2 DEF ScreenInv, TypeOK, OwnerInv, Lent, Operations
<1>5. roster \in Rosters
  BY DEF ScreenInv, TypeOK
<1> HIDE DEF request
<1>6. CASE request.kind = "enum"
  <2>1. roster' = roster /\ toClient' = Append(toClient, Packet("enum", TRUE, roster))
    BY <1>6 DEF Serve, request
  <2>2. worker = "read" => "enum" \in Answers(phase)
    BY <1>4, <1>6 DEF Lent, Operations, JobKind, Answers
  <2>3. /\ Packet("enum", TRUE, roster) \in Packets
        /\ Packet("enum", TRUE, roster).kind = "enum"
        /\ Packet("enum", TRUE, roster).chars = roster
    BY <1>5 DEF Packet, Packets, AnswerKinds
  <2> QED BY <1>1, <1>2, <1>3, <1>5, <2>1, <2>2, <2>3
<1>7. CASE request.kind = "enter"
  <2>1. PICK kind \in {"verified", "rejected"}, ok \in BOOLEAN :
            roster' = roster /\ toClient' = Append(toClient, Packet(kind, ok, roster))
    BY <1>7 DEF Serve, request
  <2>2. worker = "read" => kind \in Answers(phase)
    BY <1>4, <1>7 DEF Lent, Operations, JobKind, Answers
  <2>3. /\ Packet(kind, ok, roster) \in Packets
        /\ Packet(kind, ok, roster).kind = kind
    BY <1>5, <2>1 DEF Packet, Packets, AnswerKinds
  <2>4. kind \notin {"setup", "enum"}
    OBVIOUS
  <2> QED BY <1>1, <1>2, <1>3, <1>5, <2>1, <2>2, <2>3, <2>4
<1>8. CASE request.kind \in {"create", "delete", "rename"}
  <2>1. Reply(request) \in Changes /\ Reply(request) \notin {"setup", "enum"}
    BY <1>8 DEF Reply, Changes
  <2>2. worker = "read" => Reply(request) \in Answers(phase)
    BY <1>4, <1>8 DEF Lent, Operations, JobKind, Answers, Reply
  <2>3. CASE /\ roster' = Granted(request)
             /\ toClient' = Append(toClient, Packet(Reply(request), TRUE, roster'))
    <3>1. request.who \in Characters
      BY <1>3, <1>8 DEF Requests, Enumerate
    <3>2. roster' \in Rosters
      BY <1>5, <1>8, <2>3, <3>1 DEF Granted, Rosters
    <3>3. /\ Packet(Reply(request), TRUE, roster') \in Packets
          /\ Packet(Reply(request), TRUE, roster').kind = Reply(request)
          /\ Packet(Reply(request), TRUE, roster').ok
      BY <2>1, <3>2 DEF Packet, Packets, AnswerKinds, Changes
    <3> QED BY <1>1, <1>2, <1>3, <2>1, <2>2, <2>3, <3>2, <3>3
  <2>4. CASE /\ roster' = roster
             /\ toClient' = Append(toClient, Packet(Reply(request), FALSE, roster))
    <3>1. /\ Packet(Reply(request), FALSE, roster) \in Packets
          /\ Packet(Reply(request), FALSE, roster).kind = Reply(request)
      BY <1>5, <2>1 DEF Packet, Packets, AnswerKinds, Changes
    <3> QED BY <1>1, <1>2, <1>3, <1>5, <2>1, <2>2, <2>4, <3>1
  <2> QED BY <1>8, <2>3, <2>4 DEF Serve, request
<1>9. request.kind \in {"enum", "enter", "create", "delete", "rename"}
  BY <1>3 DEF Requests, Enumerate
<1> QED BY <1>6, <1>7, <1>8, <1>9
LEMMA ServeKeepsInv ==
    ASSUME ScreenInv, Flags', Serve
    PROVE  ScreenInv'
<1>1. /\ TypeOK /\ OwnerInv /\ ExchangeInv /\ ListInv /\ InputInv
      /\ UNCHANGED <<at, activeVars, retainedVars, halfRead, serverOpen, glueVars, behind, realmVars, spent>>
      /\ toServer # <<>>
  BY DEF ScreenInv, Serve
<1>2. /\ ~Retained /\ phase # "connecting" /\ worker # "write"
      /\ ~(gameplay /\ phase = "none")
      /\ outcome.kind \notin AnswerKinds
      /\ toServer' = <<>> /\ roster' \in Rosters
      /\ worker = "read" => toServer # <<>> /\ Quiet
  BY ServeFacts
<1>3. PICK p \in Packets :
        /\ p.kind # "setup"
        /\ toClient' = Append(toClient, p)
        /\ p.kind = "enum" => p.chars = roster'
        /\ roster' # roster => p.kind \in Changes /\ p.ok
        /\ worker = "read" => p.kind \in Answers(phase)
  BY ServeFacts
<1>4. /\ toClient' \in Seq(Packets) /\ Len(toClient') = Len(toClient) + 1
      /\ \A i \in 1..Len(toClient) : toClient'[i] = toClient[i]
      /\ toClient'[Len(toClient')] = p
      /\ Len(toServer) >= 1 /\ Len(toServer') = 0
  BY <1>1, <1>2, <1>3 DEF TypeOK
<1>5. UNCHANGED <<at, phase, cancelled, job, worker, outcome, sinceRequest, screen, selection,
                 gameplay, apart, directory, setup, halfRead, serverOpen, glue, dialog, shown,
                 screenPublished, directoryPublished, mailbox, pending, loading, behind,
                     query, pendingRealm, spent>>
  BY <1>1 DEF activeVars, retainedVars, playVars, realmVars, glueVars
<1>6. TypeOK'
  BY <1>1, <1>2, <1>4, <1>5, ScreenAssumption DEF TypeOK, ExchangeInv, Flags, SessionFlags,
      GlueFlags, RealmFlags
<1>7. OwnerInv'
  BY <1>1, <1>2, <1>5 DEF OwnerInv, Retained, InPlay
<1>8. ExchangeInv'
  <2>1. worker = "read" => \A i \in 1..Len(toClient') :
            /\ i # Len(toClient') => toClient'[i].kind = "setup"
            /\ toClient'[i].kind \in {"setup"} \union Answers(phase)
    BY <1>2, <1>3, <1>4 DEF Quiet
  <2>2. Len(toServer') + Len(toClient') <= spent.setup + 1
    BY <1>1, <1>4 DEF TypeOK, ExchangeInv
  <2>3. halfRead => toClient' # <<>>
    BY <1>4
  <2> QED BY <1>1, <1>2, <1>5, <2>1, <2>2, <2>3 DEF ExchangeInv, Retained, InPlay
<1>9. Granting => Granting'
  BY <1>4, <1>5 DEF Granting
<1>10. roster' # roster => Granting'
  <2>1. Len(toClient') \in 1..Len(toClient')
    BY <1>4
  <2> QED BY <1>3, <1>4, <2>1 DEF Granting
<1>11. ListInv'
  <2>1. worker = "read" => \A i \in 1..Len(toClient') :
            toClient'[i].kind = "enum" => toClient'[i].chars = roster'
    BY <1>2, <1>3, <1>4 DEF Quiet
  <2> QED BY <1>1, <1>2, <1>5, <1>9, <1>10, <2>1 DEF ListInv, Retained, InPlay, AnswerKinds
<1>12. InputInv'
  BY <1>1, <1>5 DEF InputInv, Retained, InPlay
<1> QED BY <1>6, <1>7, <1>8, <1>11, <1>12 DEF ScreenInv
LEMMA SpeaksKeepsInv ==
    ASSUME ScreenInv, Flags', ServerSpeaks
    PROVE  ScreenInv'
<1>1. /\ TypeOK /\ OwnerInv /\ ExchangeInv /\ ListInv /\ InputInv
      /\ UNCHANGED <<at, activeVars, retainedVars, toServer, halfRead, roster, serverOpen,
                     glueVars, behind, realmVars>>
      /\ Connected /\ spent.setup < MaxSetup
  BY DEF ScreenInv, ServerSpeaks
<1> DEFINE p == Packet("setup", TRUE, NoCharacters)
<1>2. p \in Packets /\ p.kind = "setup"
  BY DEF Packet, Packets, Rosters, NoCharacters
<1>3. toClient' = Append(toClient, p)
  BY DEF ServerSpeaks
<1> HIDE DEF p
<1>4. /\ toClient' \in Seq(Packets) /\ Len(toClient') = Len(toClient) + 1
      /\ \A i \in 1..Len(toClient) : toClient'[i] = toClient[i]
      /\ toClient'[Len(toClient')] = p
  BY <1>1, <1>2, <1>3 DEF TypeOK
<1>5. UNCHANGED <<at, phase, cancelled, job, worker, outcome, sinceRequest, screen, selection,
                 gameplay, apart, directory, setup, toServer, halfRead, roster, serverOpen,
                     glue, dialog,
                 shown, screenPublished, directoryPublished, mailbox, pending, loading, behind>>
  BY <1>1 DEF activeVars, retainedVars, playVars, realmVars, glueVars
<1>6. /\ spent' \in [requests : 0..MaxRequests, realms : 0..MaxRealms, setup : 0..MaxSetup]
      /\ spent'.setup = spent.setup + 1
  <2>1. spent' = [spent EXCEPT !.setup = spent.setup + 1]
    BY DEF ServerSpeaks, Spend
  <2>2. spent \in [requests : 0..MaxRequests, realms : 0..MaxRealms, setup : 0..MaxSetup]
    BY <1>1 DEF TypeOK
  <2>3. spent.setup + 1 \in 0..MaxSetup
    BY <1>1, <2>2, ScreenAssumption
  <2>4. spent'.setup = spent.setup + 1
    BY <2>1, <2>2
  <2>5. spent' \in [requests : 0..MaxRequests, realms : 0..MaxRealms, setup : 0..MaxSetup]
    BY <2>1, <2>2, <2>3
  <2> QED BY <2>4, <2>5
<1>7. Quiet => Quiet'
  BY <1>2, <1>4 DEF Quiet
<1>8. phase # "connecting"
  BY <1>1 DEF Connected, OwnerInv, Retained, InPlay, Operations
<1>9. Len(toServer') + Len(toClient') <= spent'.setup + 1
  BY <1>1, <1>4, <1>5, <1>6 DEF TypeOK, ExchangeInv
<1>10. TypeOK'
  BY <1>1, <1>4, <1>5, <1>6, <1>9, ScreenAssumption, SMTT(30) DEF TypeOK, Flags, SessionFlags,
      GlueFlags, RealmFlags
<1>11. OwnerInv'
  BY <1>1, <1>5 DEF OwnerInv, Retained, InPlay
<1>12. ExchangeInv'
  <2>1. halfRead => toClient' # <<>>
    BY <1>4
  <2>2. InStep => InStep'
    BY <1>1, <1>4, <1>5, <1>6, <1>7 DEF TypeOK, InStep
  <2>3. worker = "read" =>
            /\ \A i \in 1..Len(toClient') : toClient'[i].kind \in {"setup"} \union Answers(phase)
            /\ \A i, j \in 1..Len(toClient') :
                  toClient'[i].kind # "setup" /\ toClient'[j].kind # "setup" => i = j
    BY <1>1, <1>2, <1>4, SMTT(30) DEF ExchangeInv
  <2> QED BY <1>1, <1>5, <1>7, <1>8, <1>9, <2>1, <2>2, <2>3 DEF ExchangeInv, Retained, InPlay
<1>13. Granting => Granting'
  BY <1>4, <1>5 DEF Granting
<1>14. ListInv'
  <2>1. worker = "read" => \A i \in 1..Len(toClient') :
            toClient'[i].kind = "enum" => toClient'[i].chars = roster
    BY <1>1, <1>2, <1>4 DEF ListInv
  <2> QED BY <1>1, <1>5, <1>13, <2>1 DEF ListInv, InPlay
<1>15. InputInv'
  BY <1>1, <1>5 DEF InputInv, Retained, InPlay
<1> QED BY <1>10, <1>11, <1>12, <1>14, <1>15 DEF ScreenInv

LEMMA ClosesKeepsInv ==
    ASSUME ScreenInv, Flags', ServerCloses \/ UNCHANGED vars
    PROVE  ScreenInv'
<1>1. /\ TypeOK /\ OwnerInv /\ ExchangeInv /\ ListInv /\ InputInv
      /\ UNCHANGED <<at, activeVars, retainedVars, toServer, toClient, halfRead, roster,
                     glueVars, behind, realmVars, spent>>
  BY DEF ScreenInv, ServerCloses, vars, streamVars
<1>2. UNCHANGED <<at, phase, cancelled, job, worker, outcome, sinceRequest, screen, selection,
                 gameplay, apart, directory, setup, toServer, toClient, halfRead, roster,
                     glue, dialog,
                 shown, screenPublished, directoryPublished, mailbox, pending, loading, behind,
                 spent>>
  BY <1>1 DEF activeVars, retainedVars, playVars, realmVars, glueVars
<1>3. TypeOK'
  BY <1>1, <1>2 DEF TypeOK, Flags, SessionFlags, GlueFlags, RealmFlags
<1>4. OwnerInv' /\ ExchangeInv'
  BY <1>1, <1>2 DEF OwnerInv, ExchangeInv, InStep, Quiet, Retained, InPlay
<1>5. ListInv' /\ InputInv'
  BY <1>1, <1>2 DEF ListInv, InputInv, Granting, Retained, InPlay
<1> QED BY <1>3, <1>4, <1>5 DEF ScreenInv
\* A lost session leaves nothing behind.
LEMMA LostKeepsInv ==
    ASSUME ScreenInv, Flags', Disconnect \/ PollClosed \/ PollFails \/ GameplayLost
    PROVE  ScreenInv'
<1>1. /\ TypeOK /\ InputInv /\ OwnerInv
      /\ Settle /\ Drop /\ NewStream
      /\ spent' = spent /\ at' \in {"actions", "poll"}
      /\ \/ glue' = "login" /\ dialog' \in {"okay",
          dialog} /\ gameplay' = FALSE /\ apart' = FALSE
         \/ phase # "none" /\ UNCHANGED <<glue, dialog, gameplay, apart>>
      /\ directoryPublished' = FALSE /\ shown' = shown
  BY DEF ScreenInv, TypeOK, Disconnect, PollClosed, PollFails, GameplayLost, ConnectionLost,
         DisconnectFromServer, FailQuietly, Polling, Interactive, OwnerInv, Nothing, playVars
<1>2. TypeOK'
  BY <1>1, ScreenAssumption
     DEF TypeOK, Flags, SessionFlags, GlueFlags, RealmFlags, Settle, Drop, NewStream, Nothing,
         Outcomes, Rosters, NoCharacters
<1>3. OwnerInv' /\ ExchangeInv'
  BY <1>1 DEF TypeOK, OwnerInv, ExchangeInv, InStep, Quiet, Settle, Drop, NewStream, Nothing,
     Retained, InPlay, Lent, Operations, AnswerKinds
<1>4. ListInv' /\ InputInv'
  BY <1>1 DEF ListInv, InputInv, Settle, Drop, NewStream, Nothing, Retained, InPlay, Operations
<1> QED BY <1>2, <1>3, <1>4 DEF ScreenInv

LEMMA RetainedKeepsInv ==
    ASSUME ScreenInv, Flags', PollRetained \/ PollPending
    PROVE  ScreenInv'
<1>1. /\ TypeOK /\ OwnerInv /\ ExchangeInv /\ ListInv /\ InputInv
      /\ UNCHANGED <<activeVars, retainedVars, streamVars, behind, realmVars, spent>> /\ at' = "actions"
  BY DEF ScreenInv, PollRetained, PollPending, Polling
<1>2. UNCHANGED <<phase, cancelled, job, worker, outcome, sinceRequest, screen, selection,
                 gameplay, apart, directory, setup, toServer, toClient, halfRead, roster,
                     serverOpen,
                 behind, query, pendingRealm, spent>>
  BY <1>1 DEF activeVars, retainedVars, playVars, realmVars, streamVars
<1>3. /\ UNCHANGED <<dialog, pending, loading>>
      /\ \/ UNCHANGED <<glue, shown, directoryPublished, mailbox>>
         \/ /\ selection /\ shown' = directory /\ directoryPublished' = TRUE
            /\ UNCHANGED <<glue, mailbox>>
         \/ /\ screen /\ shown' = NoCharacters /\ glue' = "charselect" /\ mailbox' = TRUE
            /\ UNCHANGED directoryPublished
  BY DEF PollRetained, PollPending, PublishDirectory, PublishScreen, ShowCharSelect, glueVars
<1>4. TypeOK'
  BY <1>1, <1>2, <1>3 DEF TypeOK, Flags, SessionFlags, GlueFlags, RealmFlags, Rosters,
      NoCharacters
<1>5. OwnerInv' /\ ExchangeInv'
  BY <1>1, <1>2 DEF OwnerInv, ExchangeInv, InStep, Quiet, Retained, InPlay
<1>6. ListInv' /\ InputInv'
  BY <1>1, <1>2, <1>3 DEF OwnerInv, ListInv, InputInv, Granting, Retained, InPlay, Operations
<1> QED BY <1>4, <1>5, <1>6 DEF ScreenInv

LEMMA PollScreenKeepsInv ==
    ASSUME ScreenInv, Flags', PollScreen \/ PollDirectory
    PROVE  ScreenInv'
<1> USE DEF ScreenInv, Flags, SessionFlags, GlueFlags, RealmFlags, PollScreen, PollDirectory,
    Took, Polling, Settle, Nothing,
            PublishScreen, PublishDirectory, ShowCharSelect, Operations, AnswerKinds,
                streamVars,
            playVars, realmVars
<1>1. TypeOK'
  BY DEF TypeOK, Outcomes, Rosters, NoCharacters
<1>2. phase \in {"connecting", "refreshing"} /\ ~Retained
  BY DEF TypeOK, OwnerInv, Lent, Answers
<1>3. InStep
  BY <1>2 DEF TypeOK, OwnerInv, ExchangeInv, Lent, Answers
<1>4. OwnerInv' /\ ExchangeInv'
  BY <1>2, <1>3 DEF TypeOK, OwnerInv, ExchangeInv, InStep, Quiet, Retained, InPlay, Lent
<1>5. ListInv' /\ InputInv'
  BY <1>2, <1>3 DEF TypeOK, OwnerInv, ListInv, InputInv, Retained, InPlay, Lent, Answers
<1> QED BY <1>1, <1>4, <1>5

LEMMA PollChangedKeepsInv ==
    ASSUME ScreenInv, Flags', PollCreated \/ PollDeleted \/ PollRenamed
    PROVE  ScreenInv'
<1>1. /\ TypeOK /\ OwnerInv /\ ExchangeInv /\ ListInv /\ InputInv
      /\ outcome.kind \in Changes /\ at' = "actions" /\ Settle /\ selection' = TRUE
      /\ UNCHANGED <<screen, playVars, directory, setup, streamVars, spent>>
  BY DEF ScreenInv, PollCreated, PollDeleted, PollRenamed, Took, Polling, Changes
<1>2. UNCHANGED <<screen, gameplay, apart, directory, setup, toServer, toClient, halfRead, roster,
                 serverOpen, spent>>
  BY <1>1 DEF streamVars, playVars
<1>3. UNCHANGED <<screenPublished, loading, shown>>
  BY DEF PollCreated, PollDeleted, PollRenamed, Unseen, Refused, Changed, glueVars
<1>4. \/ /\ cancelled /\ (outcome.ok => behind') /\ (behind => behind')
         /\ UNCHANGED <<glue, dialog, mailbox, pending, directoryPublished>>
      \/ /\ ~cancelled /\ ~outcome.ok /\ dialog' = "okay"
         /\ UNCHANGED <<glue, mailbox, pending, directoryPublished, behind>>
      \/ /\ ~cancelled /\ dialog' = "none" /\ directoryPublished' = FALSE
         /\ glue' \in {"charselect", glue} /\ (mailbox' \/ pending')
         /\ UNCHANGED behind
  BY DEF PollCreated, PollDeleted, PollRenamed, Unseen, Refused, Changed, ShowCharSelect,
      glueVars
<1>5. phase \in {"creating", "deleting", "renaming"} /\ ~Retained /\ ~gameplay
  BY <1>1 DEF TypeOK, OwnerInv, Lent, Operations, Answers, Changes, Nothing
<1>6. InStep /\ outcome.kind \in AnswerKinds
  BY <1>1 DEF ExchangeInv, Changes, AnswerKinds
<1>7. TypeOK'
  BY <1>1, <1>2, <1>3, <1>4 DEF TypeOK, Flags, SessionFlags, GlueFlags, RealmFlags, Settle,
      Nothing, Outcomes
<1>8. OwnerInv' /\ ExchangeInv'
  BY <1>1, <1>2, <1>5, <1>6 DEF TypeOK, OwnerInv, ExchangeInv, InStep, Quiet, Settle, Nothing,
     Retained, InPlay, Lent, Operations, AnswerKinds
<1>9. Granting => outcome.ok
  BY <1>6 DEF Granting, InStep, Quiet, Changes
<1>10. ListInv'
  BY <1>1, <1>2, <1>3, <1>4, <1>5, <1>9
     DEF ListInv, Retained, InPlay, Settle, Nothing, Operations, Changes
<1>11. InputInv'
  BY <1>1, <1>2, <1>3, <1>4, <1>5 DEF InputInv, Retained, InPlay, Settle, Operations
<1> QED BY <1>7, <1>8, <1>10, <1>11 DEF ScreenInv

LEMMA PollEntryKeepsInv ==
    ASSUME ScreenInv, Flags', PollEntered \/ PollRejected
    PROVE  ScreenInv'
<1>1. /\ TypeOK /\ OwnerInv /\ ExchangeInv /\ ListInv /\ InputInv
      /\ outcome.kind \in {"verified", "rejected"} /\ at' = "actions" /\ Settle
      /\ UNCHANGED <<screen, toServer, toClient, halfRead, roster, serverOpen, spent, glue,
                     screenPublished, mailbox, pending, behind>>
  BY DEF ScreenInv, PollEntered, PollRejected, Took, Polling, streamVars, glueVars
<1>2. \/ /\ gameplay' = TRUE /\ apart' = FALSE /\ directory' = NoCharacters /\ setup' = 0
         /\ UNCHANGED <<selection, dialog, shown, directoryPublished, loading>>
      \/ /\ outcome.kind = "rejected"
         /\ selection' = TRUE /\ shown' = directory /\ directoryPublished' = TRUE
         /\ dialog' = "okay" /\ loading' = FALSE
         /\ UNCHANGED <<gameplay, apart, directory, setup>>
  BY DEF PollEntered, PollRejected, Took, glueVars, playVars
<1>3. phase = "entering" /\ ~Retained /\ ~gameplay
  BY <1>1 DEF TypeOK, OwnerInv, Lent, Operations, Answers, Nothing
<1>4. InStep /\ outcome.kind \notin Changes
  BY <1>1 DEF ExchangeInv, Changes, AnswerKinds
<1>5. TypeOK'
  BY <1>1, <1>2, ScreenAssumption DEF TypeOK, Flags, SessionFlags, GlueFlags, RealmFlags,
      Settle, Nothing, Outcomes, Rosters, NoCharacters
<1>6. OwnerInv' /\ ExchangeInv'
  BY <1>1, <1>2, <1>3, <1>4 DEF TypeOK, OwnerInv, ExchangeInv, InStep, Quiet, Settle, Nothing,
     Retained, InPlay, Lent, Operations, AnswerKinds
<1>7. ~Granting
  BY <1>4 DEF Granting, InStep, Quiet, Changes
<1>8. ListInv'
  BY <1>1, <1>2, <1>3, <1>7 DEF ListInv, Retained, InPlay, Settle, Nothing, Operations
<1>9. InputInv'
  BY <1>1, <1>2, <1>3 DEF InputInv, Retained, InPlay, Settle, Operations
<1> QED BY <1>5, <1>6, <1>8, <1>9 DEF ScreenInv

LEMMA WorldKeepsInv ==
    ASSUME ScreenInv, Flags', WorldShown \/ CompleteLogout
    PROVE  ScreenInv'
<1> USE DEF ScreenInv, Flags, SessionFlags, GlueFlags, RealmFlags, WorldShown, CompleteLogout,
    activeVars, retainedVars, playVars, realmVars, streamVars
<1>1. TypeOK'
  BY DEF TypeOK
<1>3. OwnerInv' /\ ExchangeInv'
  BY DEF TypeOK, OwnerInv, ExchangeInv, InStep, Quiet, Retained, InPlay, Lent, Operations
<1>4. ListInv' /\ InputInv'
  BY DEF TypeOK, OwnerInv, ListInv, InputInv, Granting, Retained, InPlay, Operations
<1> QED BY <1>1, <1>3, <1>4

-----------------------------------------------------------------------------

\* Every reachable state satisfies the invariant: the session is in one place,
\* its stream is in step wherever it is handed on, and the lists and dialogs
\* that rest on it are accounted for.
THEOREM ScreenInvariant == Spec => []ScreenInv
<1>1. ScreenInv => Flags
  BY DEF ScreenInv, TypeOK, Flags, SessionFlags, GlueFlags, RealmFlags
<1>2. ASSUME ScreenInv, Flags', NEW c \in Characters,
             \/ CreateCharacter(c) \/ DeleteCharacter(c)
             \/ RenameCharacter(c) \/ EnterWorld(c)
      PROVE  ScreenInv'
  <2>1. /\ JobKind("creating") = "create" /\ JobKind("deleting") = "delete"
        /\ JobKind("renaming") = "rename" /\ JobKind("entering") = "enter"
        /\ {"creating", "deleting", "renaming", "entering"} \subseteq Operations
    BY DEF JobKind, Operations
  <2>2. PICK kind \in Operations : Begin(kind, JobKind(kind), c)
    BY <1>2, <2>1 DEF CreateCharacter, DeleteCharacter, RenameCharacter, EnterWorld
  <2> QED BY <1>2, <2>2, BeginKeepsInv
<1>3. ScreenInv /\ [Next]_vars => ScreenInv'
  <2> SUFFICES ASSUME ScreenInv, [Next]_vars PROVE ScreenInv'
    OBVIOUS
  <2>1. Flags'
    BY <1>1, StepFlags
  <2> QED
    BY <2>1, <1>2, RealmKeepsInv, AdmitKeepsInv, NavigationKeepsInv, ConnectKeepsInv,
       WriteKeepsInv, BeginReadKeepsInv, FinishReadKeepsInv, ServeKeepsInv, SpeaksKeepsInv,
       ClosesKeepsInv, LostKeepsInv, RetainedKeepsInv, PollScreenKeepsInv, PollChangedKeepsInv,
       PollEntryKeepsInv, WorldKeepsInv
       DEF Next, Poll, Worker
<1> QED BY InitInv, <1>3, PTL DEF Spec

\* The types of every reachable state, and with them the bounds of the two
\* directions of the stream: one request, one answer.
THEOREM TypeCorrect == Spec => []TypeOK
<1>1. ScreenInv => TypeOK
  BY DEF ScreenInv
<1> QED BY <1>1, ScreenInvariant, PTL

\* The encrypted session has one owner, and whoever holds it between two
\* operations finds it between two frames (world_coordinator.rs:457-462).
THEOREM SessionKept == Spec => []SessionInStep
<1>1. ScreenInv => SessionInStep
  <2> SUFFICES ASSUME ScreenInv PROVE SessionHeldOnce /\ RetainedInStep
    BY DEF SessionInStep
  <2>1. SessionHeldOnce
    BY DEF ScreenInv, OwnerInv, SessionHeldOnce, WorkerHolds, Retained, InPlay, Operations,
        Nothing
  <2>2. RetainedInStep
    BY DEF ScreenInv, ExchangeInv, RetainedInStep, InStep, Quiet, Retained, InPlay
  <2> QED BY <2>1, <2>2
<1> QED BY <1>1, ScreenInvariant, PTL

\* Whatever becomes of an entry or of gameplay, the loading card is not left up
\* over the screens, except by a realm choice that waited for a query
\* (client_services.rs:2116, 3333).
THEOREM InputReturns == Spec => CardComesDown
<1>1. ASSUME ScreenInv, Next, CardLeftUp', ~CardLeftUp
      PROVE  pendingRealm /\ ~pendingRealm'
  <2>1. loading' /\ ~gameplay' /\ phase' # "entering"
    BY <1>1 DEF CardLeftUp
  <2>2. TypeOK /\ OwnerInv /\ InputInv
    BY <1>1 DEF ScreenInv
  <2>3. CASE RequestRealmList \/ ChooseRealm \/ Disconnect
    BY <1>1, <2>1, <2>3
       DEF CardLeftUp, RequestRealmList, ChooseRealm, Interactive, BeginPendingWorld,
           Disconnect,
           DisconnectFromServer, activeVars, retainedVars, playVars
  <2>4. CASE RealmQuerySettles
    <3>1. \/ pendingRealm /\ pendingRealm' = FALSE
          \/ UNCHANGED <<loading, gameplay, phase>>
      BY <2>4 DEF RealmQuerySettles, BeginPendingWorld, activeVars, retainedVars, playVars
    <3> QED BY <1>1, <2>1, <3>1, Zenon DEF CardLeftUp
  <2>5. CASE \/ StatusDialogClick \/ RefuseName \/ ShowCharacterCreate
             \/ LeaveCharacterCreate \/ Admit
    BY <1>1, <2>1, <2>5
       DEF CardLeftUp, StatusDialogClick, RefuseName, FailQuietly, ShowCharacterCreate,
           LeaveCharacterCreate, Interactive, Admit, LendForRefresh, Spawn, CanRefresh,
           activeVars, retainedVars, playVars
  <2>6. ASSUME NEW c \in Characters, NEW kind, NEW request, Begin(kind, request, c) PROVE FALSE
    BY <1>1, <2>1, <2>6
       DEF CardLeftUp, Begin, Spawn, FailQuietly, Interactive, activeVars, playVars
  <2>7. CASE Worker \/ Serve \/ ServerSpeaks \/ ServerCloses
    BY <1>1, <2>1, <2>7
       DEF CardLeftUp, Worker, Connect, WriteRequest, WorkerFails, BeginRead, FinishRead,
           Finish,
           Serve, ServerSpeaks, ServerCloses, activeVars, retainedVars, playVars, glueVars
  <2>8. CASE PollClosed \/ PollFails \/ GameplayLost \/ WorldShown \/ CompleteLogout
    BY <1>1, <2>1, <2>8
       DEF CardLeftUp, PollClosed, ConnectionLost, DisconnectFromServer, PollFails, FailQuietly,
           GameplayLost, WorldShown, CompleteLogout, activeVars
  <2>9. CASE \/ PollRetained \/ PollPending \/ PollScreen \/ PollDirectory
             \/ PollCreated \/ PollDeleted \/ PollRenamed \/ PollEntered \/ PollRejected
    <3>1. \/ UNCHANGED <<gameplay, phase>>
          \/ gameplay' = TRUE \/ loading' = FALSE
          \/ UNCHANGED gameplay /\ phase # "entering"
      BY <2>2, <2>9 DEF PollRetained, PollPending, PollScreen, PollDirectory, PollCreated,
         PollDeleted, PollRenamed, PollEntered, PollRejected, Took, OwnerInv, Lent, Operations,
         Answers, TypeOK, activeVars, retainedVars, playVars, Nothing
    <3>2. loading' => loading
      BY <2>9 DEF PollRetained, PollPending, PollScreen, PollDirectory, PollCreated,
          PollDeleted,
         PollRenamed, PollEntered, PollRejected, Unseen, Refused, Changed, PublishScreen,
         PublishDirectory, glueVars
    <3> QED BY <1>1, <2>1, <3>1, <3>2 DEF CardLeftUp
  <2> QED
    BY <1>1, <2>3, <2>4, <2>5, <2>6, <2>7, <2>8, <2>9
       DEF Next, Poll, CreateCharacter, DeleteCharacter, RenameCharacter, EnterWorld
<1>2. ScreenInv /\ [Next]_vars
        => [CardLeftUp' => CardLeftUp \/ (pendingRealm /\ ~pendingRealm')]_vars
  BY <1>1
<1> QED BY <1>2, ScreenInvariant, PTL DEF Spec, CardComesDown

\* A list shown with nothing pending is the server's, unless a cancelled
\* operation succeeded unseen.
THEOREM RosterShown == Spec => []SettledShowsRoster
<1>1. ScreenInv => SettledShowsRoster
  BY DEF ScreenInv, OwnerInv, ListInv, SettledShowsRoster, Retained, InPlay
<1> QED BY <1>1, ScreenInvariant, PTL
=============================================================================
