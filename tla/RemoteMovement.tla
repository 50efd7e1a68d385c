---------------------------- MODULE RemoteMovement ----------------------------
(***************************************************************************)
(* The movement of a unit somebody else controls (runtime application      *)
(* player_movement/remote, systems movement/remote/clock.rs).              *)
(*                                                                         *)
(* The network leaves snapshots, path orders and object baselines in the   *)
(* unit's inbox.  Each frame its movement owner takes them in the order of *)
(* receipt, places every snapshot on the client's clock with the delays    *)
(* seen so far, applies it at once or retains it until it is due, and then *)
(* plays what is due.  All clocks wrap.                                    *)
(***************************************************************************)
EXTENDS Integers, Sequences, SequencesExt, FiniteSetsExt

CONSTANTS
    None,
    Clock,      \* the modulus of every clock, 2^32 ms in the code
    Early,      \* how far a snapshot is moved back at most, 500 ms
    Late,       \* how far ahead at most, 1000 ms
    Prime,      \* the delay a unit starts with, 50 ms
    SampleMax,  \* the largest delay a sample holds, 2^15 - 1 ms
    Samples,    \* delays remembered, 32
    Movements,  \* what an object update makes of the unit
    Lags,       \* how old a snapshot is by the server's clock when it arrives
    Start,      \* the client's clock at first
    MaxLag,     \* bound: the oldest a snapshot may be
    MaxFrame,   \* bound: the longest frame
    MaxQuiet,   \* bound: the longest time between two snapshots of a unit
    MaxEvents,  \* bound: what the network brings
    MaxLives    \* bound: how often the unit appears

Stances == {"still", "moving", "rooted"}

ASSUME RemoteAssumption ==
    /\ None \notin Nat /\ Clock \in Nat /\ Clock % 2 = 0
    /\ {Early, Late, Prime, SampleMax, MaxLag, MaxFrame, MaxQuiet, MaxEvents, MaxLives} \subseteq Nat
    /\ Movements \subseteq [stance : Stances, pathed : BOOLEAN]
    /\ Samples \in Nat \ {0} /\ Lags \subseteq 0..MaxLag /\ Start \in 0..Clock - 1
\* The times in play are within half a turn of the clock, 24 days, of each other.
ASSUME WindowAssumption ==
    2 * (Early + 2 * Late + 2 * MaxLag + 3 * MaxFrame + MaxQuiet) < Clock

VARIABLES
    now,     \* the client's clock
    sinceFrame, \* time since the last service
    quiet,   \* time since the last snapshot
    phase,   \* whether the main thread serves the unit
    object,  \* the unit's lifetime in the world, None when out of range
    ecs,     \* its movement as the world has it
    inbox,   \* RemoteMovementInbox::events
    unit,    \* RuntimeRemoteMovement::owners, for this unit
    lives,   \* lifetimes so far
    events   \* events so far

remoteVars == <<now, sinceFrame, quiet, phase, object, ecs, inbox, unit, lives, events>>

\* A snapshot's kind and flags: what the unit does then, whether a rooted unit ignores
\* it and whether it is taken along a path.
Messages == {"start", "stop", "root", "ride"}
StanceOf == [start |-> "moving", stop |-> "still", root |-> "rooted", ride |-> "moving"]
Axis == {"start", "stop"}
Rides == {"ride"}

-----------------------------------------------------------------------------
\* RemoteMovementClock.

\* wrapping_sub as i32.
Signed(t) == IF t % Clock < Clock \div 2 THEN t % Clock ELSE (t % Clock) - Clock
\* Defect: nothing bounds how far ahead a snapshot may wait.
Clamp_Low(t, low, high) == IF t < low THEN low ELSE t
Clamp(t, low, high) == IF t < low THEN low ELSE IF t > high THEN high ELSE t

NewClock == [known |-> FALSE, server |-> 0, local |-> 0, delay |-> Prime,
             history |-> [i \in 1..Samples |-> IF i <= Samples \div 2 THEN -Prime ELSE Prime]]

\* How far a snapshot is moved, when nothing else tells the unit's time.
\* Defect: it may land before the one placed last.
Settled_Back(shift, at, local) == Clamp(shift, -Early, Late)
Settled(shift, at, local) ==
    LET moved == Clamp(shift, -Early, Late)
    IN  IF Signed(at + moved - local) < 0 THEN Signed(local - at) ELSE moved

\* admit: the clock with the snapshot placed on it.
Admitted(clock, stamp, receipt, idle, pathed) ==
    LET server == IF clock.known THEN clock.server ELSE stamp
        local == IF clock.known THEN clock.local ELSE receipt
        at == IF Signed(receipt - now) < 0 THEN now ELSE receipt
        passed == Max({Signed(stamp - server), 0})
        elapsed == Signed(at - local)
        sample == Clamp(Signed(clock.delay - passed + elapsed), -SampleMax - 1, SampleMax)
        history == Append(Tail(clock.history), sample)
        delay == Max(ToSet(history))
        shift == Signed(passed - elapsed)
        settled == Settled(Signed(shift + delay - clock.delay), at, local)
        moved == CASE pathed -> shift
                   [] ~pathed /\ idle -> Clamp(settled, -Early, Late)
                   [] ~pathed /\ ~idle -> Clamp(shift, -Early, Late)
    IN  [known |-> TRUE, server |-> IF passed > 0 THEN stamp ELSE server,
         local |-> (at + moved) % Clock, history |-> history,
         delay |-> IF idle /\ ~pathed THEN delay ELSE clock.delay]

-----------------------------------------------------------------------------
\* RemoteUnit.

NewUnit == [life |-> object, time |-> now, stance |-> ecs.stance, pathed |-> ecs.pathed,
            clock |-> NewClock, commands |-> <<>>]

\* apply: the snapshot is the unit's movement from then on.
Apply(u, message, time) ==
    [u EXCEPT !.time = time, !.stance = StanceOf[message], !.pathed = @ /\ message \in Rides]
\* blocked_command.
Blocked(u, message) == u.stance = "rooted" /\ message \in Axis

\* advance: commands are played when they are due, the next ones wait.
\* Defect: a command whose time has come waits for the next frame.
DueNow_Later(c) == Signed(now - c.time) > 0
DueNow(c) == Signed(now - c.time) >= 0
Played(u, due) ==
    LET Play(v, c) == IF Blocked(v, c.message) THEN v ELSE Apply(v, c.message, now)
    IN  FoldLeft(Play, u, SubSeq(u.commands, 1, due))
Advance(u) ==
    LET waiting == {i \in DOMAIN u.commands : ~DueNow(u.commands[i])}
        due == IF waiting = {} THEN Len(u.commands) ELSE Min(waiting) - 1
    IN  IF Signed(now - u.time) <= 0 THEN u
        ELSE [u EXCEPT !.time = now, !.stance = Played(u, due).stance,
                       !.pathed = Played(u, due).pathed,
                       !.commands = SubSeq(@, due + 1, Len(@))]

\* baseline_with_passenger: authoritative motion replaces everything but the clock.
Replaced(u, movement, time) ==
    [u EXCEPT !.time = time, !.stance = movement.stance, !.pathed = movement.pathed,
              !.commands = <<>>]

\* receive, of a snapshot that is not due.
Retain(u, command) ==
    LET later == {i \in DOMAIN u.commands : Signed(command.time - u.commands[i].time) < 0}
        place == IF later = {} THEN Len(u.commands) + 1 ELSE Min(later)
    IN  [u EXCEPT !.commands = InsertAt(@, place, command)]
\* receive, of one that corrects the unit now.
Correct(u, message, time) ==
    LET corrected == [Apply(u, message, time) EXCEPT !.commands = <<>>]
    IN  IF Signed(now - time) > 0 THEN [corrected EXCEPT !.time = now] ELSE corrected

\* flush: every retained snapshot is applied at once, its path is kept.
Flushed(u) ==
    IF u.commands = <<>> THEN u
    ELSE [u EXCEPT !.stance = StanceOf[Last(u.commands).message], !.commands = <<>>]
\* stop_before_path, unless a path is being followed.
Halted(u) == [u EXCEPT !.stance = IF @ = "moving" /\ ~u.pathed THEN "still" ELSE @]

-----------------------------------------------------------------------------
RemoteInit ==
    /\ now = Start /\ sinceFrame = 0 /\ quiet = 0 /\ phase = "world"
    /\ object = None /\ ecs = [stance |-> "still", pathed |-> FALSE]
    /\ inbox = <<>> /\ unit = None /\ lives = 0 /\ events = 0

Tick ==
    /\ phase = "world" /\ sinceFrame < MaxFrame /\ quiet < MaxQuiet
    /\ now' = (now + 1) % Clock /\ sinceFrame' = sinceFrame + 1
    /\ quiet' = quiet + 1
    /\ UNCHANGED <<phase, object, ecs, inbox, unit, lives, events>>

\* Packets applied by the main thread before it serves movement.
Arrival == phase = "world" /\ events < MaxEvents
Post(event) == Arrival /\ inbox' = Append(inbox, event) /\ events' = events + 1

\* An object update creates the unit or replaces its movement.
Baseline(movement) == [kind |-> "baseline", receipt |-> now, movement |-> movement]
Create(movement) ==
    /\ phase = "world" /\ object = None /\ lives < MaxLives
    /\ object' = lives + 1 /\ lives' = lives + 1 /\ quiet' = 0
    /\ ecs' = movement /\ inbox' = <<Baseline(movement)>>
    /\ UNCHANGED <<now, sinceFrame, phase, unit, events>>
ReceiveBaseline(movement) ==
    /\ object # None /\ Post(Baseline(movement)) /\ ecs' = movement
    /\ UNCHANGED <<now, sinceFrame, quiet, phase, object, unit, lives>>
ReceiveCommand(message, lag) ==
    /\ object # None /\ quiet' = 0
    /\ Post([kind |-> "command", receipt |-> now, stamp |-> (now - lag) % Clock,
             message |-> message])
    /\ UNCHANGED <<now, sinceFrame, phase, object, ecs, unit, lives>>
ReceivePath(outcome) ==
    /\ object # None
    /\ Post([kind |-> "path", receipt |-> now, outcome |-> outcome])
    /\ UNCHANGED <<now, sinceFrame, quiet, phase, object, ecs, unit, lives>>
\* The inbox goes with its entity, the owner at the next service.
Despawn ==
    /\ phase = "world" /\ object # None /\ object' = None /\ inbox' = <<>>
    /\ UNCHANGED <<now, sinceFrame, quiet, phase, ecs, unit, lives, events>>

\* service: owners follow the objects; an owner whose movement the world has replaced
\* takes it over before its inbox.
Replacement == \E i \in DOMAIN inbox : inbox[i].kind = "baseline"
BeginService ==
    /\ phase = "world" /\ sinceFrame' = 0
    /\ IF object = None THEN unit' = None /\ phase' = "world"
       ELSE /\ phase' = "serving"
            /\ unit' = IF unit = None \/ unit.life # object THEN NewUnit
                       ELSE IF Replacement
                       THEN [unit EXCEPT !.stance = ecs.stance, !.pathed = ecs.pathed] ELSE unit
    /\ UNCHANGED <<now, quiet, object, ecs, inbox, lives, events>>

\* process, one event at a time.
NextEvent(kind) ==
    /\ phase = "serving" /\ inbox # <<>> /\ Head(inbox).kind = kind /\ inbox' = Tail(inbox)
    /\ UNCHANGED <<now, sinceFrame, quiet, phase, object, ecs, lives, events>>
TakeBaseline ==
    /\ NextEvent("baseline")
    /\ unit' = Replaced(unit, Head(inbox).movement, Head(inbox).receipt)
AtRest == unit.stance # "moving" /\ unit.commands = <<>>
TakeSnapshot ==
    /\ NextEvent("command")
    /\ LET e == Head(inbox)
           clock == Admitted(unit.clock, e.stamp, e.receipt, AtRest, unit.pathed)
           u == [unit EXCEPT !.clock = clock]
       IN  unit' = IF unit.pathed \/ Signed(now - clock.local) >= 0
                   THEN Correct(u, e.message, clock.local)
                   ELSE Retain(u, [message |-> e.message, time |-> clock.local])
After == [spline |-> [stance |-> "moving", pathed |-> TRUE],
          place |-> [stance |-> "still", pathed |-> FALSE]]
TakePath ==
    /\ NextEvent("path")
    /\ LET u == Halted(Flushed(unit))
           receipt == Head(inbox).receipt
       IN  unit' = IF Head(inbox).outcome = "refused" THEN u
                   ELSE Replaced(u, After[Head(inbox).outcome], receipt)
EndService ==
    /\ phase = "serving" /\ inbox = <<>> /\ phase' = "world"
    /\ unit' = Advance(unit)
    /\ ecs' = [stance |-> unit'.stance, pathed |-> unit'.pathed]
    /\ UNCHANGED <<now, sinceFrame, quiet, object, inbox, lives, events>>

Service == BeginService \/ TakeBaseline \/ TakeSnapshot \/ TakePath \/ EndService
Receive ==
    \/ \E movement \in Movements : Create(movement) \/ ReceiveBaseline(movement)
    \/ \E message \in Messages, lag \in Lags : ReceiveCommand(message, lag)
    \/ \E outcome \in {"spline", "place", "refused"} : ReceivePath(outcome)
    \/ Despawn
RemoteNext == Tick \/ Receive \/ Service

RemoteSpec == RemoteInit /\ [][RemoteNext]_remoteVars

-----------------------------------------------------------------------------
\* Properties.

InboxEvents ==
    [kind: {"baseline"}, receipt: 0..Clock - 1, movement: Movements]
    \union [kind: {"command"}, receipt: 0..Clock - 1, stamp: 0..Clock - 1, message: Messages]
    \union [kind: {"path"}, receipt: 0..Clock - 1, outcome: {"spline", "place", "refused"}]
Clocks == [known: BOOLEAN, server: 0..Clock - 1, local: 0..Clock - 1, delay: Int,
           history: [1..Samples -> Int]]
Motions == [stance: Stances, pathed: BOOLEAN]
\* Every variable has its type.
RemoteTypeOK ==
    /\ now \in 0..Clock - 1 /\ sinceFrame \in 0..MaxFrame /\ quiet \in 0..MaxQuiet
    /\ phase \in {"world", "serving"} /\ lives \in 0..MaxLives /\ events \in 0..MaxEvents
    /\ object \in 1..MaxLives \union {None} /\ ecs \in Motions /\ inbox \in Seq(InboxEvents)
    /\ unit # None =>
        /\ unit.life \in 1..MaxLives /\ unit.time \in 0..Clock - 1 /\ unit.clock \in Clocks
        /\ [stance |-> unit.stance, pathed |-> unit.pathed] \in Motions
        /\ unit.commands \in Seq([message: Messages, time: 0..Clock - 1])

\* A unit that stands with nothing retained is never given a snapshot before its last
\* one, however packets are delayed and the clocks wrap, unless a path has taken its
\* time further ahead than a snapshot may wait.
TimelineForward ==
    [][ /\ phase = "serving" /\ inbox # <<>> /\ Head(inbox).kind = "command"
        /\ inbox' = Tail(inbox)
        /\ AtRest /\ ~unit.pathed /\ unit.clock.known
        /\ Signed(unit.clock.local - now) <= Late
        => Signed(unit'.clock.local - unit.clock.local) >= 0 ]_remoteVars

\* What is retained is in the order of its times and never more than Late ahead.
Ordered == unit # None => \A i \in DOMAIN unit.commands :
    /\ Signed(unit.commands[i].time - now) <= Late
    /\ i > 1 => Signed(unit.commands[i].time - unit.commands[i - 1].time) >= 0

\* After a frame nothing due is left, unless the unit's own time has reached or passed
\* the frame's already.
NothingOverdue ==
    [][ phase = "serving" /\ phase' = "world" =>
        Signed(unit.time - now) >= 0
        \/ \A i \in DOMAIN unit'.commands : Signed(unit'.commands[i].time - now) > 0 ]_remoteVars
=============================================================================
