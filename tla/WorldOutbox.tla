----------------------------- MODULE WorldOutbox -----------------------------
(***************************************************************************)
(* What the player asks of the server while in a world (runtime            *)
(* application/player_movement.rs, area_triggers.rs, client_services.rs,   *)
(* client_services/world_transfer.rs, gameplay_coordinator.rs and          *)
(* world_ui/logout.rs, ui world/logout.rs, world/state.rs and              *)
(* feature/tutorial.rs).                                                   *)
(*                                                                         *)
(* Each owner retains its requests in a queue of its own and, at its place *)
(* in the frame, moves them to the bounded writer channel until that is    *)
(* full.  Movement belongs to one world and is given up with it, as are    *)
(* death actions; the worldport acknowledgement goes to the channel        *)
(* directly.  Logging out is a conversation with the server in which both  *)
(* sides keep a flag.  Template and name queries are in TemplateQueries.   *)
(***************************************************************************)
EXTENDS Naturals, Sequences, SequencesExt, FiniteSetsExt

CONSTANTS
    None,
    Capacity,     \* WRITER_CHANNEL_CAPACITY, 32 in the code
    MaxWorlds,    \* bound: worlds entered
    MaxAsked,     \* bound: requests of each source, [Sources -> Nat]
    MaxAll        \* bound: requests of all sources together

Sources == {"movement", "corpse", "logout", "death", "tutorial"}

ASSUME OutboxAssumption ==
    /\ None \notin Nat /\ Capacity \in Nat \ {0} /\ MaxWorlds \in Nat \ {0}
    /\ MaxAsked \in [Sources -> Nat] /\ MaxAll \in Nat

VARIABLES
    at,        \* where the main thread is in its frame
    world,     \* which ActiveWorld this is, counting from 1
    created,   \* the local player's create block has arrived in it
    loading,   \* its map is not acknowledged yet
    entering,  \* it replaced another and its player has not been entered yet
    owner,     \* the world of RuntimePlayerMovement's owner, or None
    outbox,    \* per source: the requests retained
    pending,   \* LogoutState::pending
    channel,   \* the writer channel
    server,    \* whether it is logging the player out, and its answers under way
    made,      \* history: how many requests each source has made
    sent,      \* history: requests written, per source
    dropped    \* history: requests given up with their world, per source

history == <<made, sent, dropped>>
vars == <<at, world, created, loading, entering, owner, outbox, pending, channel, server, history>>

Request(s, kind) == [source |-> s, number |-> made[s] + 1, kind |-> kind, world |-> world]
Acknowledgement == [source |-> "transfer", number |-> 0, kind |-> "ack", world |-> world]
Room == Len(channel) < Capacity
Numbers(seq) == [i \in DOMAIN seq |-> seq[i].number]

Init ==
    /\ at = "packets" /\ world = 1 /\ created = FALSE /\ loading = FALSE
    /\ entering = FALSE /\ owner = None
    /\ outbox = [s \in Sources |-> <<>>] /\ pending = FALSE /\ channel = <<>>
    /\ server = [logging |-> FALSE, answers |-> <<>>]
    /\ made = [s \in Sources |-> 0] /\ sent = [s \in Sources |-> <<>>]
    /\ dropped = [s \in Sources |-> {}]

-----------------------------------------------------------------------------
\* Between frames: input handlers, Lua and packets.

\* The queues with one more request, and its number.
MayAsk(s) == made[s] < MaxAsked[s] /\ SumFunction(made) < MaxAll
Queue(s, kind) ==
    /\ MayAsk(s)
    /\ made' = [made EXCEPT ![s] = @ + 1]
    /\ outbox' = [outbox EXCEPT ![s] = Append(@, Request(s, kind))]

\* Corpse queries, death actions (queue_death_action) and tutorial actions.
Ask(s) ==
    /\ at = "packets" /\ s \in {"corpse", "death", "tutorial"} /\ Queue(s, "ask")
    /\ UNCHANGED <<at, world, created, loading, entering, owner, pending, channel, server, sent,
                   dropped>>

\* LogoutState::request refuses while one is pending, unless forced; cancel clears the
\* flag at once.
AskLogout ==
    /\ at = "packets"
    /\ \/ ~pending /\ Queue("logout", "request") /\ pending' = TRUE
       \/ Queue("logout", "force") /\ UNCHANGED pending
       \/ Queue("logout", "cancel") /\ pending' = FALSE
    /\ UNCHANGED <<at, world, created, loading, entering, owner, channel, server, sent, dropped>>

\* logout_update: a refusal or a cancellation clears the flag after its event.
\* Defect: a refusal leaves the flag to a later cancellation.
StillPending_Refused(answer) == pending /\ answer # "cancelled"
StillPending(answer) == pending /\ answer = "accepted"
ReceiveLogout ==
    /\ at = "packets" /\ server.answers # <<>>
    /\ server' = [server EXCEPT !.answers = Tail(@)]
    /\ pending' = StillPending(Head(server.answers))
    /\ UNCHANGED <<at, world, created, loading, entering, owner, outbox, channel, history>>

\* The local player's create block.
CreatePlayer ==
    /\ at = "packets" /\ ~created /\ created' = TRUE
    /\ UNCHANGED <<at, world, loading, entering, owner, outbox, pending, channel, server, history>>

\* begin_world_replacement: the FrameXML owner and the socket stay, death actions and
\* every replicated object go.  A transfer of a map still loading is deferred.
GivenUp(s) == dropped' = [dropped EXCEPT ![s] = @ \union ToSet(Numbers(outbox[s]))]
ReplaceWorld ==
    /\ at = "packets" /\ ~loading /\ world < MaxWorlds
    /\ world' = world + 1 /\ loading' = TRUE /\ entering' = TRUE /\ created' = FALSE
    /\ outbox' = [outbox EXCEPT !["death"] = <<>>] /\ GivenUp("death")
    /\ UNCHANGED <<at, owner, pending, channel, server, made, sent>>

BeginFrame ==
    /\ at = "packets" /\ at' = "move"
    /\ UNCHANGED <<world, created, loading, entering, owner, outbox, pending, channel, server,
                   history>>

-----------------------------------------------------------------------------
\* The frame, in the order of client_services.rs; a source with nothing to send is
\* passed over.  What follows "present" is served by a frame that presents the
\* interface, the rest by every frame.
\* Defect: nothing serves the death actions.
Order_Unserved == <<"trigger", "corpse", "transfer", "present", "logout", "tutorial">>
Order == <<"trigger", "corpse", "transfer", "present", "logout", "death", "tutorial">>
Due(s) == CASE s \in {"trigger", "present"} -> TRUE
            [] s = "transfer" -> loading
            [] OTHER -> outbox[s] # <<>>
From(i) == LET due == {j \in i..Len(Order) : Due(Order[j])}
           IN  IF due = {} THEN "packets" ELSE Order[Min(due)]
Place(s) == CHOOSE i \in DOMAIN Order : Order[i] = s
After == [s \in ToSet(Order) \union {"flush", "triggered"} |->
             From(CASE s = "flush" -> Place("trigger")
                    [] s = "triggered" -> Place("corpse")
                    [] OTHER -> Place(s) + 1)]

\* RuntimePlayerMovement::service.  An owner of an earlier world is reset with its
\* output; without movement state, dimensions or contact nothing more happens.  A new
\* owner selects the active mover.  A replaced path without contact skips the flush.
\* Defect: the owner of an earlier world is replaced, its output kept.
Kept_Output(outdated) == outbox["movement"]
Kept(outdated) == IF outdated THEN <<>> ELSE outbox["movement"]
Move ==
    /\ at = "move"
    /\ LET outdated == owner # None /\ owner # world
           selects == owner = None \/ outdated
       IN  /\ \/ /\ at' = "trigger" /\ owner' = IF outdated THEN None ELSE owner
                 /\ outbox' = [outbox EXCEPT !["movement"] = Kept(outdated)]
                 /\ UNCHANGED made
              \/ /\ created /\ ~selects /\ at' = "flush"
                 /\ UNCHANGED <<owner, outbox, made>>
              \/ /\ created /\ at' \in {"flush", "trigger"} /\ owner' = world
                 /\ MayAsk("movement")
                 /\ made' = [made EXCEPT !["movement"] = @ + 1]
                 /\ outbox' = [outbox EXCEPT !["movement"] = Append(Kept(outdated),
                        Request("movement", IF selects THEN "mover" ELSE "move"))]
           /\ IF outdated THEN GivenUp("movement") ELSE UNCHANGED dropped
    /\ UNCHANGED <<world, created, loading, entering, pending, channel, server, sent>>

\* RuntimeAreaTriggers::service asks for the player's objects, not for an owner of its
\* movement: a pair may be retained before there is one.
Trigger ==
    /\ at = "trigger"
    /\ \/ at' = After[at] /\ UNCHANGED <<outbox, made>>
       \/ /\ created /\ at' = "triggered"
          /\ Queue("movement", IF owner = None THEN "early" ELSE "trigger")
    /\ UNCHANGED <<world, created, loading, entering, owner, pending, channel, server, sent,
                   dropped>>

\* flush_output, send_corpse_queries and send_world_ui_actions keep the front request
\* until the writer has admitted it.
\* Defect: a request the full writer refused is forgotten.
Remaining_Lost(s) == Tail(outbox[s])
Remaining(s) == IF Room THEN Tail(outbox[s]) ELSE outbox[s]
Send(s, stage) ==
    /\ at = stage
    /\ channel' = IF outbox[s] # <<>> /\ Room THEN Append(channel, Head(outbox[s])) ELSE channel
    /\ outbox' = IF outbox[s] # <<>> THEN [outbox EXCEPT ![s] = Remaining(s)] ELSE outbox
    /\ at' = IF outbox[s] # <<>> /\ Room THEN at ELSE After[stage]
    /\ UNCHANGED <<world, created, loading, entering, owner, pending, server, history>>

\* complete_world_transfer_map, once the terrain frame of the destination exists.
Acknowledge ==
    /\ at = "transfer" /\ at' = After[at]
    /\ \/ /\ Room /\ loading' = FALSE /\ channel' = Append(channel, Acknowledgement)
       \/ UNCHANGED <<loading, channel>>
    /\ UNCHANGED <<world, created, entering, owner, outbox, pending, server, history>>

\* complete_player: the destination has its map and the player is resident in it.
EnterReplacement ==
    /\ at = "present" /\ entering /\ ~loading /\ created
    /\ entering' = FALSE
    /\ UNCHANGED <<at, world, created, loading, owner, outbox, pending, channel, server, history>>

\* present_frame returns before send_world_ui_actions when the window is suspended, a
\* loading card is presented, a world is being entered or an error ends the frame.
PresentNothing ==
    /\ at = "present" /\ at' = "packets"
    /\ UNCHANGED <<world, created, loading, entering, owner, outbox, pending, channel, server,
                   history>>
Present ==
    /\ at = "present" /\ ~entering /\ at' = After[at]
    /\ UNCHANGED <<world, created, loading, entering, owner, outbox, pending, channel, server,
                   history>>

-----------------------------------------------------------------------------
\* The network task, and the server's side of logging out (external): it accepts or
\* refuses a request, each cancellation is answered, a forced logout is not.
Answers(kind) == CASE kind = "request" -> {"accepted", "refused"}
                   [] kind = "cancel" -> {"cancelled"}
                   [] OTHER -> {}
Serve(kind) ==
    IF Answers(kind) = {} THEN UNCHANGED server
    ELSE \E answer \in Answers(kind) :
            server' = [logging |-> answer = "accepted", answers |-> Append(server.answers, answer)]

\* service_world_writer takes the oldest command.
Write ==
    /\ channel # <<>> /\ channel' = Tail(channel)
    /\ LET command == Head(channel)
       IN  /\ sent' = IF command.source \in Sources
                      THEN [sent EXCEPT ![command.source] = Append(@, command.number)]
                      ELSE sent
           /\ IF command.source = "logout" THEN Serve(command.kind) ELSE UNCHANGED server
    /\ UNCHANGED <<at, world, created, loading, entering, owner, outbox, pending, made, dropped>>

Frame ==
    \/ BeginFrame \/ Move \/ Trigger \/ Acknowledge
    \/ EnterReplacement \/ PresentNothing \/ Present
    \/ Send("movement", "flush") \/ Send("movement", "triggered")
    \/ \E s \in Sources \ {"movement"} : Send(s, s)
Next ==
    \/ Frame \/ Write \/ AskLogout \/ ReceiveLogout \/ CreatePlayer \/ ReplaceWorld
    \/ \E s \in Sources : Ask(s)

\* The main loop runs frames and the network task writes for as long as the world is
\* connected.  The interface is presented again and again: a window is not minimised
\* for ever, and a world once entered gets its terrain and its player, so that its
\* loading card comes down (the liveness of WorldTransfer).  Entering is done once in
\* each world, so one condition covers its steps.
Enters == CreatePlayer \/ (Acknowledge /\ ~loading') \/ EnterReplacement
OutboxFairness == WF_vars(Frame) /\ WF_vars(Write) /\ SF_vars(Enters) /\ SF_vars(Present)

Spec == Init /\ [][Next]_vars /\ OutboxFairness

-----------------------------------------------------------------------------
\* Properties.

\* Every variable has its type and the writer channel keeps its capacity.
Kinds == {"ask", "request", "force", "cancel", "mover", "move", "trigger", "early", "ack"}
Requests == [source: Sources \union {"transfer"}, number: Nat, kind: Kinds, world: 1..MaxWorlds]
TypeOK ==
    /\ at \in DOMAIN After \union {"packets", "move"}
    /\ world \in 1..MaxWorlds /\ owner \in 1..world \union {None}
    /\ created \in BOOLEAN /\ loading \in BOOLEAN /\ entering \in BOOLEAN /\ pending \in BOOLEAN
    /\ outbox \in [Sources -> Seq(Requests)]
    /\ \A s \in Sources : \A i \in DOMAIN outbox[s] : outbox[s][i].source = s
    /\ channel \in Seq(Requests) /\ Len(channel) <= Capacity
    /\ server \in [logging: BOOLEAN, answers: Seq({"accepted", "refused", "cancelled"})]
    /\ made \in [Sources -> Nat] /\ \A s \in Sources : made[s] <= MaxAsked[s]
    /\ sent \in [Sources -> Seq(Nat)] /\ dropped \in [Sources -> SUBSET Nat]

\* The requests of every source reach the server in the order they were made, none
\* twice, and the only ones missing are those given up with the world they belong to:
\* a full writer neither loses, repeats nor reorders any (flush_output,
\* send_corpse_queries, send_world_ui_actions).
Increasing(seq, places) == \A i, j \in places : i < j => seq[i] < seq[j]
Before(first, second) == \A n \in first : \A m \in second : n < m
Places(s) == {i \in DOMAIN channel : channel[i].source = s}
Admitted(s) == {channel[i].number : i \in Places(s)}
Retained(s) == ToSet(Numbers(outbox[s]))
RequestsKept ==
    \A s \in Sources :
        /\ Increasing(sent[s], DOMAIN sent[s])
        /\ Increasing(Numbers(channel), Places(s))
        /\ Increasing(Numbers(outbox[s]), DOMAIN outbox[s])
        /\ Before(ToSet(sent[s]), Admitted(s) \union Retained(s))
        /\ Before(Admitted(s), Retained(s))
        /\ ToSet(sent[s]) \union Admitted(s) \union Retained(s) = (1..made[s]) \ dropped[s]
        /\ dropped[s] # {} => s \in {"movement", "death"}

\* What an owner of movement, or the player's death, asks is admitted only while its
\* own world is active: nothing of an old world follows its replacement.
Admits(r) == channel' = Append(channel, r)
OfThisWorld ==
    [][\A s \in {"movement", "death"} : \A r \in ToSet(outbox[s]) :
          Admits(r) /\ r.kind # "early" => r.world = world]_vars

\* A client that refuses to ask for a logout has one under way: with nothing about it
\* in flight, the server is logging the player out.  A flag left behind by an order of
\* request, cancellation and answer would lock the player in (LogoutState::pending).
LogoutOpen ==
    pending /\ outbox["logout"] = <<>> /\ server.answers = <<>>
            /\ (\A r \in ToSet(channel) : r.source # "logout")
        => server.logging

\* Whatever is asked of the server is written in the end, by a frame that finds room,
\* unless its world is given up first: corpse queries by any frame, logout, death and
\* tutorial requests by one that presents the interface, which a minimised window, a
\* loading card and a world being entered put off.  Movement waits for as long as its
\* owner has nothing to stand on.
RequestsSent ==
    <>[]\A s \in Sources \ {"movement"} : Len(sent[s]) + Cardinality(dropped[s]) = made[s]
=============================================================================
