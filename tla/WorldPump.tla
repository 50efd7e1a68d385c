----------------------------- MODULE WorldPump -----------------------------
(***************************************************************************)
(* The active-world connection of crates/runtime                           *)
(* (application/gameplay_coordinator.rs, client_services/world_transfer.rs,*)
(* network/src/connection/world_duplex.rs): a network task that reads and  *)
(* writes one encrypted socket, the main thread that drains its packets    *)
(* once a frame and admits commands without blocking, and the hand-over of *)
(* the socket to the character screen when LOGOUT_COMPLETE arrives.        *)
(*                                                                         *)
(* Actors: the server, the reader and writer futures of                    *)
(* pump_world_packets (which interleave at every await), and the main      *)
(* thread.  A step that awaits nothing is one action.                      *)
(***************************************************************************)
EXTENDS Integers, Sequences, FiniteSets, SequencesExt

CONSTANTS
    PacketCapacity,    \* PACKET_CHANNEL_CAPACITY, 256 in the code
    CommandCapacity,   \* WRITER_CHANNEL_CAPACITY, 32 in the code
    ServerKinds,       \* what the server may send before LOGOUT_COMPLETE
    MaxPackets,        \* bound: packets the server sends in one behaviour
    MaxCommands,       \* bound: commands the application asks for
    MaxPings           \* bound: ticks of the ping interval

ASSUME PumpAssumption ==
    /\ PacketCapacity \in Nat \ {0} /\ CommandCapacity \in Nat \ {0}
    /\ ServerKinds \subseteq {"data", "newWorld", "sync", "badData", "badSync"}
    /\ MaxPackets \in Nat /\ MaxCommands \in Nat /\ MaxPings \in Nat

VARIABLES
    script,      \* the packets the server sends, in order, fixed by Init
    serverOpen,  \* the peer has not closed the connection
    read,        \* how many packets of the script the reader has consumed
    reader,      \* "reading", or the channel send it is blocked in
    writer,      \* the command being written, Idle between packets
    pings,       \* ticks of the ping interval so far
    pump,        \* where pump_world_packets is
    packets,     \* the packet channel, main thread's receiver
    commands,    \* the writer channel
    frame,       \* where the main thread is in its frame
    client,      \* "world", or how the active world ended
    loading,     \* a map replacement is loading (RuntimeWorldTransferCoordinator)
    mapReady,    \* terrain_frame of the destination is resident
    scheduled,   \* NEW_WORLD callbacks waiting for the end of the batch
    backlog,     \* actions the UI and movement owners have yet to admit
    delivered,   \* history: positions of the packets the main thread applied
    accepted,    \* history: commands admitted to the writer channel, in order
    written      \* history: commands whose last byte was written, in order

pumpVars == <<read, reader, writer, pings, pump>>
mainVars == <<frame, client, loading, mapReady, scheduled, backlog, delivered>>
vars == <<script, serverOpen, pumpVars, packets, commands, mainVars, accepted, written>>

Idle == "idle"
Commands == {"app", "ack", "sync", "handoff"}
DataKinds == {"data", "newWorld", "badData"}
Events == {"loggedOut", "ioError", "protocolError"}

\* Entries of the packet channel: packets carry their position in the script.
Packet(pos) == [kind |-> script[pos], pos |-> pos]
Event(kind) == [kind |-> kind, pos |-> 0]

\* What one server connection may carry: world packets, perhaps one
\* LOGOUT_COMPLETE, then character-screen packets.  The reader may lag behind
\* the server by any amount, so fixing the script beforehand loses nothing.
Scripts ==
    {seq \in BoundedSeq(ServerKinds \union {"complete", "later"}, MaxPackets) :
        \A i \in DOMAIN seq :
            seq[i] = "later" <=> \E j \in 1..(i - 1) : seq[j] = "complete"}

TypeOK ==
    /\ script \in Scripts
    /\ serverOpen \in BOOLEAN
    /\ read \in 0..Len(script)
    /\ reader \in {"reading", "offering", "replying"}
    /\ writer \in Commands \union {Idle, "ping"}
    /\ pings \in 0..MaxPings
    /\ pump \in {"duplex", "handoff", "queued", "joined", "ioError", "protocolError", "ended"}
    /\ packets \in Seq([kind : DataKinds \union Events, pos : 0..MaxPackets])
    /\ Len(packets) <= PacketCapacity
    /\ commands \in Seq(Commands) /\ Len(commands) <= CommandCapacity
    /\ frame \in {"begin", "drain", "send", "finish"}
    /\ client \in {"world", "characters", "lost", "failed", "left"}
    /\ loading \in BOOLEAN /\ mapReady \in BOOLEAN
    /\ scheduled \in Nat /\ backlog \in 0..MaxCommands
    /\ delivered \in Seq(1..MaxPackets)
    /\ accepted \in Seq(Commands) /\ written \in Seq(Commands)

\* begin_with_game_objects spawns the pump over fresh channels.
Init ==
    /\ script \in Scripts /\ serverOpen = TRUE
    /\ read = 0 /\ reader = "reading" /\ writer = Idle /\ pings = 0 /\ pump = "duplex"
    /\ packets = <<>> /\ commands = <<>>
    /\ frame = "begin" /\ client = "world"
    /\ loading = FALSE /\ mapReady = FALSE /\ scheduled = 0 /\ backlog = MaxCommands
    /\ delivered = <<>> /\ accepted = <<>> /\ written = <<>>

Active == client = "world"

-----------------------------------------------------------------------------
ServerCloses ==
    /\ Active /\ serverOpen
    /\ serverOpen' = FALSE
    /\ UNCHANGED <<script, pumpVars, packets, commands, mainVars, accepted, written>>

-----------------------------------------------------------------------------
(* receive_world_packets, polled while pump = "duplex".                    *)

\* The inner block returns an error: both futures are dropped, and with the
\* writer future its command receiver.
Fail(kind) ==
    /\ pump' = kind
    /\ commands' = <<>>
    /\ UNCHANGED <<reader, writer, pings>>

ReadPacket ==
    /\ Active /\ pump = "duplex" /\ reader = "reading" /\ read < Len(script)
    /\ read' = read + 1
    /\ LET kind == script[read + 1]
       IN  \/ /\ kind \in DataKinds \union {"sync"}
              /\ reader' = IF kind = "sync" THEN "replying" ELSE "offering"
              /\ UNCHANGED <<writer, pings, pump, commands>>
           \/ /\ kind = "complete"
              /\ pump' = "handoff"
              /\ UNCHANGED <<reader, writer, pings, commands>>
           \/ kind = "badSync" /\ Fail("protocolError")
    /\ UNCHANGED <<script, serverOpen, packets, mainVars, accepted, written>>

\* FIN or reset; a reset may discard bytes not yet read.
ReadFails ==
    /\ Active /\ pump = "duplex" /\ reader = "reading"
    /\ ~serverOpen
    /\ Fail("ioError")
    /\ UNCHANGED <<script, serverOpen, read, packets, mainVars, accepted, written>>

HasRoom(channel, capacity) == Len(channel) < capacity

\* Defect: try_send that forgets the packet when the channel is full.
OfferPacket_DropsWhenFull ==
    /\ Active /\ pump = "duplex" /\ reader = "offering"
    /\ packets' = IF HasRoom(packets, PacketCapacity)
                  THEN Append(packets, Packet(read)) ELSE packets
    /\ reader' = "reading"
    /\ UNCHANGED <<script, serverOpen, read, writer, pings, pump, commands, mainVars,
                   accepted, written>>

OfferPacket ==
    /\ Active /\ pump = "duplex" /\ reader = "offering"
    /\ HasRoom(packets, PacketCapacity)
    /\ packets' = Append(packets, Packet(read))
    /\ reader' = "reading"
    /\ UNCHANGED <<script, serverOpen, read, writer, pings, pump, commands, mainVars,
                   accepted, written>>

Enqueue(command) ==
    /\ HasRoom(commands, CommandCapacity)
    /\ commands' = Append(commands, command)
    /\ accepted' = Append(accepted, command)

\* TimeSync(counter) goes through the writer's queue; Pong takes the same way.
ReplySync ==
    /\ Active /\ pump = "duplex" /\ reader = "replying"
    /\ Enqueue("sync")
    /\ reader' = "reading"
    /\ UNCHANGED <<script, serverOpen, read, writer, pings, pump, packets, mainVars, written>>

-----------------------------------------------------------------------------
(* service_world_writer, polled until it consumes Handoff.                 *)

\* Defect: LOGOUT_COMPLETE ends the select and nobody polls the writer.
Writing_StopsAtLogout == pump \in {"duplex", "queued"}

Writing == pump \in {"duplex", "handoff", "queued"}

TakeCommand ==
    /\ Active /\ Writing /\ writer = Idle
    /\ commands # <<>> /\ Head(commands) # "handoff"
    /\ writer' = Head(commands)
    /\ commands' = Tail(commands)
    /\ UNCHANGED <<script, serverOpen, read, reader, pings, pump, packets, mainVars,
                   accepted, written>>

PingTick ==
    /\ Active /\ Writing /\ writer = Idle /\ pings < MaxPings
    /\ pings' = pings + 1
    /\ writer' = "ping"
    /\ UNCHANGED <<script, serverOpen, read, reader, pump, packets, commands, mainVars,
                   accepted, written>>

\* Partial writes are never cancelled: only this step or an I/O error ends one.
FinishWrite ==
    /\ Active /\ Writing /\ writer # Idle
    /\ written' = IF writer = "ping" THEN written ELSE Append(written, writer)
    /\ writer' = Idle
    /\ UNCHANGED <<script, serverOpen, read, reader, pings, pump, packets, commands,
                   mainVars, accepted>>

WriteFails ==
    /\ Active /\ Writing /\ writer # Idle /\ ~serverOpen
    /\ Fail("ioError")
    /\ UNCHANGED <<script, serverOpen, read, packets, mainVars, accepted, written>>

-----------------------------------------------------------------------------
(* pump_world_packets after the reader has returned.                       *)

\* commands.send(Handoff) inside try_join!, the writer still being polled.
QueueHandoff ==
    /\ Active /\ pump = "handoff"
    /\ Enqueue("handoff")
    /\ pump' = "queued"
    /\ UNCHANGED <<script, serverOpen, read, reader, writer, pings, packets, mainVars, written>>

\* Defect: a select! that cancels the writer once Handoff is queued.
TakeHandoff_Cancels ==
    /\ Active /\ pump = "queued"
    /\ pump' = "joined"
    /\ commands' = <<>>
    /\ UNCHANGED <<script, serverOpen, read, reader, writer, pings, packets, mainVars,
                   accepted, written>>

\* The writer returns at the packet boundary; its receiver and whatever was
\* queued behind Handoff are dropped, and into_session reunites the halves.
TakeHandoff ==
    /\ Active /\ pump = "queued" /\ writer = Idle
    /\ commands # <<>> /\ Head(commands) = "handoff"
    /\ pump' = "joined"
    /\ commands' = <<>>
    /\ UNCHANGED <<script, serverOpen, read, reader, writer, pings, packets, mainVars,
                   accepted, written>>

\* LoggedOut(session) or Err(error) follows every packet in the same channel.
PublishEnd ==
    /\ Active /\ pump \in {"joined", "ioError", "protocolError"}
    /\ HasRoom(packets, PacketCapacity)
    /\ packets' = Append(packets, Event(IF pump = "joined" THEN "loggedOut" ELSE pump))
    /\ pump' = "ended"
    /\ UNCHANGED <<script, serverOpen, read, reader, writer, pings, commands, mainVars,
                   accepted, written>>

-----------------------------------------------------------------------------
(* The main thread, one frame at a time: service_world_transfers, then the *)
(* senders, then complete_world_transfer_map.                              *)

\* A loading map keeps the batch undrained; a NEW_WORLD callback scheduled by
\* an earlier batch starts its replacement before the next one.
BeginFrame ==
    /\ Active /\ frame = "begin"
    /\ IF loading THEN UNCHANGED <<loading, mapReady, scheduled>> /\ frame' = "send"
       ELSE IF scheduled > 0
       THEN /\ loading' = TRUE /\ mapReady' = FALSE /\ scheduled' = scheduled - 1
            /\ frame' = "send"
       ELSE UNCHANGED <<loading, mapReady, scheduled>> /\ frame' = "drain"
    /\ UNCHANGED <<script, serverOpen, pumpVars, packets, commands, client, backlog,
                   delivered, accepted, written>>

\* service: one packet of the batch.
DrainPacket ==
    /\ Active /\ frame = "drain" /\ packets # <<>>
    /\ LET head == Head(packets)
       IN  \/ /\ head.kind \in {"data", "newWorld"}
              /\ packets' = Tail(packets)
              /\ delivered' = Append(delivered, head.pos)
              /\ scheduled' = IF head.kind = "newWorld" THEN scheduled + 1 ELSE scheduled
              /\ UNCHANGED <<client, commands>>
           \/ /\ head.kind \in {"badData", "protocolError"}
              /\ packets' = <<>> /\ commands' = <<>>
              /\ client' = "failed"
              /\ UNCHANGED <<delivered, scheduled>>
           \/ /\ head.kind \in {"ioError", "loggedOut"}
              /\ packets' = <<>> /\ commands' = <<>>
              /\ client' = IF head.kind = "ioError" THEN "lost" ELSE "characters"
              /\ UNCHANGED <<delivered, scheduled>>
    /\ UNCHANGED <<script, serverOpen, pumpVars, frame, loading, mapReady, backlog,
                   accepted, written>>

\* TryRecvError::Empty ends the batch and runs one deferred callback.
\* Disconnected cannot be met: see TerminalEventKept.
EndBatch ==
    /\ Active /\ frame = "drain" /\ packets = <<>> /\ pump # "ended"
    /\ frame' = "send"
    /\ IF scheduled > 0
       THEN loading' = TRUE /\ mapReady' = FALSE /\ scheduled' = scheduled - 1
       ELSE UNCHANGED <<loading, mapReady, scheduled>>
    /\ UNCHANGED <<script, serverOpen, pumpVars, packets, commands, client, backlog,
                   delivered, accepted, written>>

\* Every sender of the frame: Ok forgets the action, Full keeps it for the
\* next frame, and Closed is TaskEnded, which service_login returns.
ReceiverAlive == Writing

Send ==
    /\ Active /\ frame = "send" /\ backlog > 0
    /\ \/ /\ ReceiverAlive
          /\ Enqueue("app")
          /\ backlog' = backlog - 1
          /\ UNCHANGED <<frame, client>>
       \/ /\ ReceiverAlive /\ ~HasRoom(commands, CommandCapacity)
          /\ frame' = "finish"
          /\ UNCHANGED <<client, backlog, commands, accepted>>
       \/ /\ ~ReceiverAlive
          /\ client' = "failed"
          /\ UNCHANGED <<frame, backlog, commands, accepted>>
    /\ UNCHANGED <<script, serverOpen, pumpVars, packets, loading, mapReady, scheduled,
                   delivered, written>>

\* The frame has nothing (more) to say.
NothingToSend ==
    /\ Active /\ frame = "send"
    /\ frame' = "finish"
    /\ UNCHANGED <<script, serverOpen, pumpVars, packets, commands, client, loading, mapReady,
                   scheduled, backlog, delivered, accepted, written>>

\* Terrain streaming has made the destination resident.
LoadMap ==
    /\ Active /\ loading /\ ~mapReady
    /\ mapReady' = TRUE
    /\ UNCHANGED <<script, serverOpen, pumpVars, packets, commands, frame, client, loading,
                   scheduled, backlog, delivered, accepted, written>>

\* Defect: the map is completed although the queue refused the ACK.
FinishFrame_ForgetsAck ==
    /\ Active /\ frame = "finish"
    /\ frame' = "begin"
    /\ IF loading /\ mapReady
       THEN /\ loading' = FALSE
            /\ IF HasRoom(commands, CommandCapacity) THEN Enqueue("ack")
               ELSE UNCHANGED <<commands, accepted>>
       ELSE UNCHANGED <<loading, commands, accepted>>
    /\ UNCHANGED <<script, serverOpen, pumpVars, packets, client, mapReady, scheduled,
                   backlog, delivered, written>>

\* complete_world_transfer_map: the ACK waits for room; Closed is TaskEnded.
FinishFrame ==
    /\ Active /\ frame = "finish"
    /\ \/ /\ loading /\ mapReady /\ ReceiverAlive
          /\ Enqueue("ack")
          /\ loading' = FALSE /\ frame' = "begin"
          /\ UNCHANGED client
       \/ /\ loading /\ mapReady /\ ~ReceiverAlive
          /\ client' = "failed"
          /\ UNCHANGED <<loading, frame, commands, accepted>>
       \/ /\ ~(loading /\ mapReady) \/ (ReceiverAlive /\ ~HasRoom(commands, CommandCapacity))
          /\ frame' = "begin"
          /\ UNCHANGED <<loading, client, commands, accepted>>
    /\ UNCHANGED <<script, serverOpen, pumpVars, packets, mapReady, scheduled, backlog,
                   delivered, written>>

\* RuntimeGameplayCoordinator::disconnect aborts the task wherever it is.
Disconnect ==
    /\ Active /\ frame = "begin"
    /\ client' = "left"
    /\ packets' = <<>> /\ commands' = <<>>
    /\ UNCHANGED <<script, serverOpen, pumpVars, frame, loading, mapReady, scheduled, backlog,
                   delivered, accepted, written>>

\* The active world is gone and so is its task.
Gone == ~Active /\ UNCHANGED vars

Reader == ReadPacket \/ ReadFails \/ OfferPacket \/ ReplySync
Writer == TakeCommand \/ FinishWrite \/ WriteFails
Pump == QueueHandoff \/ TakeHandoff \/ PublishEnd
Main == BeginFrame \/ DrainPacket \/ EndBatch \/ Send \/ NothingToSend \/ FinishFrame

Next ==
    \/ ServerCloses
    \/ ReadPacket \/ ReadFails \/ OfferPacket \/ ReplySync
    \/ TakeCommand \/ PingTick \/ FinishWrite \/ WriteFails
    \/ QueueHandoff \/ TakeHandoff \/ PublishEnd
    \/ BeginFrame \/ DrainPacket \/ EndBatch
    \/ Send \/ NothingToSend \/ LoadMap \/ FinishFrame
    \/ Disconnect \/ Gone

Spec == Init /\ [][Next]_vars

\* tokio polls every ready future, a write to a live socket ends, the main
\* loop runs frames, and terrain loading ends.  The server owes nothing.
Fairness ==
    /\ WF_vars(Reader) /\ WF_vars(Writer) /\ WF_vars(Pump)
    /\ WF_vars(Main) /\ WF_vars(LoadMap)

FairSpec == Spec /\ Fairness

-----------------------------------------------------------------------------
(* Safety.                                                                 *)

Count(seq, item) == Cardinality({i \in DOMAIN seq : seq[i] = item})

\* The script positions of packets meant for the main thread among the first n.
DataUpTo(n) == {i \in 1..n : script[i] \in DataKinds}

\* Every one of these positions once, in the order of the script.
Lists(seq, positions) ==
    /\ {seq[i] : i \in DOMAIN seq} = positions
    /\ \A i, j \in DOMAIN seq : i < j => seq[i] < seq[j]

Queued == [i \in DOMAIN packets |-> packets[i].pos]

Offered == IF reader = "offering" THEN <<read>> ELSE <<>>

InProgress == IF writer \in {Idle, "ping"} THEN <<>> ELSE <<writer>>

\* Back-pressure never loses, duplicates or reorders a packet: what the main
\* thread applied, what is queued and what the reader holds is exactly what
\* was read from the socket (gameplay_coordinator.rs:1145-1187).
NothingLost ==
    Active /\ pump \in {"duplex", "handoff", "queued", "joined"}
        => Lists(delivered \o Queued \o Offered, DataUpTo(read))

\* The one writer queue is FIFO and loses nothing while the writer lives:
\* liveness answers, ACKs and application commands keep their order
\* (gameplay_coordinator.rs:1189-1280).
CommandsInOrder == Active /\ Writing => written \o InProgress \o commands = accepted

\* The socket reaches the character screen only on a packet boundary of both
\* directions: every packet before LOGOUT_COMPLETE was applied, nothing after
\* it was read, and every command admitted ahead of Handoff was written.
CleanHandover ==
    client = "characters" =>
        /\ script[read] = "complete"
        /\ Lists(delivered, DataUpTo(read))
        /\ writer = Idle
        /\ IsPrefix(Append(written, "handoff"), accepted)

\* The main thread is always told how the connection ended: the task does
\* not go away leaving an empty channel (TaskEnded, :601-610).
TerminalEventKept ==
    Active /\ pump = "ended" => packets # <<>> /\ Last(packets).kind \in Events

\* Both channels carry everything once and in order, and the packet channel the end of
\* the connection last.
ChannelsExact == NothingLost /\ CommandsInOrder /\ TerminalEventKept

\* Each NEW_WORLD callback is acknowledged once: the ACKs admitted, the map
\* being loaded and the callbacks still scheduled add up to the NEW_WORLD
\* packets applied (client_services/world_transfer.rs:224-243).
OneAckPerNewWorld ==
    Count(accepted, "ack") + scheduled + (IF loading THEN 1 ELSE 0)
        = Count([i \in DOMAIN delivered |-> script[delivered[i]]], "newWorld")

\* What the documents promise; the code does not keep it (README, section 6):
\* session-lifecycle.md:59-64: an active-world I/O failure retires the world
\* and shows the disconnect dialog, it does not end the process with an error.
LossReachesLifecycle ==
    client = "failed" =>
        \E i \in DOMAIN script : script[i] \in {"badData", "badSync"}

-----------------------------------------------------------------------------
(* Liveness.                                                               *)

\* The main thread leaves the active world after a completed logout, even when
\* the writer queue is full and it is behind (:1121-1131), and after the server
\* has closed the connection, whatever the reader was blocked on.
EndNoticed == pump = "handoff" \/ ~serverOpen ~> ~Active

\* Every time-sync request read is answered unless the connection ends.
SyncOwed == Count(SubSeq(script, 1, read), "sync") > Count(written, "sync")

SyncAnswered == SyncOwed ~> ~SyncOwed \/ pump # "duplex" \/ ~Active

\* A loading replacement is acknowledged: a full queue only delays the ACK.
LoadingEnds == loading ~> (~loading \/ ~Active)

\* Nobody waits for ever in the circle of reader, writer, pump and main thread.
NobodyWaits == EndNoticed /\ SyncAnswered /\ LoadingEnds

=============================================================================
