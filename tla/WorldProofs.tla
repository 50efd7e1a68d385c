----------------------------- MODULE WorldProofs -----------------------------
(***************************************************************************)
(* Theorems about WorldPump for every capacity of the two channels, every  *)
(* script of the server and every number of commands and pings, and about  *)
(* RemoteMovement for every clock and every reach of its snapshots.        *)
(*                                                                         *)
(* The argument of the first: a packet that was read is in the reader's    *)
(* hand, in the channel or applied, and these three are apart and in order *)
(* (DataInv); a command that was accepted is written, in the writer's hand *)
(* or queued as long as the writer lives (CommandsInOrder), so the writer  *)
(* that takes Handoff has written everything before it (HandoverInv).      *)
(*                                                                         *)
(* Of the second: every time in play is read from now (Off), where the     *)
(* wrapping clock is a line as long as the times are within half a turn of *)
(* each other (WindowAssumption).  ClockInv and Timely bound how far a     *)
(* unit's clock, its time and what it retains may be from now, so that the *)
(* readings can be compared and never wrap.                                *)
(***************************************************************************)
EXTENDS WorldPump, RemoteMovement, SequenceTheorems, FiniteSetTheorems,
        WellFoundedInduction, TLAPS

\* What the channel carries: packets read, and behind them, once the task has
\* ended, how it ended.
EntriesInv ==
    /\ \A i \in 1..Len(packets) :
        \/ /\ packets[i].kind \in DataKinds
           /\ packets[i].pos \in 1..read
           /\ packets[i].kind = script[packets[i].pos]
        \/ /\ packets[i].kind \in Events
           /\ i = Len(packets) /\ pump = "ended"
    /\ pump = "ended" => packets # <<>> /\ packets[Len(packets)].kind \in Events

\* Where a packet that was read can be.
DataInv ==
    /\ reader = "offering" => read \in DataUpTo(read)
    /\ \A i \in 1..Len(delivered) :
        delivered[i] \in DataUpTo(read) /\ (reader = "offering" => delivered[i] < read)
    /\ \A i, j \in 1..Len(delivered) : i < j => delivered[i] < delivered[j]
    /\ \A i \in 1..Len(packets) : packets[i].kind \in DataKinds =>
        /\ reader = "offering" => packets[i].pos < read
        /\ \A j \in 1..Len(packets) :
               i < j /\ packets[j].kind \in DataKinds => packets[i].pos < packets[j].pos
        /\ \A j \in 1..Len(delivered) : delivered[j] < packets[i].pos
    /\ \A k \in DataUpTo(read) :
        \/ reader = "offering" /\ k = read
        \/ \E i \in 1..Len(packets) : packets[i].kind \in DataKinds /\ packets[i].pos = k
        \/ \E i \in 1..Len(delivered) : delivered[i] = k

\* The socket, once Handoff was taken.
Reunited == writer = Idle /\ IsPrefix(Append(written, "handoff"), accepted)
AfterLogout == read > 0 /\ script[read] = "complete" /\ reader = "reading"

HandoverInv ==
    /\ pump \in {"handoff", "queued", "joined"} => AfterLogout
    /\ pump = "joined" => Reunited
    /\ pump = "ended" /\ packets[Len(packets)].kind = "loggedOut" => AfterLogout /\ Reunited

PumpInv ==
    /\ TypeOK
    /\ Active => EntriesInv /\ DataInv /\ HandoverInv
    /\ CommandsInOrder
    /\ CleanHandover
    /\ frame = "drain" => ~loading
-----------------------------------------------------------------------------
(* Types.                                                                  *)

Entry == [kind : DataKinds \union Events, pos : 0..MaxPackets]

LEMMA ScriptFacts ==
    ASSUME script \in Scripts
    PROVE  script \in Seq(ServerKinds \union {"complete", "later"}) /\ Len(script) \in 0..MaxPackets
<1>1. PICK m \in 0..MaxPackets : script \in [1..m -> ServerKinds \union {"complete", "later"}]
  BY DEF Scripts, BoundedSeq, SeqOf
<1> QED BY <1>1, PumpAssumption

Flags == serverOpen \in BOOLEAN /\ loading \in BOOLEAN /\ mapReady \in BOOLEAN

LEMMA StepFlags ==
    ASSUME Flags, [Next]_vars
    PROVE  Flags'
<1> USE DEF Flags, pumpVars, mainVars
<1>1. CASE ReadPacket \/ ReadFails \/ OfferPacket \/ ReplySync
  BY <1>1, ZenonT(60) DEF ReadPacket, ReadFails, OfferPacket, ReplySync
<1>2. CASE TakeCommand \/ PingTick \/ FinishWrite \/ WriteFails
  BY <1>2, ZenonT(60) DEF TakeCommand, PingTick, FinishWrite, WriteFails
<1>3. CASE QueueHandoff \/ TakeHandoff \/ PublishEnd
  BY <1>3, ZenonT(60) DEF QueueHandoff, TakeHandoff, PublishEnd
<1>4. CASE BeginFrame
  BY <1>4, Zenon DEF BeginFrame
<1>5. CASE DrainPacket
  BY <1>5, Zenon DEF DrainPacket
<1>6. CASE EndBatch
  BY <1>6, Zenon DEF EndBatch
<1>7. CASE Send \/ NothingToSend
  BY <1>7, Zenon DEF Send, NothingToSend
<1>8. CASE LoadMap \/ FinishFrame
  BY <1>8, Zenon DEF LoadMap, FinishFrame
<1>9. CASE ServerCloses \/ Disconnect \/ Gone \/ UNCHANGED vars
  BY <1>9, ZenonT(60) DEF ServerCloses, Disconnect, Gone, vars
<1> QED BY <1>1, <1>2, <1>3, <1>4, <1>5, <1>6, <1>7, <1>8, <1>9, Zenon DEF Next

LEMMA EmptyFits ==
    ASSUME NEW S, NEW c \in Nat
    PROVE  <<>> \in Seq(S) /\ Len(<<>>) <= c
OBVIOUS

\* Commands queued, accepted and written are commands.
LEMMA EnqueueFacts ==
    ASSUME TypeOK, NEW c \in Commands, Enqueue(c)
    PROVE  /\ commands' \in Seq(Commands) /\ Len(commands') <= CommandCapacity
           /\ accepted' \in Seq(Commands)
           /\ commands' = Append(commands, c) /\ accepted' = Append(accepted, c)
BY PumpAssumption DEF TypeOK, Enqueue, HasRoom

LEMMA TypeStep ==
    ASSUME TypeOK, Active => EntriesInv /\ DataInv, Flags', [Next]_vars
    PROVE  TypeOK'
<1> USE PumpAssumption DEF pumpVars, mainVars
<1>0. Len(script) \in 0..MaxPackets
  BY ScriptFacts DEF TypeOK
<1>1. CASE ReadPacket
  <2>1. /\ read < Len(script) /\ read' = read + 1
        /\ reader' \in {reader, "replying", "offering"} /\ pump' \in {pump, "handoff", "protocolError"}
        /\ commands' = commands \/ commands' = <<>>
    BY <1>1, Zenon DEF ReadPacket, Fail
  <2>2. UNCHANGED <<script, serverOpen, writer, pings, packets, mainVars, accepted, written>>
    BY <1>1, Zenon DEF ReadPacket, Fail
  <2>3. read' \in 0..Len(script)
    BY <1>0, <2>1 DEF TypeOK
  <2>4. commands' \in Seq(Commands) /\ Len(commands') <= CommandCapacity
    BY <2>1, EmptyFits DEF TypeOK
  <2> QED BY <2>1, <2>2, <2>3, <2>4 DEF TypeOK, Flags
<1>2. CASE ReadFails
  BY <1>2 DEF ReadFails, Fail, TypeOK, Flags
<1>3. CASE WriteFails
  BY <1>3 DEF WriteFails, Fail, TypeOK, Flags
<1>4. CASE OfferPacket
  <2>1. script[read] \in DataKinds /\ read \in 1..MaxPackets
    BY <1>0, <1>4 DEF OfferPacket, DataInv, DataUpTo, TypeOK
  <2>2. Packet(read) \in Entry
    BY <2>1 DEF Packet, Entry
  <2>3. packets' \in Seq(Entry) /\ Len(packets') = Len(packets) + 1
    BY <1>4, <2>2 DEF OfferPacket, TypeOK, Entry
  <2> QED BY <1>4, <2>3 DEF OfferPacket, HasRoom, TypeOK, Entry, Flags
<1>5. CASE ReplySync
  <2>1. Enqueue("sync") /\ "sync" \in Commands
    BY <1>5 DEF ReplySync, Commands
  <2> QED BY <1>5, <2>1, EnqueueFacts DEF ReplySync, TypeOK, Flags
<1>6. CASE TakeCommand
  BY <1>6 DEF TakeCommand, TypeOK, Flags
<1>7. CASE PingTick
  BY <1>7 DEF PingTick, TypeOK, Flags
<1>8. CASE FinishWrite
  BY <1>8 DEF FinishWrite, TypeOK, Flags
<1>9. CASE QueueHandoff
  <2>1. Enqueue("handoff") /\ "handoff" \in Commands
    BY <1>9 DEF QueueHandoff, Commands
  <2> QED BY <1>9, <2>1, EnqueueFacts DEF QueueHandoff, TypeOK, Flags
<1>10. CASE TakeHandoff
  BY <1>10 DEF TakeHandoff, TypeOK, Flags
<1>11. CASE PublishEnd
  <2> DEFINE e == Event(IF pump = "joined" THEN "loggedOut" ELSE pump)
  <2>1. e \in Entry
    BY <1>11 DEF PublishEnd, Event, Entry, Events
  <2>2. packets' = Append(packets, e)
    BY <1>11 DEF PublishEnd
  <2> HIDE DEF e
  <2>3. packets' \in Seq(Entry) /\ Len(packets') = Len(packets) + 1
    BY <2>1, <2>2 DEF TypeOK, Entry
  <2> QED BY <1>11, <2>3 DEF PublishEnd, HasRoom, TypeOK, Entry, Flags
<1>12. CASE BeginFrame \/ EndBatch
  <2>1. scheduled' \in Nat /\ frame' \in {"begin", "drain", "send", "finish"}
    <3>1. scheduled \in Nat
      BY DEF TypeOK
    <3>2. CASE BeginFrame
      BY <3>1, <3>2 DEF BeginFrame
    <3>3. CASE EndBatch
      BY <3>1, <3>3 DEF EndBatch
    <3> QED BY <1>12, <3>2, <3>3
  <2>2. UNCHANGED <<script, serverOpen, pumpVars, packets, commands, client, backlog,
                   delivered, accepted, written>>
    BY <1>12 DEF BeginFrame, EndBatch
  <2> QED BY <2>1, <2>2 DEF TypeOK, Flags
<1>13. CASE NothingToSend
  BY <1>13 DEF NothingToSend, TypeOK, Flags
<1>14. CASE LoadMap
  BY <1>14 DEF LoadMap, TypeOK, Flags
<1>15. CASE DrainPacket
  <2>1. Active /\ packets # <<>> /\ packets \in Seq(Entry)
    BY <1>15 DEF DrainPacket, TypeOK, Entry
  <2>2. Head(packets) = packets[1] /\ Len(packets) >= 1 /\ 1 \in 1..Len(packets)
    BY <2>1
  <2>3. Tail(packets) \in Seq(Entry) /\ Len(Tail(packets)) = Len(packets) - 1
    BY <2>1
  <2>4. Head(packets).kind \in DataKinds => Head(packets).pos \in 1..read
    BY <2>1, <2>2 DEF EntriesInv, DataKinds, Events
  <2>5. packets' \in Seq(Entry) /\ Len(packets') <= PacketCapacity
    <3>1. packets' = Tail(packets) \/ packets' = <<>>
      BY <1>15 DEF DrainPacket
    <3>2. <<>> \in Seq(Entry) /\ Len(<<>>) <= PacketCapacity
      BY EmptyFits
    <3>3. Len(Tail(packets)) <= PacketCapacity
      BY <2>2, <2>3 DEF TypeOK
    <3> QED BY <2>3, <3>1, <3>2, <3>3
  <2>6. delivered' \in Seq(1..MaxPackets)
    <3>1. CASE delivered' = Append(delivered, Head(packets).pos) /\ Head(packets).kind \in DataKinds
      BY <1>0, <2>4, <3>1 DEF TypeOK
    <3>2. CASE delivered' = delivered
      BY <3>2 DEF TypeOK
    <3>3. \/ delivered' = Append(delivered, Head(packets).pos) /\ Head(packets).kind \in DataKinds
          \/ delivered' = delivered
      BY <1>15 DEF DrainPacket, DataKinds
    <3> QED BY <3>1, <3>2, <3>3
  <2>7. /\ scheduled' \in Nat /\ client' \in {"world", "characters", "lost", "failed"}
        /\ commands' = commands \/ commands' = <<>>
    <3>1. scheduled' \in {scheduled, scheduled + 1} /\ scheduled \in Nat
      BY <1>15 DEF DrainPacket, TypeOK
    <3>2. client' \in {client, "characters", "lost", "failed"} /\ client = "world"
      BY <1>15 DEF DrainPacket, Active
    <3>3. commands' = commands \/ commands' = <<>>
      BY <1>15 DEF DrainPacket
    <3> QED BY <3>1, <3>2, <3>3
  <2>8. UNCHANGED <<script, serverOpen, pumpVars, frame, loading, mapReady, backlog,
                   accepted, written>>
    BY <1>15 DEF DrainPacket
  <2>9. commands' \in Seq(Commands) /\ Len(commands') <= CommandCapacity
    BY <2>7, EmptyFits DEF TypeOK
  <2> QED BY <2>5, <2>6, <2>7, <2>8, <2>9 DEF TypeOK, Entry, Flags
<1>16. CASE Send
  <2>1. CASE Enqueue("app") /\ backlog' = backlog - 1
    <3>1. /\ commands' \in Seq(Commands) /\ Len(commands') <= CommandCapacity
          /\ accepted' \in Seq(Commands)
      BY <2>1, EnqueueFacts DEF Commands
    <3>2. backlog > 0 /\ client' \in {client, "failed"} /\ frame' \in {frame, "finish"}
      BY <1>16 DEF Send
    <3>3. UNCHANGED <<script, serverOpen, pumpVars, packets, loading, mapReady, scheduled,
                   delivered, written>>
      BY <1>16 DEF Send
    <3> QED BY <2>1, <3>1, <3>2, <3>3 DEF TypeOK, Flags
  <2>2. CASE ~(Enqueue("app") /\ backlog' = backlog - 1)
    BY <1>16, <2>2 DEF Send, TypeOK, Flags
  <2> QED BY <2>1, <2>2
<1>17. CASE FinishFrame
  <2>1. CASE Enqueue("ack") /\ loading' = FALSE
    BY <1>17, <2>1, EnqueueFacts DEF FinishFrame, Commands, TypeOK, Flags
  <2>2. CASE ~(Enqueue("ack") /\ loading' = FALSE)
    BY <1>17, <2>2 DEF FinishFrame, TypeOK, Flags
  <2> QED BY <2>1, <2>2
<1>18. CASE ServerCloses
  BY <1>18 DEF ServerCloses, TypeOK, Flags
<1>19. CASE Disconnect
  BY <1>19 DEF Disconnect, TypeOK, Flags
<1>20. CASE UNCHANGED vars
  BY <1>20 DEF vars, TypeOK, Flags
<1> QED
  BY <1>1, <1>2, <1>3, <1>4, <1>5, <1>6, <1>7, <1>8, <1>9, <1>10, <1>11, <1>12, <1>13, <1>14,
     <1>15, <1>16, <1>17, <1>18, <1>19, <1>20
     DEF Next, Gone
-----------------------------------------------------------------------------
(* Packets.                                                                *)

\* Most steps leave the packets where they are.
LEMMA PacketsKept ==
    ASSUME EntriesInv, DataInv,
           UNCHANGED <<script, read, packets, delivered>>,
           reader' = "offering" <=> reader = "offering",
           pump' = "ended" <=> pump = "ended"
    PROVE  EntriesInv' /\ DataInv'
BY DEF EntriesInv, DataInv, DataUpTo

LEMMA ReadKeepsData ==
    ASSUME TypeOK, Active, EntriesInv, DataInv, ReadPacket
    PROVE  EntriesInv' /\ DataInv'
<1>1. /\ read' = read + 1 /\ read \in Nat
      /\ UNCHANGED <<script, packets, delivered>>
      /\ reader = "reading" /\ pump # "ended" /\ pump' # "ended"
      /\ reader' = "offering" <=> script[read + 1] \in DataKinds
  BY ScriptFacts DEF ReadPacket, Fail, TypeOK, mainVars, DataKinds
<1>2. EntriesInv'
  BY <1>1 DEF EntriesInv
<1>3. \A k \in DataUpTo(read) : k \in DataUpTo(read)' /\ k < read'
  BY <1>1 DEF DataUpTo
<1>4. \A k \in DataUpTo(read)' : k \in DataUpTo(read) \/ (k = read' /\ reader' = "offering")
  BY <1>1 DEF DataUpTo
<1>5. reader' = "offering" => read' \in DataUpTo(read)'
  BY <1>1 DEF DataUpTo
<1>6. \A i \in 1..Len(packets) : packets[i].kind \in DataKinds => packets[i].pos < read'
  BY <1>1 DEF EntriesInv
<1> QED BY <1>1, <1>2, <1>3, <1>4, <1>5, <1>6 DEF DataInv

LEMMA OfferKeepsData ==
    ASSUME TypeOK, Active, EntriesInv, DataInv, OfferPacket
    PROVE  EntriesInv' /\ DataInv'
<1>1. /\ packets' = Append(packets, Packet(read)) /\ packets \in Seq(Entry)
      /\ reader = "offering" /\ reader' = "reading" /\ pump = "duplex"
      /\ UNCHANGED <<script, read, delivered, pump>>
  BY DEF OfferPacket, TypeOK, Entry, mainVars
<1>2. Packet(read) \in Entry /\ Packet(read).kind \in DataKinds
      /\ Packet(read).kind = script[read] /\ Packet(read).pos = read /\ read \in 1..read
  <2>1. read \in DataUpTo(read)
    BY <1>1 DEF DataInv
  <2>2. Len(script) \in 0..MaxPackets /\ read \in 0..Len(script)
    BY ScriptFacts DEF TypeOK
  <2> QED BY <2>1, <2>2, PumpAssumption DEF DataUpTo, Packet, Entry
<1>3. /\ Len(packets') = Len(packets) + 1 /\ Len(packets) \in Nat
      /\ \A i \in 1..Len(packets) : packets'[i] = packets[i]
      /\ packets'[Len(packets) + 1] = Packet(read)
  BY <1>1, <1>2, AppendProperties
<1>4. EntriesInv'
  <2>1. \A i \in 1..Len(packets') : i \in 1..Len(packets) \/ i = Len(packets) + 1
    BY <1>3
  <2> QED BY <1>1, <1>2, <1>3, <2>1 DEF EntriesInv
<1>5. DataInv'
  <2> USE <1>1, <1>2, <1>3
  <2>1. \A i \in 1..Len(delivered) : delivered[i] \in DataUpTo(read) /\ delivered[i] < read
    BY DEF DataInv
  <2>2. \A i \in 1..Len(packets) : packets[i].kind \in DataKinds => packets[i].pos < read
    BY DEF DataInv
  <2>3. ASSUME NEW i \in 1..Len(packets'), packets'[i].kind \in DataKinds
        PROVE  /\ \A j \in 1..Len(packets') :
                      i < j /\ packets'[j].kind \in DataKinds => packets'[i].pos < packets'[j].pos
               /\ \A j \in 1..Len(delivered) : delivered[j] < packets'[i].pos
    <3>1. CASE i = Len(packets) + 1
      BY <2>1, <3>1
    <3>2. CASE i \in 1..Len(packets)
      <4>1. \A j \in 1..Len(delivered) : delivered[j] < packets'[i].pos
        BY <2>3, <3>2 DEF DataInv
      <4>2. ASSUME NEW j \in 1..Len(packets'), i < j, packets'[j].kind \in DataKinds
            PROVE  packets'[i].pos < packets'[j].pos
        BY <2>2, <2>3, <3>2, <4>2 DEF DataInv
      <4> QED BY <4>1, <4>2
    <3> QED BY <3>1, <3>2
  <2>4. ASSUME NEW k \in DataUpTo(read)
        PROVE  \/ \E i \in 1..Len(packets') : packets'[i].kind \in DataKinds /\ packets'[i].pos = k
               \/ \E i \in 1..Len(delivered) : delivered[i] = k
    <3>1. CASE k = read
      <4>1. Len(packets) + 1 \in 1..Len(packets')
        OBVIOUS
      <4> QED BY <3>1, <4>1
    <3>2. CASE k # read
      <4>1. 1..Len(packets) \subseteq 1..Len(packets')
        OBVIOUS
      <4> QED BY <3>2, <4>1 DEF DataInv
    <3> QED BY <3>1, <3>2
  <2>5. DataUpTo(read)' = DataUpTo(read)
    BY DEF DataUpTo
  <2>6. \A i, j \in 1..Len(delivered) : i < j => delivered[i] < delivered[j]
    BY DEF DataInv
  <2> QED BY <2>1, <2>3, <2>4, <2>5, <2>6 DEF DataInv
<1> QED BY <1>4, <1>5

LEMMA PublishKeepsData ==
    ASSUME TypeOK, Active, EntriesInv, DataInv, PublishEnd
    PROVE  EntriesInv' /\ DataInv'
<1> DEFINE e == Event(IF pump = "joined" THEN "loggedOut" ELSE pump)
<1>1. /\ packets' = Append(packets, e) /\ packets \in Seq(Entry)
      /\ pump # "ended" /\ pump' = "ended"
      /\ UNCHANGED <<script, read, reader, delivered>>
      /\ e \in Entry /\ e.kind \in Events /\ e.kind \notin DataKinds
  <2>1. packets' = Append(packets, e) /\ packets \in Seq(Entry)
    BY DEF PublishEnd, TypeOK, Entry
  <2>2. /\ pump # "ended" /\ pump' = "ended"
        /\ UNCHANGED <<script, read, reader, delivered>>
    BY DEF PublishEnd, mainVars
  <2>3. e.kind \in Events /\ e.pos = 0 /\ e = [kind |-> e.kind, pos |-> e.pos]
    BY DEF PublishEnd, Event, Events
  <2>4. e \in Entry
    BY <2>3, PumpAssumption DEF Entry
  <2>5. e.kind \notin DataKinds
    BY <2>3 DEF Events, DataKinds
  <2> QED BY <2>1, <2>2, <2>3, <2>4, <2>5
<1> HIDE DEF e
<1>2. /\ Len(packets') = Len(packets) + 1 /\ Len(packets) \in Nat
      /\ \A i \in 1..Len(packets) : packets'[i] = packets[i]
      /\ packets'[Len(packets')] = e /\ packets' # <<>>
      /\ \A i \in 1..Len(packets') : i \in 1..Len(packets) \/ i = Len(packets')
      /\ 1..Len(packets) \subseteq 1..Len(packets')
  <2>1. /\ Len(packets') = Len(packets) + 1 /\ packets' # <<>>
        /\ \A i \in 1..Len(packets) : packets'[i] = packets[i]
        /\ packets'[Len(packets) + 1] = e
    BY <1>1, AppendProperties
  <2>2. Len(packets) \in Nat
    BY <1>1
  <2> QED BY <2>1, <2>2
<1>3. EntriesInv'
  BY <1>1, <1>2 DEF EntriesInv
<1>4. DataInv'
  <2>1. \A i \in 1..Len(packets') : packets'[i].kind \in DataKinds =>
            i \in 1..Len(packets) /\ packets'[i] = packets[i]
    BY <1>1, <1>2
  <2>2. DataUpTo(read)' = DataUpTo(read)
    BY <1>1 DEF DataUpTo
  <2>3. \A k \in DataUpTo(read) :
            (\E i \in 1..Len(packets) : packets[i].kind \in DataKinds /\ packets[i].pos = k)
            => \E i \in 1..Len(packets') : packets'[i].kind \in DataKinds /\ packets'[i].pos = k
    BY <1>2
  <2> QED BY <1>1, <2>1, <2>2, <2>3 DEF DataInv
<1> QED BY <1>3, <1>4

LEMMA DrainKeepsData ==
    ASSUME TypeOK, Active, EntriesInv, DataInv, DrainPacket, Active'
    PROVE  EntriesInv' /\ DataInv'
<1> DEFINE n == Len(packets)
           head == packets[1]
<1>1. packets \in Seq(Entry) /\ packets # <<>> /\ n \in Nat /\ n >= 1 /\ delivered \in Seq(1..MaxPackets)
  <2>1. packets \in Seq(Entry) /\ packets # <<>> /\ delivered \in Seq(1..MaxPackets)
    BY DEF DrainPacket, TypeOK, Entry
  <2> QED BY <2>1, EmptySeq
<1>2. /\ head.kind \in {"data", "newWorld"}
      /\ packets' = Tail(packets) /\ delivered' = Append(delivered, head.pos)
      /\ UNCHANGED <<script, read, reader, pump>>
  BY <1>1 DEF DrainPacket, Active, pumpVars
<1>3. head.kind \in DataKinds /\ head.kind \notin Events
  BY <1>2 DEF DataKinds, Events
<1>4. head.pos \in DataUpTo(read) /\ head.pos \in 1..MaxPackets /\ head.pos \in Nat
  <2>1. head.pos \in 1..read /\ head.kind = script[head.pos]
    BY <1>1, <1>3 DEF EntriesInv
  <2>2. read \in 0..MaxPackets
    BY ScriptFacts, PumpAssumption DEF TypeOK
  <2> QED BY <1>3, <2>1, <2>2, PumpAssumption DEF DataUpTo
<1>5. /\ Len(packets') = n - 1
      /\ \A i \in 1..Len(packets') : packets'[i] = packets[i + 1] /\ i + 1 \in 1..n /\ i + 1 > 1
  BY <1>1, <1>2
<1>6. /\ Len(delivered') = Len(delivered) + 1 /\ Len(delivered) \in Nat
      /\ \A i \in 1..Len(delivered) : delivered'[i] = delivered[i]
      /\ delivered'[Len(delivered) + 1] = head.pos
      /\ \A i \in 1..Len(delivered') : i \in 1..Len(delivered) \/ i = Len(delivered) + 1
  <2>1. /\ Len(delivered') = Len(delivered) + 1
        /\ \A i \in 1..Len(delivered) : delivered'[i] = delivered[i]
        /\ delivered'[Len(delivered) + 1] = head.pos
    BY <1>1, <1>2, <1>4, AppendProperties
  <2>2. Len(delivered) \in Nat
    BY <1>1
  <2> QED BY <2>1, <2>2
<1> HIDE DEF n, head
<1>7. DataUpTo(read)' = DataUpTo(read)
  BY <1>2 DEF DataUpTo
<1>8. EntriesInv'
  <2>1. ASSUME NEW i \in 1..Len(packets')
        PROVE  \/ /\ packets'[i].kind \in DataKinds
                  /\ packets'[i].pos \in 1..read'
                  /\ packets'[i].kind = script'[packets'[i].pos]
               \/ /\ packets'[i].kind \in Events
                  /\ i = Len(packets') /\ pump' = "ended"
    <3>1. packets'[i] = packets[i + 1] /\ i + 1 \in 1..Len(packets)
      BY <1>5 DEF n
    <3>2. \/ /\ packets[i + 1].kind \in DataKinds
             /\ packets[i + 1].pos \in 1..read
             /\ packets[i + 1].kind = script[packets[i + 1].pos]
          \/ /\ packets[i + 1].kind \in Events
             /\ i + 1 = n /\ pump = "ended"
      BY <3>1 DEF EntriesInv, n
    <3>3. i + 1 = n => i = Len(packets')
      BY <1>1, <1>5
    <3> QED BY <1>2, <3>1, <3>2, <3>3
  <2>2. ASSUME pump' = "ended"
        PROVE  packets' # <<>> /\ packets'[Len(packets')].kind \in Events
    <3>1. packets[n].kind \in Events
      BY <1>2, <2>2 DEF EntriesInv, n
    <3>2. n # 1
      BY <1>3, <3>1 DEF head
    <3>3. Len(packets') \in 1..Len(packets') /\ Len(packets') + 1 = n
      BY <1>1, <1>5, <3>2
    <3> QED BY <1>5, <3>1, <3>3
  <2> QED BY <2>1, <2>2 DEF EntriesInv
<1>9. DataInv'
  <2>1. \A i \in 1..Len(packets') : packets'[i].kind \in DataKinds =>
            /\ head.pos < packets'[i].pos
            /\ reader = "offering" => packets'[i].pos < read
            /\ \A j \in 1..Len(packets') :
                   i < j /\ packets'[j].kind \in DataKinds => packets'[i].pos < packets'[j].pos
            /\ \A j \in 1..Len(delivered) : delivered[j] < packets'[i].pos
    <3>1. 1 \in 1..Len(packets)
      BY <1>1 DEF n
    <3>2. SUFFICES ASSUME NEW i \in 1..Len(packets'), packets'[i].kind \in DataKinds
          PROVE  /\ head.pos < packets'[i].pos
                 /\ reader = "offering" => packets'[i].pos < read
                 /\ \A j \in 1..Len(packets') :
                       i < j /\ packets'[j].kind \in DataKinds => packets'[i].pos < packets'[j].pos
                 /\ \A j \in 1..Len(delivered) : delivered[j] < packets'[i].pos
      OBVIOUS
    <3>3. packets'[i] = packets[i + 1] /\ i + 1 \in 1..Len(packets) /\ i + 1 > 1
      BY <1>5 DEF n
    <3>4. head.pos < packets'[i].pos
      BY <1>3, <3>1, <3>2, <3>3 DEF DataInv, head
    <3>5. ASSUME NEW j \in 1..Len(packets'), i < j, packets'[j].kind \in DataKinds
          PROVE  packets'[i].pos < packets'[j].pos
      <4>1. packets'[j] = packets[j + 1] /\ j + 1 \in 1..Len(packets) /\ i + 1 < j + 1
        BY <1>1, <1>5, <3>5 DEF n
      <4> QED BY <3>2, <3>3, <3>5, <4>1 DEF DataInv
    <3> QED BY <3>2, <3>3, <3>4, <3>5 DEF DataInv
  <2>2. \A i \in 1..Len(delivered) : delivered[i] < head.pos
    BY <1>1, <1>3 DEF DataInv, head, n
  <2>3. reader = "offering" => head.pos < read
    BY <1>1, <1>3 DEF DataInv, head, n
  <2>4. \A i \in 1..Len(delivered') :
            delivered'[i] \in DataUpTo(read) /\ (reader = "offering" => delivered'[i] < read)
    BY <1>4, <1>6, <2>3 DEF DataInv
  <2>5. \A i, j \in 1..Len(delivered') : i < j => delivered'[i] < delivered'[j]
    <3> SUFFICES ASSUME NEW i \in 1..Len(delivered'), NEW j \in 1..Len(delivered'), i < j
                 PROVE  delivered'[i] < delivered'[j]
      OBVIOUS
    <3>1. i \in 1..Len(delivered)
      BY <1>6
    <3> QED BY <1>6, <2>2, <3>1 DEF DataInv
  <2>6. \A i \in 1..Len(packets') : packets'[i].kind \in DataKinds =>
            \A j \in 1..Len(delivered') : delivered'[j] < packets'[i].pos
    BY <1>6, <2>1
  <2>7. ASSUME NEW k \in DataUpTo(read)
        PROVE  \/ reader = "offering" /\ k = read
               \/ \E i \in 1..Len(packets') : packets'[i].kind \in DataKinds /\ packets'[i].pos = k
               \/ \E i \in 1..Len(delivered') : delivered'[i] = k
    <3>1. CASE \E i \in 1..Len(delivered) : delivered[i] = k
      BY <1>6, <3>1
    <3>2. CASE \E i \in 1..Len(packets) : packets[i].kind \in DataKinds /\ packets[i].pos = k
      <4>1. PICK i \in 1..Len(packets) : packets[i].kind \in DataKinds /\ packets[i].pos = k
        BY <3>2
      <4>2. CASE i = 1
        <5>1. delivered'[Len(delivered) + 1] = k /\ Len(delivered) + 1 \in 1..Len(delivered')
          BY <1>6, <4>1, <4>2 DEF head
        <5> QED BY <5>1
      <4>3. CASE i # 1
        <5>1. i - 1 \in 1..Len(packets') /\ (i - 1) + 1 = i
          BY <1>1, <1>5, <4>3 DEF n
        <5>2. packets'[i - 1] = packets[i]
          BY <1>5, <5>1
        <5> QED BY <4>1, <5>1, <5>2
      <4> QED BY <4>2, <4>3
    <3> QED BY <3>1, <3>2 DEF DataInv
  <2>8. reader = "offering" => read \in DataUpTo(read)
    BY DEF DataInv
  <2> QED BY <1>2, <1>7, <2>1, <2>4, <2>5, <2>6, <2>7, <2>8 DEF DataInv
<1> QED BY <1>8, <1>9

\* Every other step leaves the packets alone, or ends the active world.
LEMMA DataStep ==
    ASSUME TypeOK, Active => EntriesInv /\ DataInv, [Next]_vars, Active'
    PROVE  Active /\ EntriesInv' /\ DataInv'
<1> USE DEF pumpVars, mainVars
<1>1. CASE UNCHANGED vars
  BY <1>1, PacketsKept DEF vars, Active
<1>2. CASE Gone
  BY <1>2, PacketsKept DEF Gone, vars, Active
<1>3. CASE ReadPacket
  BY <1>3, ReadKeepsData DEF ReadPacket
<1>4. CASE OfferPacket
  BY <1>4, OfferKeepsData DEF OfferPacket
<1>5. CASE PublishEnd
  BY <1>5, PublishKeepsData DEF PublishEnd
<1>6. CASE DrainPacket
  BY <1>6, DrainKeepsData DEF DrainPacket
<1>7. CASE Disconnect
  BY <1>7 DEF Disconnect, Active
<1>8. CASE ReadFails
  BY <1>8, PacketsKept DEF ReadFails, Fail
<1>9. CASE WriteFails
  BY <1>9, PacketsKept DEF WriteFails, Fail, Writing
<1>10. CASE ReplySync
  BY <1>10, PacketsKept DEF ReplySync
<1>11. CASE TakeCommand
  BY <1>11, PacketsKept DEF TakeCommand
<1>12. CASE PingTick
  BY <1>12, PacketsKept DEF PingTick
<1>13. CASE FinishWrite
  BY <1>13, PacketsKept DEF FinishWrite
<1>14. CASE QueueHandoff
  BY <1>14, PacketsKept DEF QueueHandoff
<1>15. CASE TakeHandoff
  BY <1>15, PacketsKept DEF TakeHandoff
<1>16. CASE BeginFrame
  BY <1>16, PacketsKept DEF BeginFrame
<1>17. CASE EndBatch
  BY <1>17, PacketsKept DEF EndBatch
<1>18. CASE Send
  BY <1>18, PacketsKept DEF Send
<1>19. CASE NothingToSend
  BY <1>19, PacketsKept DEF NothingToSend
<1>20. CASE LoadMap
  BY <1>20, PacketsKept DEF LoadMap
<1>21. CASE FinishFrame
  BY <1>21, PacketsKept DEF FinishFrame
<1>22. CASE ServerCloses
  BY <1>22, PacketsKept DEF ServerCloses
<1> QED
  BY <1>1, <1>2, <1>3, <1>4, <1>5, <1>6, <1>7, <1>8, <1>9, <1>10, <1>11, <1>12, <1>13, <1>14,
     <1>15, <1>16, <1>17, <1>18, <1>19, <1>20, <1>21, <1>22
     DEF Next
-----------------------------------------------------------------------------
(* Commands.                                                               *)

Sent == written \o InProgress

LEMMA SentFacts ==
    ASSUME TypeOK
    PROVE  /\ InProgress \in Seq(Commands) /\ Sent \in Seq(Commands)
           /\ writer = Idle => Sent = written
           /\ writer = "ping" => Sent = written
           /\ writer \in Commands => Sent = Append(written, writer)
<1>1. written \in Seq(Commands) /\ written \o <<>> = written
  BY ConcatEmptySeq DEF TypeOK
<1>2. CASE writer \in {Idle, "ping"}
  <2>1. InProgress = <<>> /\ writer \notin Commands
    BY <1>2 DEF InProgress, Idle, Commands
  <2> QED BY <1>1, <2>1 DEF Sent
<1>3. CASE writer \notin {Idle, "ping"}
  <2>1. writer \in Commands /\ InProgress = <<writer>>
    BY <1>3 DEF InProgress, TypeOK
  <2>2. Append(written, writer) = written \o <<writer>> /\ Append(written, writer) \in Seq(Commands)
    BY <1>1, <2>1, AppendIsConcat, AppendProperties
  <2> QED BY <1>3, <2>1, <2>2 DEF Sent
<1> QED BY <1>2, <1>3

\* A command that enters the queue keeps the order.
LEMMA EnqueueKeepsOrder ==
    ASSUME TypeOK, NEW c \in Commands, Enqueue(c), Sent \o commands = accepted,
           UNCHANGED <<written, writer>>
    PROVE  (Sent \o commands = accepted)'
<1>1. commands' = Append(commands, c) /\ accepted' = Append(accepted, c)
  BY DEF Enqueue
<1>2. Sent' = Sent /\ Sent \in Seq(Commands) /\ commands \in Seq(Commands)
  BY SentFacts DEF Sent, InProgress, TypeOK
<1>3. <<c>> \in Seq(Commands)
  OBVIOUS
<1>4. Append(commands, c) = commands \o <<c>>
  BY <1>2, AppendIsConcat
<1>5. Append(Sent \o commands, c) = (Sent \o commands) \o <<c>>
  BY <1>2, AppendIsConcat, ConcatProperties
<1>6. (Sent \o commands) \o <<c>> = Sent \o (commands \o <<c>>)
  <2> DEFINE s == Sent
             u == <<c>>
  <2>1. s \in Seq(Commands) /\ commands \in Seq(Commands) /\ u \in Seq(Commands)
    BY <1>2, <1>3
  <2> HIDE DEF s, u
  <2>2. (s \o commands) \o u = s \o (commands \o u)
    BY <2>1, ConcatAssociative, SMTT(30)
  <2> QED BY <2>2 DEF s, u
<1>7. accepted' = Sent \o (commands \o <<c>>)
  BY <1>1, <1>5, <1>6, Zenon
<1>8. Sent' \o commands' = Sent \o (commands \o <<c>>)
  BY <1>1, <1>2, <1>4, Zenon
<1> QED BY <1>7, <1>8, Zenon

\* The head of the queue moves into the writer's hand.
LEMMA TakeKeepsOrder ==
    ASSUME TypeOK, writer = Idle, commands # <<>>, writer' = Head(commands),
           commands' = Tail(commands), UNCHANGED <<written, accepted>>,
           Sent \o commands = accepted
    PROVE  (Sent \o commands = accepted)'
<1>1. /\ written \in Seq(Commands) /\ commands \in Seq(Commands) /\ Tail(commands) \in Seq(Commands)
      /\ Head(commands) \in Commands /\ <<Head(commands)>> \in Seq(Commands)
  BY DEF TypeOK
<1>2. commands = <<Head(commands)>> \o Tail(commands)
  BY <1>1
<1>3. Sent = written
  BY SentFacts
<1>4. Sent' = written \o <<Head(commands)>>
  BY <1>1 DEF Sent, InProgress, Idle, Commands
<1>5. (written \o <<Head(commands)>>) \o Tail(commands)
          = written \o (<<Head(commands)>> \o Tail(commands))
  BY <1>1, ConcatAssociative
<1> QED BY <1>2, <1>3, <1>4, <1>5

LEMMA CommandsStep ==
    ASSUME TypeOK, CommandsInOrder, [Next]_vars
    PROVE  CommandsInOrder'
<1> SUFFICES ASSUME Active', Writing'
             PROVE  (Sent \o commands = accepted)'
  BY DEF CommandsInOrder, Sent
<1> USE DEF pumpVars, mainVars
<1>0. Active /\ Writing => Sent \o commands = accepted
  BY DEF CommandsInOrder, Sent
<1>1. CASE UNCHANGED <<written, writer, commands, accepted>> /\ Active /\ Writing
  BY <1>0, <1>1 DEF Sent, InProgress
<1>2. CASE UNCHANGED vars \/ Gone
  BY <1>1, <1>2 DEF Gone, vars, Active, Writing
<1>3. CASE ServerCloses
  BY <1>1, <1>3 DEF ServerCloses, Writing
<1>4. CASE ReadPacket
  BY <1>1, <1>4 DEF ReadPacket, Fail, Writing
<1>5. CASE ReadFails \/ WriteFails
  BY <1>5 DEF ReadFails, WriteFails, Fail, Writing
<1>6. CASE OfferPacket
  BY <1>1, <1>6 DEF OfferPacket, Writing
<1>7. CASE ReplySync
  BY <1>0, <1>7, EnqueueKeepsOrder DEF ReplySync, Writing, Commands
<1>8. CASE TakeCommand
  BY <1>0, <1>8, TakeKeepsOrder DEF TakeCommand
<1>9. CASE PingTick
  BY <1>0, <1>9 DEF PingTick, Sent, InProgress
<1>10. CASE FinishWrite
  <2>1. Sent' = written'
    BY <1>10, ConcatEmptySeq DEF FinishWrite, Sent, InProgress, TypeOK
  <2>2. written' = Sent
    BY <1>10, SentFacts DEF FinishWrite, TypeOK
  <2> QED BY <1>0, <1>10, <2>1, <2>2 DEF FinishWrite
<1>11. CASE QueueHandoff
  BY <1>0, <1>11, EnqueueKeepsOrder DEF QueueHandoff, Writing, Commands
<1>12. CASE TakeHandoff \/ PublishEnd
  BY <1>12 DEF TakeHandoff, PublishEnd, Writing
<1>13. CASE BeginFrame
  BY <1>1, <1>13 DEF BeginFrame, Writing
<1>14. CASE DrainPacket
  BY <1>1, <1>14 DEF DrainPacket, Writing, Active
<1>15. CASE EndBatch
  BY <1>1, <1>15 DEF EndBatch, Writing
<1>16. CASE Send
  <2>1. Active /\ Writing /\ UNCHANGED <<written, writer>>
    BY <1>16 DEF Send, Writing
  <2>2. Enqueue("app") \/ UNCHANGED <<commands, accepted>>
    BY <1>16 DEF Send, Active
  <2> QED BY <1>0, <1>1, <2>1, <2>2, EnqueueKeepsOrder DEF Commands
<1>17. CASE NothingToSend
  BY <1>1, <1>17 DEF NothingToSend, Writing
<1>18. CASE LoadMap
  BY <1>1, <1>18 DEF LoadMap, Writing
<1>19. CASE FinishFrame
  <2>1. Active /\ Writing /\ UNCHANGED <<written, writer>>
    BY <1>19 DEF FinishFrame, Writing
  <2>2. Enqueue("ack") \/ UNCHANGED <<commands, accepted>>
    BY <1>19 DEF FinishFrame, Active
  <2> QED BY <1>0, <1>1, <2>1, <2>2, EnqueueKeepsOrder DEF Commands
<1>20. CASE Disconnect
  BY <1>20 DEF Disconnect, Active
<1> QED
  BY <1>2, <1>3, <1>4, <1>5, <1>6, <1>7, <1>8, <1>9, <1>10, <1>11, <1>12, <1>13, <1>14, <1>15,
     <1>16, <1>17, <1>18, <1>19, <1>20
     DEF Next
-----------------------------------------------------------------------------
(* The hand-over of the socket.                                            *)

\* The writer that finds Handoff at the head of its queue has written
\* everything that was accepted before it.
LEMMA HandoffReunites ==
    ASSUME TypeOK, Sent \o commands = accepted, writer = Idle,
           commands # <<>>, Head(commands) = "handoff"
    PROVE  Reunited
<1> DEFINE s == Append(written, "handoff")
<1>1. written \in Seq(Commands) /\ commands \in Seq(Commands) /\ "handoff" \in Commands
  BY DEF TypeOK, Commands
<1>2. /\ accepted = written \o commands
      /\ Len(commands) \in Nat \ {0} /\ commands[1] = "handoff"
  <2>1. Sent = written
    BY SentFacts
  <2> QED BY <1>1, <2>1
<1>3. /\ Len(accepted) = Len(written) + Len(commands)
      /\ \A i \in 1..Len(accepted) :
             accepted[i] = IF i <= Len(written) THEN written[i] ELSE commands[i - Len(written)]
  BY <1>1, <1>2, ConcatProperties
<1>4. s \in Seq(Commands) /\ Len(s) = Len(written) + 1
      /\ (\A i \in 1..Len(written) : s[i] = written[i]) /\ s[Len(written) + 1] = "handoff"
  BY <1>1, AppendProperties
<1>5. Len(written) \in Nat
  BY <1>1
<1> HIDE DEF s
<1>6. Len(s) <= Len(accepted)
  BY <1>2, <1>3, <1>4, <1>5
<1>7. ASSUME NEW i \in 1..Len(s)
      PROVE  s[i] = accepted[i]
  <2>1. i \in 1..Len(accepted) /\ (i \in 1..Len(written) \/ i = Len(written) + 1)
    BY <1>4, <1>5, <1>6
  <2>2. CASE i \in 1..Len(written)
    BY <1>3, <1>4, <2>1, <2>2
  <2>3. CASE i = Len(written) + 1
    BY <1>2, <1>3, <1>4, <1>5, <2>1, <2>3
  <2> QED BY <2>1, <2>2, <2>3
<1>8. accepted \in Seq(Commands)
  BY DEF TypeOK
<1>9. SubSeq(s, 1, Len(s)) = SubSeq(accepted, 1, Len(s))
  BY <1>4, <1>6, <1>7, <1>8
<1> QED BY <1>6, <1>9 DEF Reunited, IsPrefix, s

\* Once the writer is gone, nothing it did changes.
LEMMA HandoverKept ==
    ASSUME HandoverInv, UNCHANGED <<script, read, reader, writer, written, accepted>>,
           pump' = pump,
           pump = "ended" /\ packets'[Len(packets')].kind = "loggedOut"
               => packets[Len(packets)].kind = "loggedOut"
    PROVE  HandoverInv'
BY DEF HandoverInv, AfterLogout, Reunited

LEMMA HandoverStep ==
    ASSUME TypeOK, Active, EntriesInv, HandoverInv, CommandsInOrder, [Next]_vars, Active'
    PROVE  HandoverInv'
<1> USE DEF pumpVars, mainVars
<1>1. CASE UNCHANGED vars \/ Gone
  BY <1>1, HandoverKept DEF Gone, vars
<1>2. CASE ServerCloses
  BY <1>2, HandoverKept DEF ServerCloses
<1>3. CASE ReadPacket
  <2>1. read \in Nat /\ read' = read + 1 /\ UNCHANGED script
    BY <1>3, ScriptFacts DEF ReadPacket, TypeOK
  <2>2. pump' \in {"duplex", "handoff", "protocolError"}
    BY <1>3 DEF ReadPacket, Fail
  <2>3. pump' = "handoff" => script[read + 1] = "complete" /\ reader' = "reading"
    BY <1>3 DEF ReadPacket, Fail
  <2> QED BY <2>1, <2>2, <2>3 DEF HandoverInv, AfterLogout
<1>4. CASE ReadFails \/ WriteFails
  <2>1. pump' = "ioError"
    BY <1>4 DEF ReadFails, WriteFails, Fail
  <2> QED BY <2>1 DEF HandoverInv
<1>5. CASE OfferPacket \/ ReplySync
  <2>1. pump' = "duplex"
    BY <1>5 DEF OfferPacket, ReplySync
  <2> QED BY <2>1 DEF HandoverInv
<1>6. CASE TakeCommand \/ PingTick \/ FinishWrite
  <2>1. pump' = pump /\ pump \in {"duplex", "handoff", "queued"} /\ UNCHANGED <<script, read, reader>>
    BY <1>6 DEF TakeCommand, PingTick, FinishWrite, Writing
  <2> QED BY <2>1 DEF HandoverInv, AfterLogout
<1>7. CASE QueueHandoff
  <2>1. pump = "handoff" /\ pump' = "queued" /\ UNCHANGED <<script, read, reader>>
    BY <1>7 DEF QueueHandoff
  <2> QED BY <2>1 DEF HandoverInv, AfterLogout
<1>8. CASE TakeHandoff
  <2>1. /\ pump = "queued" /\ pump' = "joined"
        /\ UNCHANGED <<script, read, reader, writer, written, accepted>>
    BY <1>8 DEF TakeHandoff
  <2>2. Reunited
    BY <1>8, HandoffReunites DEF TakeHandoff, CommandsInOrder, Writing, Sent
  <2>3. Reunited'
    BY <2>1, <2>2 DEF Reunited
  <2> QED BY <2>1, <2>3 DEF HandoverInv, AfterLogout
<1>9. CASE PublishEnd
  <2> DEFINE e == Event(IF pump = "joined" THEN "loggedOut" ELSE pump)
  <2>1. /\ UNCHANGED <<script, read, reader, writer, written, accepted>> /\ pump' = "ended"
        /\ packets' = Append(packets, e)
        /\ pump \in {"joined", "ioError", "protocolError"}
    BY <1>9 DEF PublishEnd
  <2>2. e.kind = "loggedOut" => pump = "joined"
    BY <2>1 DEF Event
  <2> HIDE DEF e
  <2>3. packets'[Len(packets')] = e
    BY <2>1 DEF TypeOK
  <2> QED BY <2>1, <2>2, <2>3 DEF HandoverInv, AfterLogout, Reunited
<1>10. CASE BeginFrame
  BY <1>10, HandoverKept DEF BeginFrame
<1>11. CASE DrainPacket
  <2>1. /\ UNCHANGED <<script, read, reader, writer, written, accepted, pump>>
        /\ packets # <<>> /\ packets' = Tail(packets) /\ packets \in Seq(Entry)
        /\ Head(packets).kind \in {"data", "newWorld"}
    BY <1>11 DEF DrainPacket, Active, TypeOK, Entry
  <2>2. ASSUME pump = "ended"
        PROVE  packets'[Len(packets')] = packets[Len(packets)]
    <3>1. packets[Len(packets)].kind \in Events
      BY <2>2 DEF EntriesInv
    <3>2. Len(packets) # 1
      BY <2>1, <3>1 DEF Events
    <3>3. Len(packets) \in Nat /\ Len(packets) > 1
      <4>1. packets \in Seq(Entry) /\ packets # <<>>
        BY <2>1
      <4>2. Len(packets) \in Nat \ {0}
        BY <4>1, EmptySeq
      <4>3. ASSUME NEW n \in Nat \ {0}, n # 1
            PROVE  n \in Nat /\ n > 1
        BY <4>3
      <4> QED BY <3>2, <4>2, <4>3
    <3>4. Len(Tail(packets)) = Len(packets) - 1
      BY <2>1
    <3>5. Tail(packets)[Len(packets) - 1] = packets[Len(packets)]
      <4>1. Len(packets) - 1 \in 1..Len(Tail(packets)) /\ (Len(packets) - 1) + 1 = Len(packets)
        BY <3>3, <3>4
      <4> QED BY <2>1, <4>1, HeadTailProperties
    <3> QED BY <2>1, <3>4, <3>5
  <2> QED BY <2>1, <2>2, HandoverKept
<1>12. CASE EndBatch
  BY <1>12, HandoverKept DEF EndBatch
<1>13. CASE Send \/ FinishFrame
  <2>1. UNCHANGED <<script, read, reader, writer, written, packets, pump>>
    BY <1>13 DEF Send, FinishFrame
  <2>2. accepted' = accepted \/ pump \in {"duplex", "handoff", "queued"}
    BY <1>13 DEF Send, FinishFrame, ReceiverAlive, Writing
  <2>3. CASE accepted' = accepted
    BY <2>1, <2>3, HandoverKept
  <2>4. CASE pump \in {"duplex", "handoff", "queued"}
    BY <2>1, <2>4 DEF HandoverInv, AfterLogout
  <2> QED BY <2>2, <2>3, <2>4
<1>14. CASE NothingToSend
  BY <1>14, HandoverKept DEF NothingToSend
<1>15. CASE LoadMap
  BY <1>15, HandoverKept DEF LoadMap
<1>16. CASE Disconnect
  BY <1>16 DEF Disconnect, Active
<1> QED
  BY <1>1, <1>2, <1>3, <1>4, <1>5, <1>6, <1>7, <1>8, <1>9, <1>10, <1>11, <1>12, <1>13, <1>14,
     <1>15, <1>16
     DEF Next

LEMMA CleanHandoverStep ==
    ASSUME TypeOK, Active => EntriesInv /\ DataInv /\ HandoverInv, CleanHandover, [Next]_vars
    PROVE  CleanHandover'
<1> SUFFICES ASSUME client' = "characters"
             PROVE  /\ script'[read'] = "complete"
                    /\ Lists(delivered, DataUpTo(read))'
                    /\ writer' = Idle
                    /\ IsPrefix(Append(written, "handoff"), accepted)'
  BY DEF CleanHandover
<1> USE DEF pumpVars, mainVars
<1>1. CASE ~Active
  <2>1. UNCHANGED vars
    BY <1>1
       DEF Next, Gone, ServerCloses, ReadPacket, ReadFails, OfferPacket, ReplySync,
           TakeCommand, PingTick, FinishWrite, WriteFails, QueueHandoff, TakeHandoff, PublishEnd,
           BeginFrame, DrainPacket, EndBatch, Send, NothingToSend, LoadMap, FinishFrame, Disconnect
  <2> QED BY <2>1 DEF vars, CleanHandover, Lists, DataUpTo
<1>2. CASE Active
  <2>1. DrainPacket
    <3>1. client = "world"
      BY <1>2 DEF Active
    <3>2. ~ServerCloses /\ ~LoadMap /\ ~NothingToSend /\ ~BeginFrame /\ ~EndBatch /\ ~Disconnect
      BY <3>1 DEF ServerCloses, LoadMap, NothingToSend, BeginFrame, EndBatch, Disconnect
    <3>3. ~ReadPacket /\ ~ReadFails /\ ~OfferPacket /\ ~ReplySync /\ ~PublishEnd
      BY <3>1 DEF ReadPacket, ReadFails, OfferPacket, ReplySync, PublishEnd
    <3>4. ~TakeCommand /\ ~PingTick /\ ~FinishWrite /\ ~WriteFails /\ ~QueueHandoff /\ ~TakeHandoff
      BY <3>1 DEF TakeCommand, PingTick, FinishWrite, WriteFails, QueueHandoff, TakeHandoff
    <3>5. ~Send /\ ~FinishFrame /\ ~Gone /\ ~UNCHANGED vars
      BY <3>1 DEF Send, FinishFrame, Gone, Active, vars
    <3> QED BY <3>2, <3>3, <3>4, <3>5 DEF Next
  <2>2. /\ packets \in Seq(Entry) /\ packets # <<>> /\ Head(packets).kind = "loggedOut"
        /\ UNCHANGED <<script, read, writer, written, accepted, delivered>>
    BY <1>2, <2>1 DEF DrainPacket, Active, TypeOK, Entry
  <2>3. Len(packets) = 1 /\ pump = "ended" /\ packets[Len(packets)].kind = "loggedOut"
    <3>1. Head(packets) = packets[1] /\ 1 \in 1..Len(packets)
      BY <2>2
    <3> QED BY <1>2, <2>2, <3>1 DEF EntriesInv, DataKinds
  <2>4. AfterLogout /\ Reunited
    BY <1>2, <2>3 DEF HandoverInv
  <2>5. Lists(delivered, DataUpTo(read))
    <3>1. packets[1].kind \notin DataKinds
      BY <2>3 DEF DataKinds
    <3>2. ~ \E i \in 1..Len(packets) : packets[i].kind \in DataKinds
      BY <2>3, <3>1
    <3>3. reader # "offering"
      BY <2>4 DEF AfterLogout
    <3>4. \A k \in DataUpTo(read) : \E i \in 1..Len(delivered) : delivered[i] = k
      BY <1>2, <3>2, <3>3 DEF DataInv
    <3>5. DOMAIN delivered = 1..Len(delivered)
      BY DEF TypeOK
    <3>6. \A i \in 1..Len(delivered) : delivered[i] \in DataUpTo(read)
      BY <1>2 DEF DataInv
    <3>7. \A i, j \in 1..Len(delivered) : i < j => delivered[i] < delivered[j]
      BY <1>2 DEF DataInv
    <3> QED BY <3>4, <3>5, <3>6, <3>7 DEF Lists
  <2>6. Lists(delivered, DataUpTo(read))'
    BY <2>2, <2>5 DEF Lists, DataUpTo
  <2> QED BY <2>2, <2>4, <2>6 DEF AfterLogout, Reunited
<1> QED BY <1>1, <1>2
\* A batch is drained only between two map replacements.
LEMMA DrainingIsIdle ==
    ASSUME frame = "drain" => ~loading, [Next]_vars
    PROVE  (frame = "drain" => ~loading)'
<1> USE DEF pumpVars, mainVars
<1>1. CASE UNCHANGED <<frame, loading>>
  BY <1>1
<1>2. CASE BeginFrame
  BY <1>2 DEF BeginFrame
<1>3. CASE EndBatch
  BY <1>3 DEF EndBatch
<1>4. CASE Send
  BY <1>1, <1>4 DEF Send
<1>5. CASE NothingToSend \/ FinishFrame
  BY <1>1, <1>5 DEF NothingToSend, FinishFrame
<1>6. CASE ServerCloses \/ ReadPacket \/ ReadFails \/ OfferPacket \/ ReplySync
  BY <1>1, <1>6 DEF ServerCloses, ReadPacket, ReadFails, OfferPacket, ReplySync
<1>7. CASE TakeCommand \/ PingTick \/ FinishWrite \/ WriteFails
  BY <1>1, <1>7 DEF TakeCommand, PingTick, FinishWrite, WriteFails
<1>8. CASE QueueHandoff \/ TakeHandoff \/ PublishEnd
  BY <1>1, <1>8 DEF QueueHandoff, TakeHandoff, PublishEnd
<1>9. CASE DrainPacket \/ LoadMap \/ Disconnect
  BY <1>1, <1>9 DEF DrainPacket, LoadMap, Disconnect
<1>10. CASE Gone \/ UNCHANGED vars
  BY <1>1, <1>10 DEF Gone, vars
<1> QED
  BY <1>2, <1>3, <1>4, <1>5, <1>6, <1>7, <1>8, <1>9, <1>10 DEF Next

-----------------------------------------------------------------------------
(* The invariant and what follows from it.                                 *)

\* The inductive invariant: types; where packets and commands are while the
\* active world lives; and what the character screen found.  (README,
\* section 5.)
THEOREM PumpInvariant == Spec => []PumpInv
<1> USE PumpAssumption
<1>1. Init => Flags /\ PumpInv
  <2> SUFFICES ASSUME Init PROVE Flags /\ PumpInv
    OBVIOUS
  <2>1. Flags
    BY Zenon DEF Init, Flags
  <2>2. Len(script) \in Nat
    BY ScriptFacts DEF Init
  <2>3. TypeOK
    BY <2>1, <2>2 DEF Init, TypeOK, Idle, Flags
  <2>4. EntriesInv /\ DataInv /\ HandoverInv
    BY DEF Init, EntriesInv, DataInv, HandoverInv, DataUpTo
  <2>5. CommandsInOrder
    BY DEF Init, CommandsInOrder, InProgress
  <2>6. CleanHandover /\ (frame = "drain" => ~loading)
    BY DEF Init, CleanHandover
  <2> QED BY <2>1, <2>3, <2>4, <2>5, <2>6 DEF PumpInv
<1>2. Flags /\ PumpInv /\ [Next]_vars => Flags' /\ PumpInv'
  <2> SUFFICES ASSUME Flags, PumpInv, [Next]_vars PROVE Flags' /\ PumpInv'
    OBVIOUS
  <2>1. /\ TypeOK /\ CommandsInOrder /\ CleanHandover
        /\ Active => EntriesInv /\ DataInv /\ HandoverInv
    BY DEF PumpInv
  <2>2. Flags'
    BY StepFlags
  <2>3. TypeOK'
    BY <2>1, <2>2, TypeStep
  <2>4. Active' => Active /\ EntriesInv' /\ DataInv'
    BY <2>1, DataStep
  <2>5. Active' => HandoverInv'
    BY <2>1, <2>4, HandoverStep
  <2>6. CommandsInOrder'
    BY <2>1, CommandsStep
  <2>7. CleanHandover'
    BY <2>1, CleanHandoverStep
  <2>8. (frame = "drain" => ~loading)'
    BY DrainingIsIdle DEF PumpInv
  <2> QED BY <2>2, <2>3, <2>4, <2>5, <2>6, <2>7, <2>8 DEF PumpInv
<1> QED BY <1>1, <1>2, PTL DEF Spec

THEOREM TypeCorrect == Spec => []TypeOK
BY PumpInvariant, PTL DEF PumpInv

\* Packets.
LEMMA EntriesAreData ==
    ASSUME PumpInv, Active, pump # "ended"
    PROVE  \A i \in 1..Len(packets) :
               packets[i].kind \in DataKinds /\ packets[i].pos \in DataUpTo(read)
BY DEF PumpInv, EntriesInv, DataUpTo

LEMMA AllListed ==
    ASSUME PumpInv
    PROVE  NothingLost
<1> SUFFICES ASSUME Active, pump # "ended"
             PROVE  Lists(delivered \o Queued \o Offered, DataUpTo(read))
  BY DEF NothingLost
<1> DEFINE all == delivered \o Queued \o Offered
           front == delivered \o Queued
           d == Len(delivered)
           q == Len(packets)
<1>0. TypeOK /\ DataInv
  BY DEF PumpInv
<1>1. /\ delivered \in Seq(Int) /\ packets \in Seq(Entry) /\ d \in Nat /\ q \in Nat
      /\ read \in Int /\ Offered \in Seq(Int)
  <2>1. read \in Int /\ Offered \in Seq(Int)
    BY <1>0, ScriptFacts DEF TypeOK, Offered
  <2>2. packets \in Seq(Entry) /\ d \in Nat /\ q \in Nat
    BY <1>0 DEF TypeOK, Entry
  <2>3. delivered \in Seq(Int)
    <3>1. delivered \in Seq(1..MaxPackets) /\ 1..MaxPackets \subseteq Int
      BY <1>0, PumpAssumption DEF TypeOK
    <3> QED BY <3>1, SeqMonotonic
  <2> QED BY <2>1, <2>2, <2>3
<1>2. /\ Queued \in Seq(Int) /\ Len(Queued) = q
      /\ \A i \in 1..q : Queued[i] = packets[i].pos
  <2>1. DOMAIN packets = 1..q
    BY <1>1
  <2>2. \A i \in 1..q : packets[i].pos \in Int
    <3>1. \A i \in 1..q : packets[i] \in Entry
      BY <1>1
    <3> QED BY <3>1, PumpAssumption DEF Entry
  <2>3. Queued = [i \in 1..q |-> packets[i].pos]
    BY <2>1 DEF Queued
  <2> HIDE DEF q
  <2>4. Queued \in [1..q -> Int]
    BY <2>2, <2>3
  <2>5. Queued \in Seq(Int)
    BY <1>1, <2>4, SeqDef
  <2>6. Len(Queued) = q
    BY <1>1, <2>4, <2>5, LenProperties
  <2> QED BY <2>3, <2>5, <2>6
<1>3. /\ front \in Seq(Int) /\ Len(front) = d + q
      /\ \A i \in 1..(d + q) : front[i] = IF i <= d THEN delivered[i] ELSE Queued[i - d]
  <2>1. /\ delivered \o Queued \in Seq(Int)
        /\ Len(delivered \o Queued) = Len(delivered) + Len(Queued)
        /\ \A i \in 1..(Len(delivered) + Len(Queued)) : (delivered \o Queued)[i] =
               IF i <= Len(delivered) THEN delivered[i] ELSE Queued[i - Len(delivered)]
    BY <1>1, <1>2, ConcatProperties, Zenon
  <2> QED BY <1>2, <2>1
<1>4. /\ all \in Seq(Int) /\ Len(all) = d + q + Len(Offered)
      /\ \A i \in 1..(d + q + Len(Offered)) :
             all[i] = IF i <= d + q THEN front[i] ELSE Offered[i - (d + q)]
  <2> HIDE DEF front
  <2>1. /\ front \o Offered \in Seq(Int)
        /\ Len(front \o Offered) = Len(front) + Len(Offered)
        /\ \A i \in 1..(Len(front) + Len(Offered)) : (front \o Offered)[i] =
               IF i <= Len(front) THEN front[i] ELSE Offered[i - Len(front)]
    <3>1. front \in Seq(Int) /\ Offered \in Seq(Int)
      BY <1>1, <1>3
    <3> QED BY <3>1, ConcatProperties
  <2>2. all = front \o Offered
    BY DEF front
  <2> QED BY <1>3, <2>1, <2>2
<1>5. /\ Len(Offered) = IF reader = "offering" THEN 1 ELSE 0
      /\ reader = "offering" => Offered[1] = read
  BY DEF Offered
<1> DEFINE n == Len(all)
<1>6. DOMAIN all = 1..n /\ n \in Nat /\ n = d + q + Len(Offered)
  BY <1>4
<1> HIDE DEF front, all, d, q, n
<1>7. ASSUME NEW i \in 1..n
      PROVE  \/ i \in 1..d /\ all[i] = delivered[i]
             \/ i - d \in 1..q /\ all[i] = packets[i - d].pos
             \/ i = d + q + 1 /\ all[i] = read /\ reader = "offering"
  <2>1. i \in Nat /\ i >= 1 /\ i <= d + q + Len(Offered) /\ i \in 1..(d + q + Len(Offered))
    BY <1>6
  <2>2. CASE i <= d
    <3>1. i \in 1..d /\ i \in 1..(d + q)
      BY <1>1, <2>1, <2>2
    <3>2. all[i] = front[i]
      BY <1>1, <1>4, <2>1, <3>1
    <3> QED BY <1>3, <2>2, <3>1, <3>2
  <2>3. CASE i > d /\ i <= d + q
    <3>1. i - d \in 1..q /\ i \in 1..(d + q) /\ ~(i <= d)
      BY <1>1, <2>1, <2>3
    <3>2. all[i] = front[i]
      BY <1>4, <2>1, <2>3
    <3> QED BY <1>2, <1>3, <3>1, <3>2
  <2>4. CASE i > d + q
    <3>1. reader = "offering" /\ i = d + q + 1 /\ i - (d + q) = 1
      BY <1>1, <1>5, <2>1, <2>4
    <3> QED BY <1>1, <1>4, <1>5, <2>1, <2>4, <3>1
  <2> QED BY <1>1, <2>1, <2>2, <2>3, <2>4
<1>8. ASSUME NEW i \in 1..n
      PROVE  all[i] \in DataUpTo(read)
  BY <1>0, <1>7, EntriesAreData DEF DataInv, d, q
<1>9. ASSUME NEW k \in DataUpTo(read)
      PROVE  \E i \in 1..n : all[i] = k
  <2>1. CASE reader = "offering" /\ k = read
    <3>1. d + q + 1 \in 1..n /\ d + q + 1 \in 1..(d + q + Len(Offered)) /\ ~(d + q + 1 <= d + q)
      BY <1>1, <1>5, <1>6, <2>1
    <3>2. (d + q + 1) - (d + q) = 1
      BY <1>1
    <3>3. all[d + q + 1] = read
      BY <1>4, <1>5, <2>1, <3>1, <3>2
    <3> QED BY <2>1, <3>1, <3>3
  <2>2. CASE \E i \in 1..q : packets[i].pos = k
    <3>1. PICK i \in 1..q : packets[i].pos = k
      BY <2>2
    <3>2. d + i \in 1..n /\ d + i \in 1..(d + q) /\ ~(d + i <= d) /\ (d + i) - d = i
      BY <1>1, <1>5, <1>6
    <3>3. all[d + i] = front[d + i]
      BY <1>4, <1>6, <3>2
    <3>4. front[d + i] = Queued[i]
      BY <1>3, <3>2
    <3> QED BY <1>2, <3>1, <3>2, <3>3, <3>4
  <2>3. CASE \E i \in 1..d : delivered[i] = k
    <3>1. PICK i \in 1..d : delivered[i] = k
      BY <2>3
    <3>2. i \in 1..n /\ i \in 1..(d + q) /\ i <= d + q /\ i <= d
      BY <1>1, <1>5, <1>6
    <3>3. all[i] = front[i]
      BY <1>4, <1>6, <3>2
    <3>4. front[i] = delivered[i]
      BY <1>3, <3>2
    <3> QED BY <3>1, <3>2, <3>3, <3>4
  <2> QED BY <1>0, <2>1, <2>2, <2>3 DEF DataInv, d, q
<1>10. ASSUME NEW i \in 1..n, NEW j \in 1..n, i < j
       PROVE  all[i] < all[j]
  <2>1. CASE i \in 1..d /\ all[i] = delivered[i]
    <3>1. CASE j \in 1..d /\ all[j] = delivered[j]
      BY <1>0, <1>10, <2>1, <3>1 DEF DataInv, d
    <3>2. CASE j - d \in 1..q /\ all[j] = packets[j - d].pos
      BY <1>0, <2>1, <3>2, EntriesAreData DEF DataInv, d, q
    <3>3. CASE all[j] = read /\ reader = "offering"
      BY <1>0, <2>1, <3>3 DEF DataInv, d
    <3> QED BY <1>7, <3>1, <3>2, <3>3
  <2>2. CASE i - d \in 1..q /\ all[i] = packets[i - d].pos
    <3>1. CASE j - d \in 1..q /\ all[j] = packets[j - d].pos
      <4>1. i - d < j - d
        BY <1>1, <1>6, <1>10
      <4> QED BY <1>0, <2>2, <3>1, <4>1, EntriesAreData DEF DataInv, q
    <3>2. CASE all[j] = read /\ reader = "offering"
      BY <1>0, <2>2, <3>2, EntriesAreData DEF DataInv, q
    <3>3. ~(j \in 1..d)
      BY <1>1, <1>6, <1>10, <2>2
    <3> QED BY <1>7, <3>1, <3>2, <3>3
  <2>3. ~(i = d + q + 1)
    BY <1>1, <1>5, <1>6, <1>10
  <2> QED BY <1>7, <2>1, <2>2, <2>3
<1> QED BY <1>6, <1>8, <1>9, <1>10 DEF Lists, all

\* Both channels of the active world carry everything once and in order: no
\* packet is lost, repeated or overtaken between the socket and the main
\* thread, no command between its sender and the socket, and the end of the
\* connection comes last (gameplay_coordinator.rs:1145-1280).
THEOREM ChannelsKept == Spec => []ChannelsExact
<1>1. PumpInv => ChannelsExact
  <2> SUFFICES ASSUME PumpInv PROVE ChannelsExact
    OBVIOUS
  <2>1. TerminalEventKept
    BY DEF PumpInv, EntriesInv, TerminalEventKept, Last
  <2> QED BY <2>1, AllListed DEF PumpInv, ChannelsExact
<1> QED BY <1>1, PumpInvariant, PTL

\* The character screen receives the socket on a packet boundary of both
\* directions: every packet before LOGOUT_COMPLETE was applied, nothing after
\* it was read, and every command ahead of Handoff was written (:1110-1143).
THEOREM HandoverClean == Spec => []CleanHandover
BY PumpInvariant, PTL DEF PumpInv
-----------------------------------------------------------------------------
(* Acknowledgements.                                                       *)

LEMMA CountType ==
    ASSUME NEW S, NEW seq \in Seq(S), NEW item
    PROVE  Count(seq, item) \in Nat
<1> DEFINE before == {i \in DOMAIN seq : seq[i] = item}
<1>1. before \in SUBSET (1..Len(seq)) /\ IsFiniteSet(1..Len(seq))
  <2>1. DOMAIN seq = 1..Len(seq) /\ Len(seq) \in Nat
    OBVIOUS
  <2> QED BY <2>1, FS_Interval
<1>2. Cardinality(before) \in Nat
  <2> HIDE DEF before
  <2> QED BY <1>1, FS_Subset, FS_CardinalityType
<1> QED BY <1>2 DEF Count

LEMMA CountAppend ==
    ASSUME NEW S, NEW seq \in Seq(S), NEW x \in S, NEW item
    PROVE  Count(Append(seq, x), item) = Count(seq, item) + (IF x = item THEN 1 ELSE 0)
<1> DEFINE n == Len(seq)
           longer == Append(seq, x)
           before == {i \in DOMAIN seq : seq[i] = item}
           after == {i \in DOMAIN longer : longer[i] = item}
<1>1. n \in Nat /\ DOMAIN seq = 1..n
  OBVIOUS
<1>2. /\ DOMAIN longer = 1..(n + 1)
      /\ \A i \in 1..n : longer[i] = seq[i]
      /\ longer[n + 1] = x
  <2>1. longer \in Seq(S) /\ Len(longer) = n + 1
    BY AppendProperties
  <2>2. DOMAIN longer = 1..(n + 1)
    BY <2>1
  <2> QED BY <2>2, AppendProperties
<1>3. IsFiniteSet(before)
  <2>1. IsFiniteSet(1..n) /\ before \in SUBSET (1..n)
    BY <1>1, FS_Interval
  <2> QED BY <2>1, FS_Subset
<1>4. n + 1 \notin before
  BY <1>1
<1>5. after = IF x = item THEN before \union {n + 1} ELSE before
  <2>1. 1..(n + 1) = 1..n \union {n + 1}
    BY <1>1
  <2> HIDE DEF n, longer
  <2> QED BY <1>1, <1>2, <2>1
<1>6. Count(seq, item) = Cardinality(before) /\ Count(longer, item) = Cardinality(after)
  BY DEF Count
<1> HIDE DEF n, longer, before, after
<1>7. Cardinality(before) \in Nat
  BY <1>3, FS_CardinalityType
<1>8. Cardinality(before \union {n + 1}) = Cardinality(before) + 1
  BY <1>3, <1>4, FS_AddElement
<1> QED BY <1>5, <1>6, <1>7, <1>8 DEF longer

LEMMA CountEmpty ==
    ASSUME NEW item
    PROVE  Count(<<>>, item) = 0
<1>1. {i \in DOMAIN <<>> : (<<>>)[i] = item} = {}
  OBVIOUS
<1> QED BY <1>1, FS_EmptySet DEF Count

\* The packets the main thread applied, and what it owes and did for them.
Applied == [i \in DOMAIN delivered |-> script[delivered[i]]]
Pending == scheduled + (IF loading THEN 1 ELSE 0)

LEMMA AckStart ==
    ASSUME Init
    PROVE  OneAckPerNewWorld
<1>1. Applied = <<>> /\ accepted = <<>> /\ scheduled = 0 /\ loading = FALSE
  BY DEF Init, Applied
<1>2. Count(accepted, "ack") = 0 /\ Count(Applied, "newWorld") = 0
  BY <1>1, CountEmpty
<1> QED BY <1>1, <1>2 DEF OneAckPerNewWorld, Applied

\* A command other than the ACK leaves the account alone.
LEMMA OtherCommand ==
    ASSUME TypeOK, NEW c \in Commands, Enqueue(c)
    PROVE  /\ Count(accepted, "ack") \in Nat
           /\ Count(accepted', "ack") = Count(accepted, "ack") + (IF c = "ack" THEN 1 ELSE 0)
<1>1. accepted \in Seq(Commands) /\ accepted' = Append(accepted, c)
  BY EnqueueFacts DEF TypeOK
<1> QED BY <1>1, CountType, CountAppend

LEMMA AckKept ==
    ASSUME OneAckPerNewWorld, UNCHANGED <<script, delivered>>,
           Count(accepted, "ack") \in Nat, Pending \in Nat,
           Count(accepted', "ack") + Pending' = Count(accepted, "ack") + Pending,
           scheduled \in Nat, scheduled' \in Nat, Count(accepted', "ack") \in Nat
    PROVE  OneAckPerNewWorld'
<1>1. Applied' = Applied
  BY DEF Applied
<1>2. Count(Applied', "newWorld") = Count(Applied, "newWorld")
  BY <1>1
<1>3. Count(accepted, "ack") + Pending = Count(Applied, "newWorld")
  BY DEF OneAckPerNewWorld, Applied, Pending
<1>4. Count(accepted', "ack") + Pending' = Count(Applied', "newWorld")
  BY <1>2, <1>3
<1> QED BY <1>4 DEF OneAckPerNewWorld, Applied, Pending

LEMMA AckStep ==
    ASSUME TypeOK, TypeOK', Active => EntriesInv, frame = "drain" => ~loading,
           OneAckPerNewWorld, [Next]_vars
    PROVE  OneAckPerNewWorld'
<1> USE DEF pumpVars, mainVars
<1>0. /\ scheduled \in Nat /\ scheduled' \in Nat /\ Pending \in Nat
      /\ Count(accepted, "ack") \in Nat /\ Count(accepted', "ack") \in Nat
  <2>1. Count(accepted, "ack") \in Nat /\ Count(accepted', "ack") \in Nat
    <3>1. accepted \in Seq(Commands) /\ accepted' \in Seq(Commands)
      BY DEF TypeOK
    <3> QED BY <3>1, CountType
  <2> QED BY <2>1 DEF TypeOK, Pending
<1>1. CASE UNCHANGED <<script, delivered, accepted, scheduled, loading>>
  BY <1>0, <1>1, AckKept DEF Pending
<1>2. CASE ServerCloses \/ ReadPacket \/ ReadFails \/ OfferPacket
  BY <1>1, <1>2 DEF ServerCloses, ReadPacket, ReadFails, OfferPacket
<1>3. CASE TakeCommand \/ PingTick \/ FinishWrite \/ WriteFails
  BY <1>1, <1>3 DEF TakeCommand, PingTick, FinishWrite, WriteFails
<1>4. CASE TakeHandoff \/ PublishEnd \/ NothingToSend
  BY <1>1, <1>4 DEF TakeHandoff, PublishEnd, NothingToSend
<1>5. CASE LoadMap \/ Disconnect \/ Gone \/ UNCHANGED vars
  BY <1>1, <1>5 DEF LoadMap, Disconnect, Gone, vars
<1>6. ASSUME NEW c \in Commands, c # "ack", Enqueue(c),
             UNCHANGED <<script, delivered, scheduled, loading>>
      PROVE  OneAckPerNewWorld'
  <2>1. Count(accepted', "ack") = Count(accepted, "ack") /\ Pending' = Pending
    BY <1>0, <1>6, OtherCommand DEF Pending
  <2> QED BY <1>0, <1>6, <2>1, AckKept
<1>7. CASE ReplySync
  BY <1>6, <1>7 DEF ReplySync, Commands
<1>8. CASE QueueHandoff
  BY <1>6, <1>8 DEF QueueHandoff, Commands
<1>9. CASE Send
  <2>1. UNCHANGED <<script, delivered, scheduled, loading>>
    BY <1>9 DEF Send
  <2>2. Enqueue("app") \/ accepted' = accepted
    BY <1>9 DEF Send
  <2> QED BY <1>1, <1>6, <2>1, <2>2 DEF Commands
<1>10. CASE BeginFrame \/ EndBatch
  <2>1. UNCHANGED <<script, delivered, accepted>>
    BY <1>10 DEF BeginFrame, EndBatch
  <2>2. \/ ~loading /\ loading' = TRUE /\ scheduled' = scheduled - 1
        \/ UNCHANGED <<loading, scheduled>>
    <3>1. CASE BeginFrame
      BY <3>1 DEF BeginFrame
    <3>2. CASE EndBatch
      BY <3>2 DEF EndBatch
    <3> QED BY <1>10, <3>1, <3>2
  <2>3. Pending' = Pending
    <3>1. CASE ~loading /\ loading' = TRUE /\ scheduled' = scheduled - 1
      <4>1. Pending = scheduled /\ Pending' = (scheduled - 1) + 1
        BY <1>0, <3>1 DEF Pending
      <4> QED BY <1>0, <4>1
    <3>2. CASE UNCHANGED <<loading, scheduled>>
      BY <3>2 DEF Pending
    <3> QED BY <2>2, <3>1, <3>2
  <2> QED BY <1>0, <2>1, <2>3, AckKept
<1>11. CASE FinishFrame
  <2>1. UNCHANGED <<script, delivered, scheduled>>
    BY <1>11 DEF FinishFrame
  <2>2. \/ loading /\ loading' = FALSE /\ Enqueue("ack")
        \/ UNCHANGED <<loading, accepted>>
    BY <1>11 DEF FinishFrame
  <2>3. CASE loading /\ loading' = FALSE /\ Enqueue("ack")
    <3>1. Count(accepted', "ack") = Count(accepted, "ack") + 1
      BY <2>3, OtherCommand DEF Commands
    <3>2. Pending = scheduled + 1 /\ Pending' = scheduled
      BY <1>0, <2>1, <2>3 DEF Pending
    <3> QED BY <1>0, <2>1, <3>1, <3>2, AckKept
  <2> QED BY <1>1, <2>1, <2>2, <2>3
<1>12. CASE DrainPacket
  <2> DEFINE head == Head(packets)
             S == {script[k] : k \in 1..MaxPackets}
  <2>1. UNCHANGED <<script, accepted, loading>>
    BY <1>12 DEF DrainPacket
  <2>2. CASE UNCHANGED <<delivered, scheduled>>
    BY <1>1, <2>1, <2>2
  <2>3. CASE /\ head.kind \in {"data", "newWorld"}
             /\ delivered' = Append(delivered, head.pos)
             /\ scheduled' = IF head.kind = "newWorld" THEN scheduled + 1 ELSE scheduled
    <3>1. head.kind = script[head.pos] /\ head.pos \in 1..MaxPackets
      <4>1. Active /\ packets # <<>> /\ packets \in Seq(Entry)
        BY <1>12 DEF DrainPacket, TypeOK, Entry
      <4>2. head = packets[1] /\ 1 \in 1..Len(packets)
        BY <4>1
      <4>3. head.pos \in 1..read /\ head.kind = script[head.pos]
        BY <2>3, <4>1, <4>2 DEF EntriesInv, Events
      <4>4. read \in 0..MaxPackets
        BY ScriptFacts, PumpAssumption DEF TypeOK
      <4> HIDE DEF head
      <4> QED BY <4>3, <4>4, PumpAssumption
    <3> HIDE DEF head
    <3>2. /\ delivered \in Seq(1..MaxPackets) /\ Len(delivered) \in Nat
          /\ DOMAIN delivered = 1..Len(delivered)
      <4>1. delivered \in Seq(1..MaxPackets)
        BY DEF TypeOK
      <4> QED BY <4>1
    <3>3. Applied \in Seq(S) /\ Len(Applied) = Len(delivered) /\ script[head.pos] \in S
      <4>1. Applied \in [1..Len(delivered) -> S]
        <5>1. \A i \in 1..Len(delivered) : script[delivered[i]] \in S
          <6>1. \A k \in 1..MaxPackets : script[k] \in S
            OBVIOUS
          <6>2. \A i \in 1..Len(delivered) : delivered[i] \in 1..MaxPackets
            BY <3>2, ElementOfSeq
          <6> HIDE DEF S
          <6> QED BY <6>1, <6>2, Zenon
        <5> HIDE DEF S
        <5> QED BY <3>2, <5>1 DEF Applied
      <4>2. Applied \in Seq(S)
        BY <3>2, <4>1, SeqDef
      <4>3. Len(Applied) = Len(delivered)
        BY <3>2, <4>1, <4>2, LenProperties
      <4> QED BY <3>1, <4>2, <4>3
    <3>4. Applied' = Append(Applied, script[head.pos])
      <4>1. /\ DOMAIN delivered' = 1..(Len(delivered) + 1)
            /\ \A i \in 1..Len(delivered) : delivered'[i] = delivered[i]
            /\ delivered'[Len(delivered) + 1] = head.pos
        BY <2>3, <3>1, <3>2, AppendProperties, LenProperties
      <4>2. Applied' = [i \in 1..(Len(delivered) + 1) |-> script[delivered'[i]]]
        BY <2>1, <4>1 DEF Applied
      <4>3. Append(Applied, script[head.pos]) = [i \in 1..(Len(Applied) + 1) |->
                IF i = Len(Applied) + 1 THEN script[head.pos] ELSE Applied[i]]
        BY <3>3
      <4>4. \A i \in 1..Len(delivered) : Applied[i] = script[delivered[i]]
        BY <3>2 DEF Applied
      <4>5. \A i \in 1..(Len(delivered) + 1) : i \in 1..Len(delivered) \/ i = Len(delivered) + 1
        BY <3>2
      <4> QED BY <3>2, <3>3, <4>1, <4>2, <4>3, <4>4, <4>5
    <3> HIDE DEF S
    <3>5. /\ Count(Applied, "newWorld") \in Nat
          /\ Count(Applied', "newWorld") = Count(Applied, "newWorld")
                + (IF script[head.pos] = "newWorld" THEN 1 ELSE 0)
      BY <3>3, <3>4, CountType, CountAppend
    <3>6. Pending' = Pending + (IF script[head.pos] = "newWorld" THEN 1 ELSE 0)
      <4>1. scheduled' = scheduled + (IF script[head.pos] = "newWorld" THEN 1 ELSE 0)
        BY <1>0, <2>3, <3>1
      <4>2. Pending' = scheduled' + (Pending - scheduled)
        <5>1. Pending - scheduled = (IF loading THEN 1 ELSE 0)
          BY <1>0 DEF Pending
        <5> QED BY <2>1, <5>1 DEF Pending
      <4> QED BY <1>0, <4>1, <4>2
    <3>7. Count(accepted, "ack") + Pending = Count(Applied, "newWorld")
      BY <1>0 DEF OneAckPerNewWorld, Applied, Pending
    <3>8. Count(accepted', "ack") + Pending' = Count(Applied', "newWorld")
      BY <1>0, <2>1, <3>5, <3>6, <3>7
    <3> QED BY <1>0, <3>8 DEF OneAckPerNewWorld, Applied, Pending
  <2> QED BY <1>12, <2>2, <2>3 DEF DrainPacket
<1> QED
  BY <1>2, <1>3, <1>4, <1>5, <1>7, <1>8, <1>9, <1>10, <1>11, <1>12 DEF Next

\* The client acknowledges every NEW_WORLD it applied exactly once, counting the
\* replacement that is loading and the callbacks still scheduled
\* (client_services/world_transfer.rs:224-243).
THEOREM AcksCounted == Spec => []OneAckPerNewWorld
<1>1. PumpInv /\ PumpInv' /\ OneAckPerNewWorld /\ [Next]_vars => OneAckPerNewWorld'
  BY AckStep DEF PumpInv
<1> QED BY <1>1, AckStart, PumpInvariant, PTL DEF Spec

-----------------------------------------------------------------------------
(* Times on a clock that wraps.                                            *)

Half == Clock \div 2

LEMMA ClockFacts ==
    /\ Clock \in Nat \ {0} /\ Half \in Nat \ {0} /\ Clock = 2 * Half
    /\ Early \in Nat /\ Late \in Nat /\ Prime \in Nat /\ SampleMax \in Nat
    /\ MaxLag \in Nat /\ MaxFrame \in Nat /\ MaxQuiet \in Nat /\ Samples \in Nat \ {0}
    /\ Early + 2 * Late + 2 * MaxLag + 3 * MaxFrame + MaxQuiet < Half
<1>1. /\ Clock \in Nat /\ Early \in Nat /\ Late \in Nat /\ MaxLag \in Nat /\ MaxFrame \in Nat
      /\ MaxQuiet \in Nat /\ Clock % 2 = 0
      /\ Prime \in Nat /\ SampleMax \in Nat /\ Samples \in Nat \ {0}
  BY RemoteAssumption
<1>2. Half \in Nat /\ Clock = 2 * Half
  BY <1>1 DEF Half
<1> QED BY <1>1, <1>2, WindowAssumption

\* A multiple of the clock within one turn of it is none.
LEMMA NoTurn ==
    ASSUME NEW k \in Int, Clock * k < Clock, -Clock < Clock * k
    PROVE  k = 0
<1>1. k >= 1 => Clock * k >= Clock
  BY ClockFacts
<1>2. k <= -1 => Clock * k <= -Clock
  BY ClockFacts
<1> QED BY <1>1, <1>2, ClockFacts

\* The signed reading of a time differs from it by whole turns.
LEMMA SignedTurns ==
    ASSUME NEW t \in Int
    PROVE  /\ Signed(t) \in -Half..Half - 1
           /\ \E k \in Int : t = Signed(t) + Clock * k
<1>1. t % Clock \in 0..Clock - 1 /\ t \div Clock \in Int /\ t = (Clock * (t \div Clock)) + (t % Clock)
  BY ClockFacts
<1>2. CASE t % Clock < Half
  <2>1. Signed(t) = t % Clock
    BY <1>2 DEF Signed, Half
  <2>2. t = Signed(t) + Clock * (t \div Clock)
    <3>1. PICK p \in Int : p = Clock * (t \div Clock)
      BY <1>1, ClockFacts
    <3>2. PICK m \in Int : m = t % Clock
      BY <1>1, ClockFacts
    <3> QED BY <1>1, <2>1, <3>1, <3>2
  <2>3. Signed(t) \in -Half..Half - 1
    BY <1>1, <2>1, <1>2, ClockFacts
  <2> QED BY <1>1, <2>2, <2>3, Zenon
<1>3. CASE ~(t % Clock < Half)
  <2>1. Signed(t) = (t % Clock) - Clock
    BY <1>3 DEF Signed, Half
  <2>2. Clock * ((t \div Clock) + 1) = (Clock * (t \div Clock)) + Clock
    BY <1>1, ClockFacts
  <2>3. t = Signed(t) + Clock * ((t \div Clock) + 1)
    BY <1>1, <2>1, <2>2, ClockFacts
  <2>4. Signed(t) \in -Half..Half - 1
    BY <1>1, <2>1, <1>3, ClockFacts
  <2>5. (t \div Clock) + 1 \in Int
    BY <1>1
  <2>6. \E k \in Int : t = Signed(t) + Clock * k
    BY <2>3, <2>5, Zenon
  <2> QED BY <2>4, <2>6
<1> QED BY <1>2, <1>3

\* It is the only number within half a turn that does.
LEMMA SignedIs ==
    ASSUME NEW t \in Int, NEW y \in -Half..Half - 1, NEW k \in Int, t = y + Clock * k
    PROVE  Signed(t) = y
<1>1. PICK j \in Int : t = Signed(t) + Clock * j
  BY SignedTurns
<1>2. Signed(t) \in -Half..Half - 1
  BY SignedTurns
<1>3. Clock * (k - j) = Clock * k - Clock * j
  BY ClockFacts
<1>4. PICK a \in Int : a = Clock * k
  BY ClockFacts
<1>5. PICK b \in Int : b = Clock * j
  BY ClockFacts
<1>6. Clock * (k - j) < Clock /\ -Clock < Clock * (k - j)
  <2>1. Clock * (k - j) = Signed(t) - y
    BY <1>1, <1>2, <1>3, <1>4, <1>5
  <2> QED BY <2>1, <1>2, ClockFacts
<1>7. k - j = 0
  BY <1>6, NoTurn
<1>8. k = j
  BY <1>7
<1>9. Signed(t) \in Int /\ y \in Int
  BY <1>2, ClockFacts
<1>10. t = Signed(t) + a
  BY <1>1, <1>8, <1>4
<1>11. t = y + a
  BY <1>4
<1> QED BY <1>9, <1>10, <1>11

\* Two times equal but for whole turns read the same.
LEMMA SameReading ==
    ASSUME NEW s \in Int, NEW t \in Int, NEW k \in Int, s = t + Clock * k
    PROVE  Signed(s) = Signed(t)
<1>1. PICK j \in Int : t = Signed(t) + Clock * j
  BY SignedTurns
<1>2. Signed(t) \in -Half..Half - 1
  BY SignedTurns
<1>3. Clock * (j + k) = Clock * j + Clock * k
  BY ClockFacts
<1>4. PICK a \in Int : a = Clock * k
  BY ClockFacts
<1>5. PICK b \in Int : b = Clock * j
  BY ClockFacts
<1>6. s = Signed(t) + Clock * (j + k)
  BY <1>1, <1>2, <1>3, <1>4, <1>5
<1> QED BY <1>2, <1>6, SignedIs

\* The distance of two times, when it is less than half a turn.
LEMMA SignedGap ==
    ASSUME NEW a \in Int, NEW b \in Int, Signed(a) - Signed(b) \in -Half..Half - 1
    PROVE  Signed(a - b) = Signed(a) - Signed(b)
<1>1. PICK j \in Int : a = Signed(a) + Clock * j
  BY SignedTurns
<1>2. PICK k \in Int : b = Signed(b) + Clock * k
  BY SignedTurns
<1>3. Signed(a) \in Int /\ Signed(b) \in Int
  BY SignedTurns, ClockFacts
<1>4. Clock * (j - k) = Clock * j - Clock * k
  BY ClockFacts
<1>5. PICK x \in Int : x = Clock * j
  BY ClockFacts
<1>6. PICK y \in Int : y = Clock * k
  BY ClockFacts
<1>7. a - b = (Signed(a) - Signed(b)) + Clock * (j - k)
  <2>1. Clock * (j - k) = x - y
    BY <1>4, <1>5, <1>6
  <2>2. a = Signed(a) + x /\ b = Signed(b) + y
    BY <1>1, <1>2, <1>5, <1>6
  <2>3. a - b = (Signed(a) - Signed(b)) + (x - y)
    BY <1>3, <2>2
  <2> QED BY <2>1, <2>3
<1> QED BY <1>7, SignedIs

\* A time moved by a number of milliseconds.
LEMMA SignedMoved ==
    ASSUME NEW a \in Int, NEW d \in Int, Signed(a) + d \in -Half..Half - 1
    PROVE  Signed(a + d) = Signed(a) + d
<1>1. PICK j \in Int : a = Signed(a) + Clock * j
  BY SignedTurns
<1>2. Signed(a) \in Int
  BY SignedTurns, ClockFacts
<1>3. PICK x \in Int : x = Clock * j
  BY ClockFacts
<1>4. a + d = (Signed(a) + d) + Clock * j
  BY <1>1, <1>2, <1>3
<1> QED BY <1>4, SignedIs

\* A number within half a turn reads as itself.
LEMMA SignedSmall ==
    ASSUME NEW d \in -Half..Half - 1
    PROVE  Signed(d) = d
<1>1. Clock * 0 = 0 /\ d \in Int
  BY ClockFacts
<1>2. d = d + Clock * 0
  BY <1>1
<1> QED BY <1>1, <1>2, SignedIs

\* Wrapping a time changes no reading.
LEMMA WrappedReading ==
    ASSUME NEW t \in Int
    PROVE  t % Clock \in 0..Clock - 1 /\ \E k \in Int : t % Clock = t + Clock * k
<1>1. t % Clock \in 0..Clock - 1 /\ t \div Clock \in Int /\ t = (Clock * (t \div Clock)) + (t % Clock)
  BY ClockFacts
<1>2. Clock * (0 - (t \div Clock)) = 0 - (Clock * (t \div Clock))
  BY <1>1, ClockFacts
<1>3. PICK a \in Int : a = Clock * (t \div Clock)
  BY <1>1, ClockFacts
<1>4. t % Clock = t + Clock * (0 - (t \div Clock))
  BY <1>1, <1>2, <1>3
<1> QED BY <1>1, <1>4

\* Where a time is, seen from now.
Off(t) == Signed(t - now)

\* The distance between two times and a time moved, as the readings from now tell them.
LEMMA OffGap ==
    ASSUME NEW a \in Int, NEW b \in Int, now \in Int, Off(a) - Off(b) \in -Half..Half - 1
    PROVE  Signed(a - b) = Off(a) - Off(b)
<1>1. Signed((a - now) - (b - now)) = Signed(a - now) - Signed(b - now)
  BY SignedGap DEF Off
<1>2. (a - now) - (b - now) = a - b
  OBVIOUS
<1> QED BY <1>1, <1>2 DEF Off

LEMMA OffMoved ==
    ASSUME NEW a \in Int, NEW d \in Int, now \in Int, Off(a) + d \in -Half..Half - 1
    PROVE  Off((a + d) % Clock) = Off(a) + d /\ (a + d) % Clock \in 0..Clock - 1
<1>1. Signed((a - now) + d) = Signed(a - now) + d
  BY SignedMoved DEF Off
<1>2. a + d \in Int
  OBVIOUS
<1>3. PICK k \in Int : (a + d) % Clock = (a + d) + Clock * k
  BY <1>2, WrappedReading
<1>4. PICK x \in Int : x = Clock * k
  BY ClockFacts
<1>5. (a + d) % Clock \in 0..Clock - 1
  BY <1>2, WrappedReading
<1>6. PICK w \in Int : w = (a + d) % Clock
  BY <1>5, ClockFacts
<1>7. w - now = ((a - now) + d) + Clock * k
  BY <1>3, <1>4, <1>6
<1>8. Signed(w - now) = Signed((a - now) + d)
  BY <1>7, SameReading
<1> QED BY <1>1, <1>5, <1>6, <1>8 DEF Off

\* Now is no distance from itself, and what is due is not ahead.
LEMMA OffNow ==
    ASSUME now \in Int
    PROVE  Off(now) = 0
<1>1. now - now = 0
  OBVIOUS
<1> QED BY <1>1, SignedSmall, ClockFacts DEF Off

LEMMA OffBack ==
    ASSUME NEW t \in Int, now \in Int, Off(t) \in -Half + 1..Half - 1
    PROVE  Signed(now - t) = -Off(t)
<1>1. Off(now) - Off(t) \in -Half..Half - 1
  BY OffNow, ClockFacts
<1>2. Signed(now - t) = Off(now) - Off(t)
  BY <1>1, OffGap
<1> QED BY <1>2, OffNow

\* One tick later a time is one millisecond less ahead.
LEMMA OffTick ==
    ASSUME NEW t \in Int, now \in Int, now' = (now + 1) % Clock, Off(t) \in -Half + 1..Half - 1
    PROVE  Signed(t - now') = Off(t) - 1
<1>1. Signed((t - now) + (-1)) = Signed(t - now) + (-1)
  <2>1. t - now \in Int /\ -1 \in Int
    OBVIOUS
  <2>2. Signed(t - now) + (-1) \in -Half..Half - 1
    BY ClockFacts DEF Off
  <2> QED BY <2>1, <2>2, SignedMoved
<1>2. now + 1 \in Int
  OBVIOUS
<1>3. PICK k \in Int : (now + 1) % Clock = (now + 1) + Clock * k
  BY <1>2, WrappedReading
<1>4. PICK x \in Int : x = Clock * k
  BY ClockFacts
<1>5. Clock * (-k) = -x
  BY <1>4, ClockFacts
<1>6. t - now' \in Int /\ t - now' = ((t - now) + (-1)) + Clock * (-k)
  BY <1>3, <1>4, <1>5
<1>7. Signed(t - now') = Signed((t - now) + (-1))
  BY <1>6, SameReading
<1> QED BY <1>1, <1>7 DEF Off

\* How far ahead a unit's time may be, and how long ago an event in its inbox may have
\* been posted.
Ahead == Late + MaxLag + MaxFrame
Unserved == IF phase = "world" THEN sinceFrame ELSE MaxFrame

Times == 0..Clock - 1
Delays == -(Prime + SampleMax + 1)..(Prime + SampleMax + 1)
ClockRecords == [known: BOOLEAN, server: Times, local: Times, delay: Int,
                 history: [1..Samples -> Delays]]

\* The ranges of times, delays and leads.
LEMMA Facts ==
    /\ Times \subseteq Int /\ Delays \subseteq Int /\ Ahead \in Nat
    /\ Ahead = Late + MaxLag + MaxFrame
BY ClockFacts DEF Times, Delays, Ahead

LEMMA OffRange ==
    ASSUME now \in Times, NEW t \in Times
    PROVE  Off(t) \in Int /\ Off(t) \in -Half..Half - 1 /\ t \in Int /\ now \in Int
<1>1. t - now \in Int /\ t \in Int /\ now \in Int
  BY Facts
<1>2. Signed(t - now) \in -Half..Half - 1
  BY <1>1, SignedTurns
<1> QED BY <1>1, <1>2, ClockFacts DEF Off

LEMMA MinFacts ==
    ASSUME NEW S \in SUBSET Nat, S # {}
    PROVE  Min(S) \in S /\ \A y \in S : Min(S) <= y
<1>1. \E x \in S : \A y \in S : ~ (<<y, x>> \in OpToRel(<, Nat))
  BY NatLessThanWellFounded, WFMin
<1>2. \E x \in S : \A y \in S : x <= y
  <2>1. PICK x \in S : \A y \in S : ~ (<<y, x>> \in OpToRel(<, Nat))
    BY <1>1
  <2>2. \A y \in S : ~ (y < x)
    BY <2>1 DEF OpToRel
  <2> QED BY <2>2
<1> QED BY <1>2 DEF Min

\* The largest of a bounded set of delays, and of a delay and zero.
LEMMA MaxFacts ==
    ASSUME NEW S \in SUBSET Delays, S # {}
    PROVE  Max(S) \in S
<1>1. PICK top \in Int : Delays = -top..top /\ top \in Nat
  BY ClockFacts DEF Delays
<1>2. PICK R : R = {top - x : x \in S}
  OBVIOUS
<1>3. R # {} /\ R \in SUBSET Nat
  <2>1. \A x \in S : top - x \in Nat
    BY <1>1
  <2> QED BY <1>2, <2>1
<1>4. Min(R) \in R /\ \A y \in R : Min(R) <= y
  BY <1>3, MinFacts
<1>5. PICK x \in S : Min(R) = top - x
  BY <1>2, <1>4
<1>6. \A y \in S : x >= y
  <2> SUFFICES ASSUME NEW y \in S PROVE x >= y
    OBVIOUS
  <2>1. top - y \in R
    BY <1>2
  <2> QED BY <1>1, <1>4, <1>5, <2>1
<1> QED BY <1>6 DEF Max

LEMMA MaxZero ==
    ASSUME NEW x \in Int
    PROVE  Max({x, 0}) = IF x > 0 THEN x ELSE 0
<1>1. \E z \in {x, 0} : \A y \in {x, 0} : z >= y
  BY x >= 0 \/ x < 0
<1>2. Max({x, 0}) \in {x, 0} /\ \A y \in {x, 0} : Max({x, 0}) >= y
  BY <1>1 DEF Max
<1> QED BY <1>2

LEMMA ClampFacts ==
    ASSUME NEW t \in Int, NEW low \in Int, NEW high \in Int, low <= high
    PROVE  /\ Clamp(t, low, high) \in low..high
           /\ low <= t /\ t <= high => Clamp(t, low, high) = t
           /\ \A u \in low..high : u <= t => u <= Clamp(t, low, high)
BY DEF Clamp

\* A reading is a number; what a clamp is called with.
LEMMA SignedInt ==
    ASSUME NEW t \in Int
    PROVE  Signed(t) \in Int
BY SignedTurns, ClockFacts

LEMMA Limits ==
    /\ -Early \in Int /\ Late \in Int /\ -Early <= Late
    /\ -SampleMax - 1 \in Int /\ SampleMax \in Int /\ -SampleMax - 1 <= SampleMax
BY ClockFacts

\* The delays seen so far, one more seen.
LEMMA HistoryKept ==
    ASSUME NEW history \in [1..Samples -> Delays], NEW sample \in Delays
    PROVE  /\ Append(Tail(history), sample) \in [1..Samples -> Delays]
           /\ Max(ToSet(Append(Tail(history), sample))) \in Int
<1>1. Samples \in Nat \ {0}
  BY ClockFacts
<1>2. PICK h \in Seq(Delays) : h = history /\ Len(h) = Samples
  BY <1>1
<1>3. h # <<>>
  BY <1>1, <1>2
<1>4. Tail(h) \in Seq(Delays) /\ Len(Tail(h)) = Len(h) - 1
  BY <1>3, HeadTailProperties
<1>5. PICK t \in Seq(Delays) : t = Tail(h) /\ Len(t) = Samples - 1
  BY <1>2, <1>4
<1>6. Append(t, sample) \in Seq(Delays) /\ Len(Append(t, sample)) = Len(t) + 1
  BY <1>5, AppendProperties
<1>7. PICK n \in Seq(Delays) : n = Append(t, sample) /\ Len(n) = Samples
  <2>1. Len(Append(t, sample)) = Samples
    BY <1>1, <1>5, <1>6
  <2> QED BY <2>1, <1>6, Zenon
<1>8. n \in [1..Samples -> Delays]
  BY <1>7, LenProperties
<1>9. ToSet(n) \in SUBSET Delays /\ ToSet(n) # {}
  <2>1. 1 \in 1..Samples
    BY <1>1
  <2> QED BY <2>1, <1>8 DEF ToSet
<1>10. Max(ToSet(n)) \in Int
  BY <1>9, MaxFacts, Facts
<1> QED BY <1>2, <1>5, <1>7, <1>8, <1>10

\* Where a snapshot is placed: a unit that no path carries is moved by what a snapshot
\* may be moved, one on a path by what the server's clock has moved, and one that stands
\* never backwards.
LEMMA AdmittedAt ==
    ASSUME now \in Times, NEW clock \in ClockRecords, NEW stamp \in Times,
           NEW receipt \in Times, NEW idle, NEW pathed,
           Off(receipt) \in -MaxFrame..0, Off(stamp) - Off(receipt) \in -MaxLag..0,
           clock.known =>
             /\ Off(clock.server) \in -(MaxLag + 2 * MaxFrame + MaxQuiet)..0
             /\ Off(clock.local) - Off(clock.server) \in -Early..Ahead,
           NEW c, c = Admitted(clock, stamp, receipt, idle, pathed)
    PROVE  /\ c \in ClockRecords /\ c.known
           /\ Off(c.server) \in -(MaxLag + MaxFrame)..0
           /\ Off(c.local) - Off(c.server) \in -Early..Ahead
           /\ ~pathed => Off(c.local) \in -Early..Late
           /\ idle /\ ~pathed /\ clock.known /\ Off(clock.local) <= Late
                => Off(c.local) >= Off(clock.local)
<1> DEFINE server == IF clock.known THEN clock.server ELSE stamp
           local == IF clock.known THEN clock.local ELSE receipt
           at == IF Signed(receipt - now) < 0 THEN now ELSE receipt
           passed == Max({Signed(stamp - server), 0})
           elapsed == Signed(at - local)
           sample == Clamp(Signed(clock.delay - passed + elapsed), -SampleMax - 1, SampleMax)
           history == Append(Tail(clock.history), sample)
           delay == Max(ToSet(history))
           shift == Signed(passed - elapsed)
           settled == Settled(Signed(shift + delay - clock.delay), at, local)
           moved == IF pathed THEN shift
                    ELSE IF idle THEN Clamp(settled, -Early, Late)
                    ELSE Clamp(shift, -Early, Late)
<1>1. c = [known |-> TRUE, server |-> IF passed > 0 THEN stamp ELSE server,
           local |-> (at + moved) % Clock, history |-> history,
           delay |-> IF idle /\ ~pathed THEN delay ELSE clock.delay]
  BY DEF Admitted
<1>2. /\ Off(server) \in -(MaxLag + 2 * MaxFrame + MaxQuiet)..0
      /\ Off(local) - Off(server) \in -Early..Ahead
      /\ server \in Times /\ local \in Times
  <2>1. CASE clock.known
    BY <2>1 DEF ClockRecords
  <2>2. CASE ~clock.known
    <3>1. Off(stamp) \in Int /\ Off(receipt) \in Int
      BY OffRange
    <3>2. server = stamp /\ local = receipt
      BY <2>2
    <3> QED BY <3>1, <3>2, ClockFacts, Facts
  <2> QED BY <2>1, <2>2
<1>3. at \in Times /\ Off(at) = 0
  <2>1. Off(receipt) \in Int /\ now \in Int
    BY OffRange
  <2>2. CASE Signed(receipt - now) < 0
    BY <2>1, <2>2, OffNow
  <2>3. CASE ~(Signed(receipt - now) < 0)
    BY <2>1, <2>3, ClockFacts DEF Off
  <2> QED BY <2>2, <2>3
<1> HIDE DEF server, local, at
<1>4. PICK s \in Int : s = Off(server)
  BY <1>2, OffRange
<1>5. PICK l \in Int : l = Off(local)
  BY <1>2, OffRange
<1>6. PICK r \in Int : r = Off(receipt)
  BY OffRange
<1>7. PICK g \in Int : g = Off(stamp)
  BY OffRange
<1>8. /\ s \in -(MaxLag + 2 * MaxFrame + MaxQuiet)..0 /\ l - s \in -Early..Ahead
      /\ r \in -MaxFrame..0 /\ g - r \in -MaxLag..0
  BY <1>2, <1>4, <1>5, <1>6, <1>7
<1>9. passed \in Nat /\ passed = (IF g - s > 0 THEN g - s ELSE 0)
  <2>1. stamp \in Int /\ server \in Int /\ now \in Int
    BY <1>2, OffRange
  <2>2. g - s \in -Half..Half - 1
    BY <1>8, ClockFacts
  <2>3. Signed(stamp - server) = g - s
    BY <2>1, <2>2, <1>4, <1>7, OffGap
  <2>4. passed = IF g - s > 0 THEN g - s ELSE 0
    BY <2>3, MaxZero
  <2> QED BY <2>4
<1>10. elapsed = -l
  <2>1. at \in Int /\ local \in Int /\ now \in Int
    BY <1>2, <1>3, OffRange
  <2>2. 0 - l \in -Half..Half - 1
    BY <1>8, ClockFacts, Facts
  <2>3. Signed(at - local) = 0 - l
    BY <2>1, <2>2, <1>3, <1>5, OffGap
  <2> QED BY <2>3
<1> HIDE DEF passed, elapsed
<1>11. shift = passed + l
  <2>1. passed + l \in -Half..Half - 1
    BY <1>8, <1>9, ClockFacts, Facts
  <2>2. passed - elapsed = passed + l
    BY <1>9, <1>10
  <2> QED BY <2>1, <2>2, SignedSmall
<1>12. clock.delay \in Int
  BY DEF ClockRecords
<1>13. sample \in Delays
  <2>1. clock.delay - passed + elapsed \in Int
    BY <1>9, <1>10, <1>12
  <2>2. Signed(clock.delay - passed + elapsed) \in Int
    BY <2>1, SignedInt
  <2>3. sample \in -SampleMax - 1..SampleMax
    BY <2>2, Limits, ClampFacts
  <2> QED BY <2>3, ClockFacts DEF Delays
<1> HIDE DEF sample, shift
<1>14. history \in [1..Samples -> Delays] /\ delay \in Int
  BY <1>13, HistoryKept DEF ClockRecords
<1> HIDE DEF history, delay
<1>15. settled \in Int /\ settled >= l /\ settled >= -Early
  <2>1. shift + delay - clock.delay \in Int
    <3>1. shift \in Int
      BY <1>9, <1>11
    <3> QED BY <3>1, <1>12, <1>14
  <2>2. PICK x \in Int : x = Signed(shift + delay - clock.delay)
    BY <2>1, SignedInt
  <2>3. PICK y \in -Early..Late : y = Clamp(x, -Early, Late)
    BY <2>2, Limits, ClampFacts
  <2>4. at \in Int /\ local \in Int /\ now \in Int /\ y \in Int
    BY <1>2, <1>3, OffRange, ClockFacts
  <2>5. Signed(at + y - local) = y - l
    <3>1. PICK e \in Int : e = at - local
      BY <2>4
    <3>2. Signed(e) = -l
      BY <1>10, <3>1 DEF elapsed
    <3>3. Signed(e) + y \in -Half..Half - 1
      BY <1>8, <2>3, <3>2, ClockFacts, Facts
    <3>4. Signed(e + y) = Signed(e) + y
      BY <2>4, <3>3, SignedMoved
    <3>5. at + y - local = e + y
      BY <2>4, <3>1
    <3> QED BY <2>4, <3>2, <3>4, <3>5
  <2>6. Signed(local - at) = l
    <3>1. l - 0 \in -Half..Half - 1
      BY <1>8, ClockFacts, Facts
    <3> QED BY <3>1, <2>4, <1>3, <1>5, OffGap
  <2>7. settled = IF y - l < 0 THEN l ELSE y
    BY <2>2, <2>3, <2>5, <2>6 DEF Settled
  <2> QED BY <2>3, <2>4, <2>7, ClockFacts
<1> HIDE DEF settled
<1>16. /\ moved \in Int
       /\ pathed => moved = passed + l
       /\ ~pathed => moved \in -Early..Late
       /\ idle /\ ~pathed /\ l <= Late => moved >= l
  <2>1. CASE pathed
    BY <2>1, <1>9, <1>11
  <2>2. CASE ~pathed /\ ~idle
    <3>1. shift \in Int
      BY <1>8, <1>9, <1>11
    <3>2. Clamp(shift, -Early, Late) \in -Early..Late
      BY <3>1, Limits, ClampFacts
    <3>3. moved = Clamp(shift, -Early, Late)
      BY <2>2
    <3> QED BY <2>2, <3>2, <3>3, Limits
  <2>3. CASE ~pathed /\ idle
    <3>1. PICK z \in -Early..Late : z = Clamp(settled, -Early, Late)
      BY <1>15, Limits, ClampFacts
    <3>2. z \in Int
      BY Limits
    <3>3. l <= Late => z >= l
      BY <3>1, <1>15, ClockFacts DEF Clamp
    <3>4. moved = z
      BY <2>3, <3>1
    <3> QED BY <2>3, <3>2, <3>3, <3>4
  <2> QED BY <2>1, <2>2, <2>3
<1> HIDE DEF moved
<1>17. /\ Off((at + moved) % Clock) = moved
       /\ (at + moved) % Clock \in Times
  <2>1. at \in Int /\ now \in Int
    BY <1>3, OffRange
  <2>2. moved \in -Half..Half - 1
    BY <1>8, <1>9, <1>16, ClockFacts, Facts
  <2> QED BY <2>1, <2>2, <1>3, <1>16, OffMoved DEF Times
<1>18. c.server \in Times /\ Off(c.server) = s + passed
  <2>1. CASE passed > 0
    BY <2>1, <1>1, <1>7, <1>8, <1>9
  <2>2. CASE ~(passed > 0)
    BY <2>2, <1>1, <1>2, <1>4, <1>9
  <2> QED BY <2>1, <2>2
<1>19. c.local \in Times /\ Off(c.local) = moved /\ c.known = TRUE /\ c.history = history
  BY <1>1, <1>17
<1>20. c \in ClockRecords
  BY <1>1, <1>12, <1>14, <1>18, <1>19 DEF ClockRecords
<1>21. /\ s + passed \in -(MaxLag + MaxFrame)..0
  BY <1>8, <1>9, ClockFacts
<1>22. moved - (s + passed) \in -Early..Ahead
  BY <1>8, <1>9, <1>16, <1>21, ClockFacts, Facts
<1>23. clock.known => l = Off(clock.local)
  BY <1>5 DEF local
<1> QED BY <1>16, <1>18, <1>19, <1>20, <1>21, <1>22, <1>23

-----------------------------------------------------------------------------
(* The inductive invariant.                                                *)

Snapshots == [message: Messages, time: Times]
Present == unit # None \/ phase = "serving"
\* The types the timeline rests on; what a unit does then is left out.
TimeTypes ==
    /\ now \in Times /\ sinceFrame \in 0..MaxFrame /\ quiet \in 0..MaxQuiet
    /\ phase \in {"world", "serving"} /\ lives \in Nat
    /\ object \in 1..lives \union {None} /\ inbox \in Seq(InboxEvents)
UnitTypes(u) ==
    /\ DOMAIN u = {"life", "time", "stance", "pathed", "clock", "commands"}
    /\ u.life \in 1..lives /\ u.time \in Times
    /\ u.clock \in ClockRecords /\ u.commands \in Seq(Snapshots)

\* What is in the inbox was received since the last service.
InboxInv ==
    /\ object = None => inbox = <<>>
    /\ phase = "serving" => object # None /\ unit.life = object
    /\ \A i \in 1..Len(inbox) :
          /\ Off(inbox[i].receipt) \in -Unserved..0
          /\ inbox[i].kind = "command" =>
                Off(inbox[i].stamp) - Off(inbox[i].receipt) \in -MaxLag..0

\* The server's clock was seen not long ago, and the unit's is not far from it.
Awaited == \E i \in 1..Len(inbox) : inbox[i].kind = "command"
Age == MaxFrame + (IF Awaited THEN MaxQuiet + Unserved ELSE quiet)
ClockInv ==
    object # None /\ unit.life = object /\ unit.clock.known =>
        /\ Off(unit.clock.server) \in -(MaxLag + Age)..0
        /\ Off(unit.clock.local) - Off(unit.clock.server) \in -Early..Ahead

\* A unit is played up to the last service, or further; what it retains is in order,
\* and was ahead when the unit's time was where it is.
CommandsFit(u) ==
    /\ \A i \in 1..Len(u.commands) :
          /\ Off(u.commands[i].time) <= Late
          /\ Off(u.commands[i].time) - Off(u.time) >= -Ahead
    /\ \A i, j \in 1..Len(u.commands) :
          i <= j => Off(u.commands[i].time) <= Off(u.commands[j].time)
Timely(u) == Off(u.time) \in -Unserved..Ahead /\ CommandsFit(u)

RemoteInv ==
    /\ TimeTypes /\ InboxInv
    /\ Present => UnitTypes(unit) /\ ClockInv /\ Timely(unit)

-----------------------------------------------------------------------------
LEMMA Spans ==
    ASSUME TimeTypes
    PROVE  /\ Unserved \in 0..MaxFrame /\ Unserved \in Nat /\ quiet \in Nat /\ sinceFrame \in Nat
           /\ Age \in Nat /\ Age >= MaxFrame /\ Age <= 2 * MaxFrame + MaxQuiet
<1>1. Unserved \in 0..MaxFrame /\ Unserved \in Nat
  BY ClockFacts DEF TimeTypes, Unserved
<1>2. quiet \in 0..MaxQuiet /\ quiet \in Nat /\ sinceFrame \in Nat
  BY ClockFacts DEF TimeTypes
<1>3. CASE Awaited
  BY <1>1, <1>2, <1>3, ClockFacts DEF Age
<1>4. CASE ~Awaited
  BY <1>1, <1>2, <1>4, ClockFacts DEF Age
<1> QED BY <1>1, <1>2, <1>3, <1>4

LEMMA EventFacts ==
    ASSUME NEW e \in InboxEvents
    PROVE  /\ e.receipt \in Times
           /\ e.kind = "command" => e.stamp \in Times /\ e.message \in Messages
           /\ e.kind \in {"baseline", "command", "path"}
BY DEF InboxEvents, Times

LEMMA TailInbox ==
    ASSUME TimeTypes, inbox # <<>>, inbox' = Tail(inbox)
    PROVE  /\ inbox' \in Seq(InboxEvents) /\ Len(inbox') = Len(inbox) - 1
           /\ Len(inbox) \in Nat /\ 1 \in 1..Len(inbox)
           /\ Head(inbox) = inbox[1] /\ Head(inbox) \in InboxEvents
           /\ \A i \in 1..Len(inbox') : i + 1 \in 1..Len(inbox) /\ inbox'[i] = inbox[i + 1]
           /\ inbox' # inbox
<1>1. inbox \in Seq(InboxEvents)
  BY DEF TimeTypes
<1>2. /\ Head(inbox) \in InboxEvents /\ Tail(inbox) \in Seq(InboxEvents)
      /\ Len(Tail(inbox)) = Len(inbox) - 1
      /\ \A i \in 1..Len(Tail(inbox)) : Tail(inbox)[i] = inbox[i + 1]
  BY <1>1, HeadTailProperties
<1>3. Len(inbox) \in Nat \ {0}
  BY <1>1, EmptySeq
<1>4. Head(inbox) = inbox[1]
  BY <1>1
<1>5. \A i \in 1..Len(inbox) - 1 : i + 1 \in 1..Len(inbox)
  BY <1>3
<1>6. Len(inbox') = Len(inbox) - 1
  BY <1>2
<1>7. inbox' # inbox
  <2>1. PICK n \in Nat \ {0} : n = Len(inbox)
    BY <1>3
  <2>2. n - 1 # n
    OBVIOUS
  <2> QED BY <1>6, <2>1, <2>2, Zenon
<1>8. \A i \in 1..Len(inbox') : inbox'[i] = inbox[i + 1]
  BY <1>2, Zenon
<1>9. 1 \in 1..Len(inbox) /\ Len(inbox) \in Nat
  BY <1>3
<1>10. \A i \in 1..Len(inbox') : i + 1 \in 1..Len(inbox)
  BY <1>5, <1>6
<1> QED BY <1>2, <1>4, <1>6, <1>7, <1>8, <1>9, <1>10, Zenon

\* A sequence with an element put at a place.
LEMMA InsertFacts ==
    ASSUME NEW S, NEW s \in Seq(S), NEW e \in S, NEW p \in 1..Len(s) + 1,
           NEW n, n = InsertAt(s, p, e)
    PROVE  /\ n \in Seq(S) /\ Len(n) = Len(s) + 1 /\ Len(s) \in Nat
           /\ \A i \in 1..Len(n) :
                 n[i] = IF i < p THEN s[i] ELSE IF i = p THEN e ELSE s[i - 1]
<1>1. Len(s) \in Nat /\ \A i \in 1..Len(s) : s[i] \in S
  BY LenProperties, ElementOfSeq
<1>2. PICK a : a = SubSeq(s, 1, p - 1)
  OBVIOUS
<1>3. PICK b : b = SubSeq(s, p, Len(s))
  OBVIOUS
<1>4. /\ a \in Seq(S) /\ Len(a) = p - 1
      /\ \A i \in 1..p - 1 : a[i] = s[i]
  <2>1. 1 \in Int /\ p - 1 \in Int /\ \A i \in 1..p - 1 : s[i] \in S
    BY <1>1
  <2>2. /\ SubSeq(s, 1, p - 1) \in Seq(S)
        /\ Len(SubSeq(s, 1, p - 1)) = IF 1 <= p - 1 THEN p - 1 - 1 + 1 ELSE 0
        /\ \A i \in 1..p - 1 - 1 + 1 : SubSeq(s, 1, p - 1)[i] = s[1 + i - 1]
    BY <2>1, SubSeqProperties
  <2> QED BY <1>1, <1>2, <2>2
<1>5. /\ b \in Seq(S) /\ Len(b) = Len(s) - p + 1
      /\ \A i \in 1..Len(s) - p + 1 : b[i] = s[p + i - 1]
  <2>1. p \in Int /\ Len(s) \in Int /\ \A i \in p..Len(s) : s[i] \in S
    BY <1>1
  <2>2. /\ SubSeq(s, p, Len(s)) \in Seq(S)
        /\ Len(SubSeq(s, p, Len(s))) = IF p <= Len(s) THEN Len(s) - p + 1 ELSE 0
        /\ \A i \in 1..Len(s) - p + 1 : SubSeq(s, p, Len(s))[i] = s[p + i - 1]
    BY <2>1, SubSeqProperties
  <2> QED BY <1>1, <1>3, <2>2
<1>6. PICK c \in Seq(S) : c = a \o <<e>> /\ Len(c) = p /\ \A i \in 1..p :
          c[i] = IF i < p THEN s[i] ELSE e
  <2>1. <<e>> \in Seq(S) /\ Len(<<e>>) = 1 /\ <<e>>[1] = e
    OBVIOUS
  <2>2. /\ a \o <<e>> \in Seq(S) /\ Len(a \o <<e>>) = Len(a) + Len(<<e>>)
        /\ \A i \in 1..Len(a) + Len(<<e>>) :
              (a \o <<e>>)[i] = IF i <= Len(a) THEN a[i] ELSE <<e>>[i - Len(a)]
    BY <1>4, <2>1, ConcatProperties
  <2>3. Len(a) + Len(<<e>>) = p /\ Len(a) = p - 1
    BY <1>4, <2>1
  <2>4. \A i \in 1..p : (a \o <<e>>)[i] = IF i < p THEN s[i] ELSE e
    <3> SUFFICES ASSUME NEW i \in 1..p PROVE (a \o <<e>>)[i] = IF i < p THEN s[i] ELSE e
      OBVIOUS
    <3>0. PICK m : m = a \o <<e>>
      OBVIOUS
    <3>3. m[i] = IF i <= p - 1 THEN a[i] ELSE <<e>>[i - (p - 1)]
      BY <2>2, <2>3, <3>0, Zenon
    <3>1. CASE i < p
      <4>1. i \in 1..p - 1
        BY <3>1
      <4>2. a[i] = s[i]
        BY <4>1, <1>4
      <4>3. m[i] = s[i]
        BY <4>1, <4>2, <3>3
      <4> QED BY <4>3, <3>0, <3>1
    <3>2. CASE i = p
      <4>1. m[i] = e
        BY <3>2, <3>3
      <4>2. ~(i < p)
        BY <1>1, <3>2
      <4> QED BY <3>0, <4>1, <4>2
    <3>4. i < p \/ i = p
      BY <1>1
    <3> QED BY <3>1, <3>2, <3>4, Zenon
  <2> QED BY <2>2, <2>3, <2>4
<1>7. /\ c \o b \in Seq(S) /\ Len(c \o b) = Len(c) + Len(b)
      /\ \A i \in 1..Len(c) + Len(b) :
            (c \o b)[i] = IF i <= Len(c) THEN c[i] ELSE b[i - Len(c)]
  <2>1. c \in Seq(S) /\ b \in Seq(S)
    BY <1>5
  <2> QED BY <2>1, ConcatProperties, Zenon
<1>8. n = c \o b
  BY <1>2, <1>3, <1>6 DEF InsertAt
<1>9. Len(c) = p /\ Len(b) = Len(s) - p + 1 /\ Len(n) = Len(s) + 1
  <2>1. Len(c) = p /\ Len(b) = Len(s) - p + 1 /\ Len(n) = Len(c) + Len(b)
    BY <1>5, <1>6, <1>7, <1>8, Zenon
  <2> QED BY <2>1, <1>1
<1>10. ASSUME NEW i \in 1..Len(n)
       PROVE  n[i] = IF i < p THEN s[i] ELSE IF i = p THEN e ELSE s[i - 1]
  <2>1. CASE i <= p
    BY <2>1, <1>1, <1>6, <1>7, <1>8, <1>9
  <2>2. CASE i > p
    <3>1. n[i] = b[i - p] /\ i - p \in 1..Len(s) - p + 1
      BY <2>2, <1>1, <1>7, <1>8, <1>9
    <3>2. b[i - p] = s[p + (i - p) - 1]
      BY <3>1, <1>5
    <3>3. p + (i - p) - 1 = i - 1
      BY <1>1, <1>9
    <3> QED BY <2>2, <3>1, <3>2, <3>3
  <2> QED BY <2>1, <2>2, <1>1, <1>9
<1> QED BY <1>1, <1>7, <1>8, <1>9, <1>10

\* What a unit retains, read from now.
LEMMA CommandTimes ==
    ASSUME TimeTypes, NEW u, UnitTypes(u), Timely(u), NEW i \in 1..Len(u.commands)
    PROVE  /\ u.commands[i] \in Snapshots /\ u.commands[i].time \in Times
           /\ Off(u.commands[i].time) \in -(Unserved + Ahead)..Late
           /\ Off(u.commands[i].time) \in Int
           /\ Signed(now - u.commands[i].time) = -Off(u.commands[i].time)
<1>1. u.commands[i] \in Snapshots
  BY ElementOfSeq DEF UnitTypes
<1>2. u.commands[i].time \in Times
  BY <1>1 DEF Snapshots
<1>3. PICK o \in Int : o = Off(u.commands[i].time)
  BY <1>2, OffRange DEF TimeTypes
<1>4. PICK t \in Int : t = Off(u.time)
  BY OffRange DEF TimeTypes, UnitTypes
<1>5. t \in -Unserved..Ahead /\ o <= Late /\ o - t >= -Ahead
  BY <1>3, <1>4 DEF Timely, CommandsFit
<1>6. o \in -(Unserved + Ahead)..Late
  BY <1>5, Spans, ClockFacts, Facts
<1>7. o \in -Half + 1..Half - 1
  BY <1>6, Spans, ClockFacts, Facts
<1>8. now \in Int /\ u.commands[i].time \in Int
  BY <1>2, OffRange DEF TimeTypes
<1> QED BY <1>1, <1>2, <1>3, <1>6, <1>7, <1>8, OffBack

\* A snapshot that waits takes its place in the order of times.
LEMMA RetainFits ==
    ASSUME TimeTypes, NEW u, UnitTypes(u), Timely(u),
           NEW command \in Snapshots, Off(command.time) \in 1..Late,
           NEW v, v = Retain(u, command)
    PROVE  UnitTypes(v) /\ Timely(v) /\ v.life = u.life /\ v.clock = u.clock
<1>1. PICK s \in Seq(Snapshots) : s = u.commands
  BY DEF UnitTypes
<1>2. Len(s) \in Nat /\ DOMAIN s = 1..Len(s)
  BY LenProperties
<1>3. PICK later : later = {i \in DOMAIN s : Signed(command.time - s[i].time) < 0}
  OBVIOUS
<1>4. PICK p : p = IF later = {} THEN Len(s) + 1 ELSE Min(later)
  OBVIOUS
<1>5. PICK c \in Int : c = Off(command.time)
  BY ClockFacts
<1>6. \A i \in 1..Len(s) : i \in later <=> c < Off(s[i].time)
  <2> SUFFICES ASSUME NEW i \in 1..Len(s) PROVE i \in later <=> c < Off(s[i].time)
    OBVIOUS
  <2>1. s[i].time \in Times /\ Off(s[i].time) \in -(Unserved + Ahead)..Late /\ Off(s[i].time) \in Int
    BY <1>1, CommandTimes
  <2>2. PICK o \in Int : o = Off(s[i].time)
    BY <2>1
  <2>3. c - o \in -Half..Half - 1
    <3>1. c \in 1..Late /\ o \in -(Unserved + Ahead)..Late
      BY <1>5, <2>1, <2>2
    <3> QED BY <3>1, Spans, ClockFacts, Facts
  <2>4. command.time \in Int /\ s[i].time \in Int /\ now \in Int
    BY <2>1, OffRange DEF Snapshots, TimeTypes
  <2>5. Signed(command.time - s[i].time) = c - o
    BY <1>5, <2>2, <2>3, <2>4, OffGap
  <2> QED BY <1>2, <1>3, <2>2, <2>5
<1>7. /\ p \in 1..Len(s) + 1
      /\ \A i \in 1..Len(s) : i < p => ~(c < Off(s[i].time))
      /\ p <= Len(s) => c < Off(s[p].time)
  <2>1. CASE later = {}
    BY <1>2, <1>4, <1>6, <2>1
  <2>2. CASE later # {}
    <3>1. later \in SUBSET Nat /\ later \subseteq 1..Len(s)
      BY <1>2, <1>3
    <3>2. p \in later /\ \A y \in later : p <= y
      BY <1>4, <2>2, <3>1, MinFacts
    <3> QED BY <1>2, <1>6, <3>1, <3>2
  <2> QED BY <2>1, <2>2
<1>8. PICK n \in Seq(Snapshots) : /\ n = InsertAt(s, p, command) /\ Len(n) = Len(s) + 1
          /\ \A i \in 1..Len(n) : n[i] = IF i < p THEN s[i] ELSE IF i = p THEN command ELSE s[i - 1]
  <2>1. PICK n : n = InsertAt(s, p, command)
    OBVIOUS
  <2> QED BY <1>7, <2>1, InsertFacts
<1>9. v = [u EXCEPT !.commands = n]
  BY <1>1, <1>3, <1>4, <1>8 DEF Retain
<1>10. /\ v.commands = n /\ v.time = u.time /\ v.life = u.life /\ v.clock = u.clock
       /\ DOMAIN v = DOMAIN u
  BY <1>9 DEF UnitTypes
<1>11. UnitTypes(v)
  BY <1>10 DEF UnitTypes
<1>12. PICK t \in Int : t = Off(u.time)
  BY OffRange DEF TimeTypes, UnitTypes
<1>13. \A i \in 1..Len(n) :
          \/ i < p /\ i \in 1..Len(s) /\ n[i] = s[i]
          \/ i = p /\ n[i] = command
          \/ i > p /\ i - 1 \in 1..Len(s) /\ n[i] = s[i - 1]
  BY <1>2, <1>7, <1>8
<1>14. \A i \in 1..Len(s) : Off(s[i].time) <= Late /\ Off(s[i].time) - t >= -Ahead
  BY <1>1, <1>12 DEF Timely, CommandsFit
<1>15. c <= Late /\ c - t >= -Ahead
  <2>1. t <= Ahead /\ c \in 1..Late
    BY <1>5, <1>12, Spans, Facts DEF Timely
  <2> QED BY <2>1, Facts, ClockFacts
<1>16. \A i, j \in 1..Len(s) : i <= j => Off(s[i].time) <= Off(s[j].time)
  BY <1>1 DEF Timely, CommandsFit
<1>17. \A i \in 1..Len(n) : Off(n[i].time) <= Late /\ Off(n[i].time) - t >= -Ahead
  BY <1>5, <1>13, <1>14, <1>15
<1>18. \A i \in 1..Len(s) : Off(s[i].time) \in Int
  BY <1>1, CommandTimes
<1>19. ASSUME NEW i \in 1..Len(s), i >= p PROVE c < Off(s[i].time)
  <2>1. p \in 1..Len(s)
    BY <1>2, <1>7, <1>19
  <2> QED BY <1>7, <1>16, <1>18, <1>19, <2>1
<1>20. ASSUME NEW i \in 1..Len(n), NEW j \in 1..Len(n), i <= j
       PROVE  Off(n[i].time) <= Off(n[j].time)
  <2>1. i \in Int /\ j \in Int /\ p \in Int
    BY <1>2, <1>7, <1>8
  <2>2. CASE i < p /\ j < p
    <3>1. i \in 1..Len(s) /\ j \in 1..Len(s) /\ n[i] = s[i] /\ n[j] = s[j]
      BY <1>13, <2>1, <2>2
    <3> QED BY <1>16, <1>20, <3>1
  <2>3. CASE i < p /\ j = p
    <3>1. i \in 1..Len(s) /\ n[i] = s[i] /\ n[j] = command
      BY <1>13, <2>1, <2>3
    <3> QED BY <1>5, <1>7, <1>18, <2>3, <3>1
  <2>4. CASE i < p /\ j > p
    <3>1. /\ i \in 1..Len(s) /\ j - 1 \in 1..Len(s) /\ i <= j - 1
          /\ n[i] = s[i] /\ n[j] = s[j - 1]
      BY <1>13, <2>1, <2>4
    <3> QED BY <1>16, <3>1
  <2>5. CASE i = p /\ j = p
    BY <1>5, <1>13, <2>1, <2>5
  <2>6. CASE i = p /\ j > p
    <3>1. j - 1 \in 1..Len(s) /\ j - 1 >= p /\ n[i] = command /\ n[j] = s[j - 1]
      BY <1>13, <2>1, <2>6
    <3> QED BY <1>5, <1>18, <1>19, <3>1
  <2>7. CASE i > p
    <3>1. /\ j - 1 \in 1..Len(s) /\ i - 1 \in 1..Len(s) /\ i - 1 <= j - 1
          /\ n[i] = s[i - 1] /\ n[j] = s[j - 1]
      BY <1>13, <1>20, <2>1, <2>7
    <3> QED BY <1>16, <3>1
  <2> QED BY <1>20, <2>1, <2>2, <2>3, <2>4, <2>5, <2>6, <2>7
<1>21. CommandsFit(v)
  BY <1>10, <1>12, <1>17, <1>20 DEF CommandsFit
<1> QED BY <1>10, <1>11, <1>21 DEF Timely

\* What is played is due, what is left is not.
LEMMA AdvanceFits ==
    ASSUME TimeTypes, NEW u, UnitTypes(u), Timely(u), NEW v, v = Advance(u)
    PROVE  /\ UnitTypes(v) /\ CommandsFit(v) /\ v.life = u.life /\ v.clock = u.clock
           /\ Off(v.time) \in 0..Ahead
           /\ Off(u.time) >= 0 \/ \A i \in 1..Len(v.commands) : Off(v.commands[i].time) > 0
<1>1. PICK t \in Int : t = Off(u.time)
  BY OffRange DEF TimeTypes, UnitTypes
<1>2. t \in -Unserved..Ahead
  BY <1>1 DEF Timely
<1>3. Signed(now - u.time) = -t
  <2>1. u.time \in Int /\ now \in Int
    BY OffRange DEF TimeTypes, UnitTypes
  <2>2. t \in -Half + 1..Half - 1
    BY <1>2, Spans, ClockFacts, Facts
  <2> QED BY <1>1, <2>1, <2>2, OffBack
<1>4. CASE Signed(now - u.time) <= 0
  <2>1. v = u
    BY <1>4 DEF Advance
  <2>2. t \in 0..Ahead
    BY <1>1, <1>2, <1>3, <1>4, Spans, Facts
  <2> QED BY <1>1, <2>1, <2>2 DEF Timely
<1>5. CASE ~(Signed(now - u.time) <= 0)
  <2>1. PICK s \in Seq(Snapshots) : s = u.commands
    BY DEF UnitTypes
  <2>2. Len(s) \in Nat /\ DOMAIN s = 1..Len(s)
    BY LenProperties
  <2>3. PICK waiting : waiting = {i \in DOMAIN s : ~DueNow(s[i])}
    OBVIOUS
  <2>4. PICK due : due = IF waiting = {} THEN Len(s) ELSE Min(waiting) - 1
    OBVIOUS
  <2>5. \A i \in 1..Len(s) : Off(s[i].time) \in Int /\ (i \in waiting <=> Off(s[i].time) > 0)
    <3> SUFFICES ASSUME NEW i \in 1..Len(s)
                 PROVE  Off(s[i].time) \in Int /\ (i \in waiting <=> Off(s[i].time) > 0)
      OBVIOUS
    <3>1. Off(s[i].time) \in Int /\ Signed(now - s[i].time) = -Off(s[i].time)
      BY <2>1, CommandTimes
    <3>2. i \in waiting <=> ~(Signed(now - s[i].time) >= 0)
      BY <2>2, <2>3 DEF DueNow
    <3> QED BY <3>1, <3>2
  <2>6. due \in 0..Len(s) /\ (due + 1 <= Len(s) => Off(s[due + 1].time) > 0)
    <3>1. CASE waiting = {}
      BY <2>2, <2>4, <3>1
    <3>2. CASE waiting # {}
      <4>1. waiting \in SUBSET Nat /\ waiting \subseteq 1..Len(s)
        BY <2>2, <2>3
      <4>2. Min(waiting) \in waiting
        BY <3>2, <4>1, MinFacts
      <4>3. PICK m \in 1..Len(s) : m = Min(waiting)
        BY <4>1, <4>2
      <4>4. due = m - 1
        BY <2>4, <3>2, <4>3
      <4>5. due + 1 = m /\ due \in 0..Len(s)
        BY <2>2, <4>4
      <4> QED BY <2>5, <4>2, <4>3, <4>5
    <3> QED BY <3>1, <3>2
  <2>7. PICK n : n = SubSeq(s, due + 1, Len(s))
    OBVIOUS
  <2>8. /\ n \in Seq(Snapshots) /\ Len(n) = Len(s) - due /\ Len(n) \in Nat
        /\ \A i \in 1..Len(n) : n[i] = s[due + i] /\ due + i \in 1..Len(s)
    <3>1. due + 1 \in Int /\ Len(s) \in Int /\ \A i \in due + 1..Len(s) : s[i] \in Snapshots
      BY <2>2, <2>6
    <3>2. /\ n \in Seq(Snapshots)
          /\ Len(n) = IF due + 1 <= Len(s) THEN Len(s) - (due + 1) + 1 ELSE 0
          /\ \A i \in 1..Len(s) - (due + 1) + 1 : n[i] = s[due + 1 + i - 1]
      BY <2>7, <3>1, SubSeqProperties
    <3>3. Len(n) = Len(s) - due /\ Len(n) \in Nat
      <4>1. Len(n) = IF due + 1 <= Len(s) THEN Len(s) - (due + 1) + 1 ELSE 0
        BY <3>2
      <4>2. PICK k \in Nat : k = Len(s)
        BY <2>2
      <4>3. due \in 0..k
        BY <2>6, <4>2
      <4>4. Len(n) = IF due + 1 <= k THEN k - (due + 1) + 1 ELSE 0
        BY <4>1, <4>2
      <4>5. Len(n) = k - due /\ k - due \in Nat
        BY <4>3, <4>4
      <4> QED BY <4>2, <4>5
    <3>4. \A i \in 1..Len(n) : due + 1 + i - 1 = due + i /\ due + i \in 1..Len(s)
      BY <2>2, <2>6, <3>3
    <3>5. Len(s) - (due + 1) + 1 = Len(n)
      BY <2>2, <2>6, <3>3
    <3> QED BY <3>2, <3>3, <3>4, <3>5
  <2>9. v = [u EXCEPT !.time = now, !.stance = Played(u, due).stance,
                      !.pathed = Played(u, due).pathed, !.commands = n]
    BY <1>5, <2>1, <2>3, <2>4, <2>7 DEF Advance
  <2>10. /\ v.commands = n /\ v.time = now /\ v.life = u.life /\ v.clock = u.clock
         /\ DOMAIN v = DOMAIN u
    BY <2>9 DEF UnitTypes
  <2>11. UnitTypes(v)
    BY <2>8, <2>10 DEF UnitTypes, TimeTypes
  <2>12. Off(v.time) = 0
    BY <2>10, OffNow, Facts DEF TimeTypes
  <2>13. \A i, j \in 1..Len(s) : i <= j => Off(s[i].time) <= Off(s[j].time)
    BY <2>1 DEF Timely, CommandsFit
  <2>14. \A i \in 1..Len(s) : Off(s[i].time) <= Late
    BY <2>1 DEF Timely, CommandsFit
  <2>15. \A i \in 1..Len(n) : Off(n[i].time) > 0
    <3> SUFFICES ASSUME NEW i \in 1..Len(n) PROVE Off(n[i].time) > 0
      OBVIOUS
    <3>1. due + i \in 1..Len(s) /\ due + 1 \in 1..Len(s) /\ due + 1 <= due + i /\ due + 1 <= Len(s)
      BY <2>2, <2>6, <2>8
    <3>2. Off(s[due + 1].time) > 0
      BY <2>6, <3>1
    <3>3. Off(s[due + 1].time) <= Off(s[due + i].time)
      BY <2>13, <3>1
    <3>4. n[i] = s[due + i]
      BY <2>8
    <3>5. Off(s[due + 1].time) \in Int /\ Off(s[due + i].time) \in Int
      BY <2>5, <3>1
    <3> QED BY <3>2, <3>3, <3>4, <3>5
  <2>16. \A i \in 1..Len(n) : Off(n[i].time) <= Late /\ Off(n[i].time) - 0 >= -Ahead
    <3> SUFFICES ASSUME NEW i \in 1..Len(n)
                 PROVE  Off(n[i].time) <= Late /\ Off(n[i].time) - 0 >= -Ahead
      OBVIOUS
    <3>1. n[i] = s[due + i] /\ due + i \in 1..Len(s)
      BY <2>8
    <3>2. Off(n[i].time) \in Int /\ Off(n[i].time) > 0 /\ Off(n[i].time) <= Late
      BY <2>5, <2>14, <2>15, <3>1
    <3> QED BY <3>2, Facts
  <2>17. \A i, j \in 1..Len(n) : i <= j => Off(n[i].time) <= Off(n[j].time)
    <3> SUFFICES ASSUME NEW i \in 1..Len(n), NEW j \in 1..Len(n), i <= j
                 PROVE  Off(n[i].time) <= Off(n[j].time)
      OBVIOUS
    <3>1. due + i \in 1..Len(s) /\ due + j \in 1..Len(s) /\ due + i <= due + j
      BY <2>2, <2>6, <2>8
    <3>2. n[i] = s[due + i] /\ n[j] = s[due + j]
      BY <2>8
    <3> QED BY <2>13, <3>1, <3>2
  <2>18. CommandsFit(v)
    BY <2>10, <2>12, <2>16, <2>17 DEF CommandsFit
  <2>19. 0 \in 0..Ahead
    BY Facts
  <2> QED BY <2>10, <2>11, <2>12, <2>15, <2>18, <2>19
<1> QED BY <1>4, <1>5

\* A unit that retains nothing has nothing out of order.
LEMMA NothingRetained ==
    ASSUME NEW u, u.commands = <<>>
    PROVE  CommandsFit(u) /\ u.commands \in Seq(Snapshots)
<1>1. Len(u.commands) = 0
  OBVIOUS
<1> QED BY <1>1 DEF CommandsFit

\* A snapshot that corrects a unit puts its time there, or at the frame's.
LEMMA CorrectFits ==
    ASSUME TimeTypes, NEW u, UnitTypes(u), NEW message \in Messages, NEW time \in Times,
           Off(time) \in -Half + 1..Ahead, NEW v, v = Correct(u, message, time)
    PROVE  UnitTypes(v) /\ Timely(v) /\ v.life = u.life /\ v.clock = u.clock
<1>1. PICK t \in Int : t = Off(time)
  BY OffRange DEF TimeTypes
<1>2. t \in -Half + 1..Ahead
  BY <1>1
<1>3. Signed(now - time) = -t
  <2>1. time \in Int /\ now \in Int
    BY OffRange DEF TimeTypes
  <2>2. t \in -Half + 1..Half - 1
    BY <1>2, ClockFacts, Facts
  <2> QED BY <1>1, <2>1, <2>2, OffBack
<1>4. v.time = IF Signed(now - time) > 0 THEN now ELSE time
  BY DEF Correct, Apply, UnitTypes
<1>5. /\ v.commands = <<>> /\ v.life = u.life /\ v.clock = u.clock /\ DOMAIN v = DOMAIN u
  BY DEF Correct, Apply, UnitTypes
<1>6. v.time \in Times /\ Off(v.time) \in 0..Ahead
  <2>1. CASE t < 0
    <3>1. v.time = now
      BY <1>3, <1>4, <2>1
    <3>2. Off(now) = 0
      BY OffNow, Facts DEF TimeTypes
    <3> QED BY <3>1, <3>2, Facts DEF TimeTypes
  <2>2. CASE ~(t < 0)
    <3>1. v.time = time
      BY <1>3, <1>4, <2>2
    <3> QED BY <1>1, <1>2, <2>2, <3>1, Facts
  <2> QED BY <2>1, <2>2
<1>7. CommandsFit(v) /\ v.commands \in Seq(Snapshots)
  BY <1>5, NothingRetained
<1>8. UnitTypes(v)
  BY <1>5, <1>6, <1>7 DEF UnitTypes
<1>9. Off(v.time) \in -Unserved..Ahead
  BY <1>6, Spans, Facts
<1> QED BY <1>5, <1>7, <1>8, <1>9 DEF Timely

-----------------------------------------------------------------------------
(* Each step keeps it.                                                     *)

\* An event posted now.
LEMMA Posted ==
    ASSUME TimeTypes, InboxInv, NEW e \in InboxEvents, e.receipt = now,
           e.kind = "command" => Off(e.stamp) \in -MaxLag..0,
           inbox' = Append(inbox, e) \/ inbox' = <<e>>,
           phase = "world", object' # None, UNCHANGED <<now, phase, sinceFrame>>
    PROVE  inbox' \in Seq(InboxEvents) /\ InboxInv'
<1>1. inbox \in Seq(InboxEvents) /\ Len(inbox) \in Nat
  BY LenProperties DEF TimeTypes
<1>2. PICK q \in Seq(InboxEvents) :
          /\ q = inbox'
          /\ \A i \in 1..Len(q) : q[i] = e \/ \E j \in 1..Len(inbox) : q[i] = inbox[j]
  <2>1. CASE inbox' = Append(inbox, e)
    <3>1. /\ Append(inbox, e) \in Seq(InboxEvents) /\ Len(Append(inbox, e)) = Len(inbox) + 1
          /\ \A i \in 1..Len(inbox) + 1 :
                Append(inbox, e)[i] = IF i <= Len(inbox) THEN inbox[i] ELSE e
      BY <1>1, AppendProperties
    <3>2. \A i \in 1..Len(inbox) + 1 : i <= Len(inbox) => i \in 1..Len(inbox)
      BY <1>1
    <3>3. PICK q \in Seq(InboxEvents) : q = Append(inbox, e)
      BY <3>1
    <3>4. Len(q) = Len(inbox) + 1
          /\ \A i \in 1..Len(q) : q[i] = IF i <= Len(inbox) THEN inbox[i] ELSE e
      BY <3>1, <3>3
    <3>5. \A i \in 1..Len(q) : q[i] = e \/ \E j \in 1..Len(inbox) : q[i] = inbox[j]
      BY <3>2, <3>4
    <3> QED BY <2>1, <3>3, <3>5, Zenon
  <2>2. CASE inbox' = <<e>>
    <3>0. <<e>> \in Seq(InboxEvents)
      OBVIOUS
    <3>1. PICK q \in Seq(InboxEvents) : q = <<e>>
      BY <3>0, Zenon
    <3>2. \A i \in 1..Len(q) : q[i] = e
      BY <3>1
    <3> QED BY <2>2, <3>1, <3>2, Zenon
  <2> QED BY <2>1, <2>2
<1>3. Off(now) = 0 /\ now \in Int
  BY OffNow, Facts DEF TimeTypes
<1>4. Unserved \in Nat /\ Unserved' = Unserved
  BY Spans DEF Unserved
<1>5. ASSUME NEW i \in 1..Len(q)
      PROVE  /\ Off(q[i].receipt) \in -Unserved..0
             /\ q[i].kind = "command" => Off(q[i].stamp) - Off(q[i].receipt) \in -MaxLag..0
  <2>1. CASE q[i] = e
    <3>1. Off(q[i].receipt) = 0
      BY <1>3, <2>1
    <3>2. e.kind = "command" => Off(e.stamp) - 0 \in -MaxLag..0
      BY ClockFacts
    <3> QED BY <1>4, <2>1, <3>1, <3>2
  <2>2. CASE \E j \in 1..Len(inbox) : q[i] = inbox[j]
    BY <2>2 DEF InboxInv
  <2> QED BY <1>2, <2>1, <2>2
<1>6. ASSUME NEW i \in 1..Len(q)
      PROVE  /\ Off(q[i].receipt)' \in -Unserved'..0
             /\ q[i].kind = "command" => Off(q[i].stamp)' - Off(q[i].receipt)' \in -MaxLag..0
  BY <1>4, <1>5 DEF Off
<1> QED BY <1>2, <1>6 DEF InboxInv

\* An event taken by the owner.
LEMMA Taken ==
    ASSUME TimeTypes, InboxInv, inbox # <<>>, inbox' = Tail(inbox), unit'.life = unit.life,
           UNCHANGED <<now, phase, sinceFrame, object>>
    PROVE  inbox' \in Seq(InboxEvents) /\ InboxInv'
<1>1. PICK q \in Seq(InboxEvents) :
          /\ q = inbox' /\ \A i \in 1..Len(q) : \E j \in 1..Len(inbox) : q[i] = inbox[j]
  BY TailInbox
<1>2. Unserved' = Unserved
  BY DEF Unserved
<1>3. ASSUME NEW i \in 1..Len(q)
      PROVE  /\ Off(q[i].receipt)' \in -Unserved'..0
             /\ q[i].kind = "command" => Off(q[i].stamp)' - Off(q[i].receipt)' \in -MaxLag..0
  <2>1. PICK j \in 1..Len(inbox) : q[i] = inbox[j]
    BY <1>1
  <2> QED BY <1>2, <2>1 DEF Off, InboxInv
<1>4. object' = None => inbox = <<>>
  BY DEF InboxInv
<1> QED BY <1>1, <1>3, <1>4 DEF InboxInv

\* A clock nobody has touched.
LEMMA ClockKept ==
    ASSUME TimeTypes, ClockInv, now' = now, Age' \in Nat, Age' >= Age,
           object' # None /\ unit'.life = object' => object # None /\ unit.life = object,
           unit'.clock = unit.clock
    PROVE  ClockInv'
<1>1. PICK c : c = unit'.clock /\ c = unit.clock
  OBVIOUS
<1>2. ASSUME object' # None, unit'.life = object', c.known
      PROVE  /\ Off(c.server)' \in -(MaxLag + Age')..0
             /\ Off(c.local)' - Off(c.server)' \in -Early..Ahead
  <2>1. /\ Off(c.server) \in -(MaxLag + Age)..0
        /\ Off(c.local) - Off(c.server) \in -Early..Ahead
    BY <1>1, <1>2 DEF ClockInv
  <2>2. Off(c.server) \in -(MaxLag + Age')..0
    BY <2>1, Spans, ClockFacts
  <2> QED BY <2>1, <2>2 DEF Off
<1> QED BY <1>1, <1>2 DEF ClockInv, Ahead

\* A unit whose time the frame may only have left behind.
LEMMA UnitKept ==
    ASSUME NEW v, UnitTypes(v), Timely(v), unit' = v, now' = now, lives \in Nat, lives' \in Nat,
           lives' >= lives, Unserved \in Nat, Unserved' \in Nat, Unserved' >= Unserved
    PROVE  UnitTypes(unit)' /\ Timely(unit)'
<1>1. UnitTypes(unit)'
  BY DEF UnitTypes, ClockRecords, Times, Delays, Snapshots
<1>2. Off(v.time) \in -Unserved'..Ahead
  BY Facts DEF Timely
<1>3. CommandsFit(v)'
  BY DEF Timely, CommandsFit, Off, Ahead
<1> QED BY <1>1, <1>2, <1>3 DEF Timely, Off, CommandsFit, Ahead

LEMMA BaselineFacts ==
    ASSUME now \in Times, NEW movement \in Movements, NEW e, e = Baseline(movement)
    PROVE  e \in InboxEvents /\ e.receipt = now /\ e.kind = "baseline"
BY DEF Baseline, InboxEvents, Times

LEMMA CreateStep ==
    ASSUME RemoteInv, NEW movement \in Movements, Create(movement)
    PROVE  RemoteInv'
<1>1. PICK e : e = Baseline(movement)
  OBVIOUS
<1>2. TimeTypes /\ InboxInv /\ lives \in Nat /\ now \in Times /\ phase = "world"
  BY DEF RemoteInv, TimeTypes, Create
<1>3. e \in InboxEvents /\ e.receipt = now /\ e.kind = "baseline"
  BY <1>1, <1>2, BaselineFacts
<1>4. object' = lives + 1 /\ lives' = lives + 1 /\ object' # None /\ object' \in 1..lives'
  BY <1>2, RemoteAssumption DEF Create
<1>5. inbox' = <<e>> /\ UNCHANGED <<now, phase, sinceFrame, unit>> /\ quiet' = 0
  BY <1>1 DEF Create
<1>6. inbox' \in Seq(InboxEvents) /\ InboxInv'
  BY <1>2, <1>3, <1>4, <1>5, Posted
<1>7. TimeTypes'
  BY <1>2, <1>4, <1>5, <1>6, ClockFacts DEF TimeTypes
<1>8. ASSUME Present' PROVE UnitTypes(unit)' /\ ClockInv' /\ Timely(unit)'
  <2>1. Present
    BY <1>5, <1>8 DEF Present
  <2>2. UnitTypes(unit) /\ Timely(unit)
    BY <2>1 DEF RemoteInv
  <2>3. Unserved' = Unserved /\ Unserved \in Nat
    BY <1>2, <1>5, Spans DEF Unserved
  <2>4. UnitTypes(unit)' /\ Timely(unit)'
    BY <1>2, <1>4, <1>5, <2>2, <2>3, UnitKept
  <2>5. unit'.life # object'
    BY <1>2, <1>4, <1>5, <2>2 DEF UnitTypes
  <2> QED BY <2>4, <2>5 DEF ClockInv
<1> QED BY <1>6, <1>7, <1>8 DEF RemoteInv

\* What a post leaves as it was.
PostedTo(e) ==
    /\ inbox' = Append(inbox, e) /\ object # None /\ phase = "world"
    /\ UNCHANGED <<now, sinceFrame, phase, object, unit, lives>>
LEMMA PostStep ==
    ASSUME RemoteInv, NEW e \in InboxEvents, PostedTo(e), e.receipt = now,
           \/ e.kind # "command" /\ quiet' = quiet
           \/ e.kind = "command" /\ quiet' = 0 /\ Off(e.stamp) \in -MaxLag..0
    PROVE  RemoteInv'
<1>1. TimeTypes /\ InboxInv /\ phase = "world" /\ lives \in Nat
  BY DEF RemoteInv, TimeTypes, PostedTo
<1>2. /\ inbox' = Append(inbox, e) /\ object' # None
      /\ UNCHANGED <<now, sinceFrame, phase, object, unit, lives>>
  BY DEF PostedTo
<1>3. inbox' \in Seq(InboxEvents) /\ InboxInv'
  BY <1>1, <1>2, Posted
<1>4. TimeTypes'
  BY <1>1, <1>2, <1>3, ClockFacts DEF TimeTypes
<1>5. Unserved' = Unserved /\ Unserved \in Nat
  BY <1>1, <1>2, Spans DEF Unserved
<1>6. Age' \in Nat
  <2>1. quiet' \in Nat /\ Unserved' \in Nat
    BY <1>4, <1>5, ClockFacts DEF TimeTypes
  <2>2. CASE Awaited'
    <3>1. Age' = MaxFrame + (MaxQuiet + Unserved')
      BY <2>2 DEF Age
    <3>2. PICK g \in Nat : g = Unserved'
      BY <2>1
    <3>3. MaxFrame + (MaxQuiet + g) \in Nat
      BY ClockFacts
    <3> QED BY <3>1, <3>2, <3>3, Zenon
  <2>3. CASE ~Awaited'
    <3>1. Age' = MaxFrame + quiet'
      BY <2>3 DEF Age
    <3>2. PICK q \in Nat : q = quiet'
      BY <2>1
    <3>3. MaxFrame + q \in Nat
      BY ClockFacts
    <3> QED BY <3>1, <3>2, <3>3, Zenon
  <2> QED BY <2>2, <2>3
<1>7. Age' >= Age
  <2>1. /\ Append(inbox, e) \in Seq(InboxEvents) /\ Len(Append(inbox, e)) = Len(inbox) + 1
        /\ \A i \in 1..Len(inbox) + 1 :
              Append(inbox, e)[i] = IF i <= Len(inbox) THEN inbox[i] ELSE e
    BY <1>1, AppendProperties DEF TimeTypes
  <2>2. Len(inbox) \in Nat
    BY <1>1, LenProperties DEF TimeTypes
  <2>3. Awaited => Awaited'
    <3> SUFFICES ASSUME NEW i \in 1..Len(inbox), inbox[i].kind = "command" PROVE Awaited'
      BY DEF Awaited
    <3>1. i \in 1..Len(inbox) + 1 /\ i <= Len(inbox)
      BY <2>2
    <3>2. Append(inbox, e)[i] = inbox[i]
      BY <2>1, <3>1
    <3> QED BY <1>2, <2>1, <3>1, <3>2 DEF Awaited
  <2>4. e.kind = "command" => Awaited'
    <3>1. Len(inbox) + 1 \in 1..Len(inbox) + 1 /\ ~(Len(inbox) + 1 <= Len(inbox))
      BY <2>2
    <3>2. Append(inbox, e)[Len(inbox) + 1] = e
      BY <2>1, <3>1
    <3> QED BY <1>2, <2>1, <3>1, <3>2 DEF Awaited
  <2>5. quiet \in 0..MaxQuiet /\ quiet' \in 0..MaxQuiet
    BY <1>1, <1>4 DEF TimeTypes
  <2>6. CASE Awaited
    <3>1. Awaited'
      BY <2>3, <2>6
    <3> QED BY <1>5, <2>6, <3>1, ClockFacts DEF Age
  <2>7. CASE ~Awaited /\ Awaited'
    BY <1>5, <2>5, <2>7, ClockFacts DEF Age
  <2>8. CASE ~Awaited /\ ~Awaited'
    <3>1. quiet' = quiet
      BY <2>4, <2>8
    <3> QED BY <2>5, <2>8, <3>1, ClockFacts DEF Age
  <2> QED BY <2>6, <2>7, <2>8
<1>8. ASSUME Present' PROVE UnitTypes(unit)' /\ ClockInv' /\ Timely(unit)'
  <2>1. Present
    BY <1>2, <1>8 DEF Present
  <2>2. UnitTypes(unit) /\ Timely(unit) /\ ClockInv
    BY <2>1 DEF RemoteInv
  <2>3. UnitTypes(unit)' /\ Timely(unit)'
    BY <1>1, <1>2, <1>5, <2>2, UnitKept
  <2>4. ClockInv'
    BY <1>1, <1>2, <1>6, <1>7, <2>2, ClockKept
  <2> QED BY <2>3, <2>4
<1> QED BY <1>3, <1>4, <1>8 DEF RemoteInv

LEMMA ReceiveBaselineStep ==
    ASSUME RemoteInv, NEW movement \in Movements, ReceiveBaseline(movement)
    PROVE  RemoteInv'
<1>1. PICK e : e = Baseline(movement)
  OBVIOUS
<1>2. now \in Times
  BY DEF RemoteInv, TimeTypes
<1>3. e \in InboxEvents /\ e.receipt = now /\ e.kind = "baseline"
  BY <1>1, <1>2, BaselineFacts
<1>4. PostedTo(e) /\ quiet' = quiet
  BY <1>1 DEF ReceiveBaseline, Post, Arrival, PostedTo
<1> QED BY <1>3, <1>4, PostStep

LEMMA ReceivePathStep ==
    ASSUME RemoteInv, NEW outcome \in {"spline", "place", "refused"}, ReceivePath(outcome)
    PROVE  RemoteInv'
<1>1. PICK e : e = [kind |-> "path", receipt |-> now, outcome |-> outcome]
  OBVIOUS
<1>2. now \in Times
  BY DEF RemoteInv, TimeTypes
<1>3. e \in InboxEvents /\ e.receipt = now /\ e.kind = "path"
  BY <1>1, <1>2 DEF InboxEvents, Times
<1>4. PostedTo(e) /\ quiet' = quiet
  BY <1>1 DEF ReceivePath, Post, Arrival, PostedTo
<1> QED BY <1>3, <1>4, PostStep

LEMMA ReceiveCommandStep ==
    ASSUME RemoteInv, NEW message \in Messages, NEW lag \in Lags, ReceiveCommand(message, lag)
    PROVE  RemoteInv'
<1>1. PICK e : e = [kind |-> "command", receipt |-> now, stamp |-> (now - lag) % Clock,
                    message |-> message]
  OBVIOUS
<1>2. now \in Times /\ now \in Int /\ lag \in 0..MaxLag /\ lag \in Nat
  BY RemoteAssumption, ClockFacts, Facts DEF RemoteInv, TimeTypes
<1>3. (now - lag) % Clock \in Times /\ Off((now - lag) % Clock) = -lag
  <2>1. Off(now) = 0
    BY <1>2, OffNow
  <2>2. PICK d \in Int : d = -lag
    BY <1>2
  <2>3. Off(now) + d \in -Half..Half - 1
    BY <1>2, <2>1, <2>2, ClockFacts
  <2>4. Off((now + d) % Clock) = Off(now) + d /\ (now + d) % Clock \in 0..Clock - 1
    BY <1>2, <2>3, OffMoved
  <2>5. now - lag = now + d
    BY <1>2, <2>2
  <2> QED BY <2>1, <2>2, <2>4, <2>5 DEF Times
<1>4. e \in InboxEvents /\ e.receipt = now /\ e.kind = "command" /\ e.stamp = (now - lag) % Clock
  BY <1>1, <1>2, <1>3 DEF InboxEvents, Times
<1>5. Off(e.stamp) \in -MaxLag..0
  BY <1>2, <1>3, <1>4, ClockFacts
<1>6. PostedTo(e) /\ quiet' = 0
  BY <1>1 DEF ReceiveCommand, Post, Arrival, PostedTo
<1> QED BY <1>4, <1>5, <1>6, PostStep

LEMMA DespawnStep ==
    ASSUME RemoteInv, Despawn
    PROVE  RemoteInv'
<1>1. TimeTypes /\ InboxInv /\ phase = "world" /\ lives \in Nat
  BY DEF RemoteInv, TimeTypes, Despawn
<1>2. /\ object' = None /\ inbox' = <<>>
      /\ UNCHANGED <<now, sinceFrame, quiet, phase, unit, lives>>
  BY DEF Despawn
<1>3. TimeTypes'
  BY <1>1, <1>2 DEF TimeTypes
<1>4. InboxInv'
  <2>1. Len(inbox') = 0
    BY <1>2
  <2> QED BY <1>1, <1>2, <2>1 DEF InboxInv
<1>5. Unserved' = Unserved /\ Unserved \in Nat
  BY <1>1, <1>2, Spans DEF Unserved
<1>6. ASSUME Present' PROVE UnitTypes(unit)' /\ ClockInv' /\ Timely(unit)'
  <2>1. Present
    BY <1>2, <1>6 DEF Present
  <2>2. UnitTypes(unit) /\ Timely(unit)
    BY <2>1 DEF RemoteInv
  <2>3. UnitTypes(unit)' /\ Timely(unit)'
    BY <1>1, <1>2, <1>5, <2>2, UnitKept
  <2> QED BY <1>2, <2>3 DEF ClockInv
<1> QED BY <1>3, <1>4, <1>6 DEF RemoteInv

LEMMA TickStep ==
    ASSUME RemoteInv, Tick
    PROVE  RemoteInv'
<1>1. TimeTypes /\ InboxInv /\ phase = "world" /\ lives \in Nat
  BY DEF RemoteInv, TimeTypes, Tick
<1>2. /\ now' = (now + 1) % Clock /\ sinceFrame' = sinceFrame + 1 /\ quiet' = quiet + 1
      /\ sinceFrame < MaxFrame /\ quiet < MaxQuiet
      /\ UNCHANGED <<phase, object, inbox, unit, lives>>
  BY DEF Tick
<1>3. now \in Times /\ now \in Int /\ sinceFrame \in 0..MaxFrame /\ quiet \in 0..MaxQuiet
      /\ inbox \in Seq(InboxEvents)
  BY <1>1, Facts DEF TimeTypes
<1>4. now' \in Times /\ sinceFrame' \in 0..MaxFrame /\ quiet' \in 0..MaxQuiet
  <2>1. (now + 1) % Clock \in 0..Clock - 1
    BY <1>3, ClockFacts
  <2> QED BY <1>2, <1>3, <2>1, ClockFacts DEF Times
<1>5. TimeTypes'
  BY <1>1, <1>2, <1>4 DEF TimeTypes, Times
<1>6. ASSUME NEW t \in Times, Off(t) > -Half
      PROVE  Off(t)' = Off(t) - 1 /\ Off(t) \in Int
  <2>1. t \in Int /\ Off(t) \in Int /\ Off(t) \in -Half..Half - 1
    BY <1>3, OffRange
  <2>2. Off(t) \in -Half + 1..Half - 1
    BY <1>6, <2>1, ClockFacts
  <2>3. Signed(t - now') = Off(t) - 1
    BY <1>2, <1>3, <2>1, <2>2, OffTick
  <2> QED BY <2>1, <2>3 DEF Off
<1>7. Unserved = sinceFrame /\ Unserved' = sinceFrame + 1 /\ Unserved' = Unserved + 1 /\ Unserved \in Nat
  BY <1>1, <1>2, <1>3, ClockFacts DEF Unserved
<1>8. Age' = Age + 1 /\ Age \in Nat /\ Age <= 2 * MaxFrame + MaxQuiet
  <2>1. Awaited' = Awaited
    BY <1>2 DEF Awaited
  <2>2. Age \in Nat /\ Age <= 2 * MaxFrame + MaxQuiet
    BY <1>1, Spans
  <2>3. CASE Awaited
    <3>1. Age = MaxFrame + (MaxQuiet + Unserved) /\ Age' = MaxFrame + (MaxQuiet + Unserved')
      BY <2>1, <2>3 DEF Age
    <3> QED BY <1>7, <2>2, <3>1, ClockFacts
  <2>4. CASE ~Awaited
    <3>1. Age = MaxFrame + quiet /\ Age' = MaxFrame + quiet'
      BY <2>1, <2>4 DEF Age
    <3> QED BY <1>2, <1>3, <2>2, <3>1, ClockFacts
  <2> QED BY <2>3, <2>4
<1>9. InboxInv'
  <2>1. ASSUME NEW i \in 1..Len(inbox)
        PROVE  /\ Off(inbox[i].receipt)' \in -Unserved'..0
               /\ inbox[i].kind = "command" =>
                     Off(inbox[i].stamp)' - Off(inbox[i].receipt)' \in -MaxLag..0
    <3>1. PICK e \in InboxEvents : e = inbox[i]
      BY <1>3, ElementOfSeq
    <3>2. e.receipt \in Times /\ (e.kind = "command" => e.stamp \in Times)
      BY EventFacts
    <3>3. PICK r \in Int : r = Off(e.receipt)
      BY <1>3, <3>2, OffRange
    <3>4. r \in -Unserved..0 /\ (e.kind = "command" => Off(e.stamp) - r \in -MaxLag..0)
      BY <1>1, <3>1, <3>3 DEF InboxInv
    <3>5. r > -Half
      BY <1>3, <1>7, <3>4, ClockFacts
    <3>6. Off(e.receipt)' = r - 1
      BY <1>6, <3>2, <3>3, <3>5
    <3>7. e.kind = "command" => Off(e.stamp)' = Off(e.stamp) - 1 /\ Off(e.stamp) \in Int
      <4> SUFFICES ASSUME e.kind = "command"
                   PROVE  Off(e.stamp)' = Off(e.stamp) - 1 /\ Off(e.stamp) \in Int
        OBVIOUS
      <4>1. PICK g \in Int : g = Off(e.stamp)
        BY <1>3, <3>2, OffRange
      <4>2. g > -Half
        BY <1>3, <1>7, <3>4, <4>1, ClockFacts
      <4> QED BY <1>6, <3>2, <4>1, <4>2
    <3>8. r - 1 \in -Unserved'..0
      BY <1>3, <1>7, <3>4, ClockFacts
    <3>9. Off(e.receipt)' \in -Unserved'..0
      BY <3>6, <3>8
    <3>10. e.kind = "command" => Off(e.stamp)' - Off(e.receipt)' \in -MaxLag..0
      <4>1. e.kind = "command" => (Off(e.stamp) - 1) - (r - 1) \in -MaxLag..0
        BY <3>4, <3>7, ClockFacts
      <4> QED BY <3>6, <3>7, <4>1
    <3> QED BY <3>1, <3>9, <3>10, <1>2 DEF Off
  <2> QED BY <1>1, <1>2, <2>1 DEF InboxInv, Off
<1>10. ASSUME Present' PROVE UnitTypes(unit)' /\ ClockInv' /\ Timely(unit)'
  <2>1. Present
    BY <1>2, <1>10 DEF Present
  <2>2. PICK u : u = unit
    OBVIOUS
  <2>3. UnitTypes(u) /\ Timely(u) /\ ClockInv /\ unit' = u
    BY <1>2, <2>1, <2>2 DEF RemoteInv
  <2>4. UnitTypes(unit)'
    BY <1>2, <2>3 DEF UnitTypes, ClockRecords, Times, Delays, Snapshots
  <2>5. PICK t \in Int : t = Off(u.time)
    BY <1>3, <2>3, OffRange DEF UnitTypes
  <2>6. t \in -Unserved..Ahead
    BY <2>3, <2>5 DEF Timely
  <2>7. Off(u.time)' = t - 1
    <3>1. t > -Half
      BY <1>3, <1>7, <2>6, ClockFacts
    <3> QED BY <1>6, <2>3, <2>5, <3>1 DEF UnitTypes
  <2>8. t - 1 \in -Unserved'..Ahead
    BY <1>7, <2>6, Facts
  <2>9. \A i \in 1..Len(u.commands) :
            /\ Off(u.commands[i].time) \in Int
            /\ Off(u.commands[i].time)' = Off(u.commands[i].time) - 1
    <3> SUFFICES ASSUME NEW i \in 1..Len(u.commands)
                 PROVE  /\ Off(u.commands[i].time) \in Int
                        /\ Off(u.commands[i].time)' = Off(u.commands[i].time) - 1
      OBVIOUS
    <3>1. u.commands[i].time \in Times /\ Off(u.commands[i].time) \in -(Unserved + Ahead)..Late
      BY <1>1, <2>3, CommandTimes
    <3>2. Off(u.commands[i].time) > -Half
      BY <3>1, <1>3, <1>7, ClockFacts, Facts
    <3> QED BY <1>6, <3>1, <3>2
  <2>10. CommandsFit(u)'
    <3>1. ASSUME NEW i \in 1..Len(u.commands)
          PROVE  Off(u.commands[i].time)' <= Late /\ Off(u.commands[i].time)' - Off(u.time)' >= -Ahead
      <4>1. PICK o \in Int : o = Off(u.commands[i].time)
        BY <2>9
      <4>2. o <= Late /\ o - t >= -Ahead
        BY <2>3, <2>5, <4>1 DEF Timely, CommandsFit
      <4>3. o - 1 <= Late /\ (o - 1) - (t - 1) >= -Ahead
        BY <4>2, Facts, ClockFacts
      <4> QED BY <2>7, <2>9, <4>1, <4>3
    <3>2. ASSUME NEW i \in 1..Len(u.commands), NEW j \in 1..Len(u.commands), i <= j
          PROVE  Off(u.commands[i].time)' <= Off(u.commands[j].time)'
      <4>1. Off(u.commands[i].time) <= Off(u.commands[j].time)
        BY <2>3, <3>2 DEF Timely, CommandsFit
      <4> QED BY <2>9, <4>1
    <3> QED BY <3>1, <3>2 DEF CommandsFit, Ahead
  <2>11. Timely(unit)'
    BY <2>3, <2>7, <2>8, <2>10 DEF Timely, CommandsFit, Off, Ahead
  <2>12. ClockInv'
    <3> SUFFICES ASSUME object # None, u.life = object, u.clock.known
                 PROVE  /\ Off(u.clock.server)' \in -(MaxLag + Age')..0
                        /\ Off(u.clock.local)' - Off(u.clock.server)' \in -Early..Ahead
      BY <1>2, <2>3 DEF ClockInv, Off, Ahead
    <3>1. u.clock.server \in Times /\ u.clock.local \in Times
      BY <2>3 DEF UnitTypes, ClockRecords
    <3>2. PICK s \in Int : s = Off(u.clock.server)
      BY <1>3, <3>1, OffRange
    <3>3. PICK l \in Int : l = Off(u.clock.local)
      BY <1>3, <3>1, OffRange
    <3>4. s \in -(MaxLag + Age)..0 /\ l - s \in -Early..Ahead
      BY <2>2, <2>3, <3>2, <3>3 DEF ClockInv
    <3>5. s > -Half /\ l > -Half
      BY <1>8, <3>4, ClockFacts, Facts
    <3>6. Off(u.clock.server)' = s - 1 /\ Off(u.clock.local)' = l - 1
      BY <1>6, <3>1, <3>2, <3>3, <3>5
    <3>7. s - 1 \in -(MaxLag + Age')..0 /\ (l - 1) - (s - 1) \in -Early..Ahead
      BY <1>8, <3>4, ClockFacts, Facts
    <3> QED BY <3>6, <3>7
  <2> QED BY <2>4, <2>11, <2>12
<1> QED BY <1>5, <1>9, <1>10 DEF RemoteInv

LEMMA BeginServiceStep ==
    ASSUME RemoteInv, BeginService
    PROVE  RemoteInv'
<1>1. TimeTypes /\ InboxInv /\ phase = "world" /\ lives \in Nat /\ now \in Times
  BY DEF RemoteInv, TimeTypes, BeginService
<1>2. sinceFrame' = 0 /\ UNCHANGED <<now, quiet, object, ecs, inbox, lives>>
  BY DEF BeginService
<1>3. CASE object = None
  <2>1. unit' = None /\ phase' = "world"
    BY <1>3 DEF BeginService
  <2>2. TimeTypes'
    BY <1>1, <1>2, <2>1, ClockFacts DEF TimeTypes
  <2>3. InboxInv'
    <3>1. inbox' = <<>> /\ Len(inbox') = 0
      BY <1>1, <1>2, <1>3 DEF InboxInv
    <3> QED BY <3>1, <2>1 DEF InboxInv
  <2>4. ~Present'
    BY <2>1 DEF Present
  <2> QED BY <2>2, <2>3, <2>4 DEF RemoteInv
<1>4. CASE object # None
  <2>1. phase' = "serving"
    BY <1>4 DEF BeginService
  <2>2. TimeTypes'
    BY <1>1, <1>2, <2>1, ClockFacts DEF TimeTypes
  <2>3. Unserved \in 0..MaxFrame /\ Unserved \in Nat /\ Unserved' = MaxFrame /\ Unserved' >= Unserved /\ Unserved' \in Nat
    BY <1>1, <2>1, Spans, ClockFacts DEF Unserved
  <2>4. object \in 1..lives /\ object' = object
    BY <1>1, <1>2, <1>4 DEF TimeTypes
  <2>5. \A i \in 1..Len(inbox) :
            /\ Off(inbox[i].receipt) \in -Unserved'..0
            /\ inbox[i].kind = "command" =>
                  Off(inbox[i].stamp) - Off(inbox[i].receipt) \in -MaxLag..0
    BY <1>1, <2>3 DEF InboxInv
  <2>6. unit'.life = object' => InboxInv'
    BY <1>2, <1>4, <2>5 DEF InboxInv, Off
  <2>7. CASE unit = None \/ unit.life # object
    <3>1. PICK v : v = NewUnit /\ unit' = v
      BY <1>4, <2>7 DEF BeginService
    <3>2. UnitTypes(v) /\ v.life = object /\ v.time = now /\ v.commands = <<>>
          /\ v.clock.known = FALSE
      <4>1. NewClock \in ClockRecords /\ NewClock.known = FALSE
        <5>1. 0 \in Times
          BY ClockFacts DEF Times
        <5>2. -Prime \in Delays /\ Prime \in Delays /\ Prime \in Int
          BY ClockFacts DEF Delays
        <5>3. [i \in 1..Samples |-> IF i <= Samples \div 2 THEN -Prime ELSE Prime]
                 \in [1..Samples -> Delays]
          BY <5>2
        <5> QED BY <5>1, <5>2, <5>3 DEF NewClock, ClockRecords
      <4>2. <<>> \in Seq(Snapshots)
        BY EmptySeq
      <4> QED BY <1>1, <2>4, <3>1, <4>1, <4>2 DEF NewUnit, UnitTypes
    <3>3. Timely(v)
      <4>1. Off(v.time) = 0
        BY <1>1, <3>2, OffNow, Facts
      <4>2. 0 \in -Unserved..Ahead
        BY <2>3, Facts
      <4> QED BY <3>2, <4>1, <4>2, NothingRetained DEF Timely
    <3>4. UnitTypes(unit)' /\ Timely(unit)'
      BY <1>1, <1>2, <2>3, <3>1, <3>2, <3>3, UnitKept
    <3>5. ClockInv'
      BY <3>1, <3>2 DEF ClockInv
    <3>6. InboxInv'
      BY <2>4, <2>6, <3>1, <3>2
    <3> QED BY <2>2, <3>4, <3>5, <3>6 DEF RemoteInv
  <2>8. CASE ~(unit = None \/ unit.life # object)
    <3>1. Present
      BY <2>8 DEF Present
    <3>2. UnitTypes(unit) /\ Timely(unit) /\ ClockInv
      BY <3>1 DEF RemoteInv
    <3>3. PICK v : unit' = v /\ UnitTypes(v) /\ Timely(v) /\ v.life = unit.life /\ v.clock = unit.clock
      <4>1. \/ unit' = unit
            \/ unit' = [unit EXCEPT !.stance = ecs.stance, !.pathed = ecs.pathed]
        BY <1>4, <2>8 DEF BeginService
      <4>2. CASE unit' = unit
        BY <3>2, <4>2
      <4>3. CASE unit' = [unit EXCEPT !.stance = ecs.stance, !.pathed = ecs.pathed]
        <5>1. PICK v : v = [unit EXCEPT !.stance = ecs.stance, !.pathed = ecs.pathed]
          OBVIOUS
        <5>2. /\ DOMAIN v = DOMAIN unit /\ v.life = unit.life /\ v.time = unit.time
              /\ v.clock = unit.clock /\ v.commands = unit.commands
          BY <3>2, <5>1 DEF UnitTypes
        <5>3. UnitTypes(v) /\ Timely(v)
          BY <3>2, <5>2 DEF UnitTypes, Timely, CommandsFit
        <5> QED BY <4>3, <5>1, <5>2, <5>3
      <4> QED BY <4>1, <4>2, <4>3
    <3>4. UnitTypes(unit)' /\ Timely(unit)'
      BY <1>1, <1>2, <2>3, <3>3, UnitKept
    <3>5. Age' \in Nat /\ Age' >= Age
      <4>1. Awaited' = Awaited /\ quiet' = quiet /\ quiet \in Nat
        BY <1>1, <1>2, Spans DEF Awaited
      <4>2. CASE Awaited
        BY <2>3, <4>1, <4>2, ClockFacts DEF Age
      <4>3. CASE ~Awaited
        BY <2>3, <4>1, <4>3, ClockFacts DEF Age
      <4> QED BY <4>2, <4>3
    <3>6. ClockInv'
      BY <1>1, <1>2, <2>4, <3>2, <3>3, <3>5, ClockKept
    <3>7. InboxInv'
      BY <2>4, <2>6, <2>8, <3>3
    <3> QED BY <2>2, <3>4, <3>6, <3>7 DEF RemoteInv
  <2> QED BY <2>7, <2>8
<1> QED BY <1>3, <1>4

\* A step that takes an event and leaves the clock: what it makes of the unit fits.
LEMMA TakenStep ==
    ASSUME RemoteInv, NEW kind, kind # "command", NextEvent(kind), NEW v, unit' = v,
           UnitTypes(v), Timely(v), v.life = unit.life, v.clock = unit.clock
    PROVE  RemoteInv'
<1>1. TimeTypes /\ InboxInv /\ phase = "serving" /\ lives \in Nat /\ inbox # <<>>
      /\ inbox' = Tail(inbox) /\ Head(inbox).kind = kind
      /\ UNCHANGED <<now, sinceFrame, quiet, phase, object, ecs, lives>>
  BY DEF RemoteInv, TimeTypes, NextEvent
<1>2. Present /\ ClockInv
  BY <1>1 DEF RemoteInv, Present
<1>3. inbox' \in Seq(InboxEvents) /\ InboxInv'
  BY <1>1, Taken
<1>4. TimeTypes'
  BY <1>1, <1>3 DEF TimeTypes
<1>5. Unserved' = Unserved /\ Unserved \in Nat
  BY <1>1, Spans DEF Unserved
<1>6. Awaited' = Awaited
  <2>1. Awaited' => Awaited
    <3> SUFFICES ASSUME NEW i \in 1..Len(inbox'), inbox'[i].kind = "command" PROVE Awaited
      BY DEF Awaited
    <3>1. i + 1 \in 1..Len(inbox) /\ inbox'[i] = inbox[i + 1]
      BY <1>1, TailInbox
    <3> QED BY <3>1 DEF Awaited
  <2>2. Awaited => Awaited'
    <3> SUFFICES ASSUME NEW i \in 1..Len(inbox), inbox[i].kind = "command" PROVE Awaited'
      BY DEF Awaited
    <3>1. Head(inbox) = inbox[1] /\ Len(inbox') = Len(inbox) - 1 /\ Len(inbox) \in Nat
      BY <1>1, TailInbox
    <3>2. i # 1
      BY <1>1, <3>1
    <3>3. PICK j \in Int : j = i - 1
      OBVIOUS
    <3>4. j \in 1..Len(inbox')
      BY <3>1, <3>2, <3>3
    <3>5. j + 1 = i
      BY <3>3
    <3>6. \A n \in 1..Len(inbox') : inbox'[n] = inbox[n + 1]
      BY <1>1, TailInbox
    <3> QED BY <3>4, <3>5, <3>6 DEF Awaited
  <2> QED BY <2>1, <2>2 DEF Awaited
<1>7. Age' = Age /\ Age \in Nat
  BY <1>1, <1>5, <1>6, Spans DEF Age
<1>8. UnitTypes(unit)' /\ Timely(unit)'
  BY <1>1, <1>5, UnitKept
<1>9. ClockInv'
  BY <1>1, <1>2, <1>7, ClockKept
<1> QED BY <1>3, <1>4, <1>8, <1>9 DEF RemoteInv

LEMMA TakeBaselineStep ==
    ASSUME RemoteInv, TakeBaseline
    PROVE  RemoteInv'
<1>1. NextEvent("baseline") /\ unit' = Replaced(unit, Head(inbox).movement, Head(inbox).receipt)
  BY DEF TakeBaseline
<1>2. TimeTypes /\ InboxInv /\ phase = "serving" /\ inbox # <<>> /\ inbox' = Tail(inbox)
  BY <1>1 DEF RemoteInv, NextEvent
<1>3. PICK e \in InboxEvents : e = Head(inbox) /\ e = inbox[1] /\ 1 \in 1..Len(inbox)
  BY <1>2, TailInbox
<1>4. e.receipt \in Times /\ Off(e.receipt) \in -Unserved..0
  BY <1>2, <1>3, EventFacts DEF InboxInv
<1>5. UnitTypes(unit)
  BY <1>2 DEF RemoteInv, Present
<1>6. PICK v : v = Replaced(unit, e.movement, e.receipt) /\ unit' = v
  BY <1>1, <1>3
<1>7. /\ v.life = unit.life /\ v.clock = unit.clock /\ v.time = e.receipt
      /\ v.commands = <<>> /\ DOMAIN v = DOMAIN unit
  BY <1>5, <1>6 DEF Replaced, UnitTypes
<1>8. CommandsFit(v) /\ v.commands \in Seq(Snapshots)
  BY <1>7, NothingRetained
<1>9. UnitTypes(v)
  BY <1>4, <1>5, <1>7, <1>8 DEF UnitTypes
<1>10. Off(v.time) \in -Unserved..Ahead
  BY <1>2, <1>4, <1>7, Spans, Facts
<1>11. Timely(v)
  BY <1>8, <1>10 DEF Timely
<1> QED BY <1>1, <1>6, <1>7, <1>9, <1>11, TakenStep

LEMMA TakePathStep ==
    ASSUME RemoteInv, TakePath
    PROVE  RemoteInv'
<1>1. PICK u : u = Halted(Flushed(unit))
  OBVIOUS
<1>2. NextEvent("path") /\ unit' = IF Head(inbox).outcome = "refused" THEN u
          ELSE Replaced(u, After[Head(inbox).outcome], Head(inbox).receipt)
  BY <1>1 DEF TakePath
<1>3. TimeTypes /\ InboxInv /\ phase = "serving" /\ inbox # <<>> /\ inbox' = Tail(inbox)
  BY <1>2 DEF RemoteInv, NextEvent
<1>4. PICK e \in InboxEvents : e = Head(inbox) /\ e = inbox[1] /\ 1 \in 1..Len(inbox)
  BY <1>3, TailInbox
<1>5. e.receipt \in Times /\ Off(e.receipt) \in -Unserved..0
  BY <1>3, <1>4, EventFacts DEF InboxInv
<1>6. UnitTypes(unit) /\ Timely(unit)
  BY <1>3 DEF RemoteInv, Present
<1>7. /\ u.life = unit.life /\ u.clock = unit.clock /\ u.time = unit.time
      /\ DOMAIN u = DOMAIN unit /\ (u.commands = unit.commands \/ u.commands = <<>>)
  <2>1. PICK f : f = Flushed(unit)
    OBVIOUS
  <2>2. /\ f.life = unit.life /\ f.clock = unit.clock /\ f.time = unit.time
        /\ DOMAIN f = DOMAIN unit /\ (f.commands = unit.commands \/ f.commands = <<>>)
    BY <1>6, <2>1 DEF Flushed, UnitTypes
  <2>3. u = [f EXCEPT !.stance = IF @ = "moving" /\ ~f.pathed THEN "still" ELSE @]
    BY <1>1, <2>1 DEF Halted
  <2> QED BY <1>6, <2>2, <2>3 DEF UnitTypes
<1>8. CommandsFit(u) /\ u.commands \in Seq(Snapshots)
  <2>1. CASE u.commands = unit.commands
    BY <1>6, <1>7, <2>1 DEF Timely, CommandsFit, UnitTypes
  <2>2. CASE u.commands = <<>>
    BY <2>2, NothingRetained
  <2> QED BY <1>7, <2>1, <2>2
<1>9. UnitTypes(u) /\ Timely(u)
  BY <1>6, <1>7, <1>8 DEF UnitTypes, Timely
<1>10. CASE e.outcome = "refused"
  BY <1>2, <1>4, <1>7, <1>9, <1>10, TakenStep
<1>11. CASE e.outcome # "refused"
  <2>1. PICK v : v = Replaced(u, After[e.outcome], e.receipt) /\ unit' = v
    BY <1>2, <1>4, <1>11
  <2>2. /\ v.life = u.life /\ v.clock = u.clock /\ v.time = e.receipt
        /\ v.commands = <<>> /\ DOMAIN v = DOMAIN u
    BY <1>9, <2>1 DEF Replaced, UnitTypes
  <2>3. CommandsFit(v) /\ v.commands \in Seq(Snapshots)
    BY <2>2, NothingRetained
  <2>4. UnitTypes(v)
    BY <1>5, <1>9, <2>2, <2>3 DEF UnitTypes
  <2>5. Off(v.time) \in -Unserved..Ahead
    BY <1>3, <1>5, <2>2, Spans, Facts
  <2>6. Timely(v)
    BY <2>3, <2>5 DEF Timely
  <2> QED BY <1>2, <1>7, <2>1, <2>2, <2>4, <2>6, TakenStep
<1> QED BY <1>10, <1>11

LEMMA EndServiceStep ==
    ASSUME RemoteInv, EndService
    PROVE  /\ RemoteInv'
           /\ \/ Signed(unit.time - now) >= 0
              \/ \A i \in DOMAIN unit'.commands : Signed(unit'.commands[i].time - now) > 0
<1>1. /\ phase = "serving" /\ inbox = <<>> /\ phase' = "world" /\ unit' = Advance(unit)
      /\ UNCHANGED <<now, sinceFrame, quiet, object, inbox, lives>>
  BY DEF EndService
<1>2. TimeTypes /\ InboxInv /\ lives \in Nat /\ UnitTypes(unit) /\ Timely(unit) /\ ClockInv
  BY <1>1 DEF RemoteInv, TimeTypes, Present
<1>3. PICK v : v = Advance(unit) /\ unit' = v
  BY <1>1
<1>4. /\ UnitTypes(v) /\ CommandsFit(v) /\ v.life = unit.life /\ v.clock = unit.clock
      /\ Off(v.time) \in 0..Ahead
      /\ Off(unit.time) >= 0 \/ \A i \in 1..Len(v.commands) : Off(v.commands[i].time) > 0
  BY <1>2, <1>3, AdvanceFits
<1>5. TimeTypes'
  BY <1>1, <1>2 DEF TimeTypes
<1>6. InboxInv'
  <2>1. Len(inbox') = 0
    BY <1>1
  <2> QED BY <1>1, <1>2, <2>1 DEF InboxInv
<1>7. UnitTypes(unit)'
  BY <1>1, <1>3, <1>4 DEF UnitTypes, ClockRecords, Times, Delays, Snapshots
<1>8. Timely(unit)'
  <2>1. Unserved' \in Nat
    BY <1>1, <1>2, ClockFacts DEF TimeTypes, Unserved
  <2>2. Off(v.time) \in -Unserved'..Ahead
    BY <1>4, <2>1, Facts
  <2> QED BY <1>1, <1>3, <1>4, <2>2 DEF Timely, CommandsFit, Off, Ahead
<1>9. ClockInv'
  <2>1. ~Awaited /\ ~Awaited'
    <3>1. Len(inbox) = 0 /\ inbox' = inbox
      BY <1>1
    <3> QED BY <3>1 DEF Awaited
  <2>2. Age' = Age /\ Age \in Nat
    BY <1>1, <1>2, <2>1, Spans DEF Age
  <2> QED BY <1>1, <1>2, <1>3, <1>4, <2>2, ClockKept
<1>10. DOMAIN v.commands = 1..Len(v.commands)
  BY <1>4, LenProperties DEF UnitTypes
<1>11. Signed(unit.time - now) >= 0
       \/ \A i \in DOMAIN unit'.commands : Signed(unit'.commands[i].time - now) > 0
  BY <1>3, <1>4, <1>10 DEF Off
<1> QED BY <1>5, <1>6, <1>7, <1>8, <1>9, <1>11 DEF RemoteInv

LEMMA TakeSnapshotStep ==
    ASSUME RemoteInv, TakeSnapshot
    PROVE  /\ RemoteInv'
           /\ AtRest /\ ~unit.pathed /\ unit.clock.known /\ Signed(unit.clock.local - now) <= Late
                => Signed(unit'.clock.local - unit.clock.local) >= 0
<1>1. NextEvent("command")
  BY DEF TakeSnapshot
<1>2. TimeTypes /\ InboxInv /\ phase = "serving" /\ lives \in Nat /\ inbox # <<>>
      /\ inbox' = Tail(inbox) /\ Head(inbox).kind = "command" /\ now \in Times
      /\ UNCHANGED <<now, sinceFrame, quiet, phase, object, ecs, lives>>
  BY <1>1 DEF RemoteInv, TimeTypes, NextEvent
<1>3. UnitTypes(unit) /\ Timely(unit) /\ ClockInv /\ object # None /\ unit.life = object
  BY <1>2 DEF RemoteInv, Present, InboxInv
<1>4. PICK e \in InboxEvents : e = Head(inbox) /\ e = inbox[1] /\ 1 \in 1..Len(inbox)
  BY <1>2, TailInbox
<1>5. Unserved = MaxFrame /\ Unserved' = MaxFrame
  BY <1>2 DEF Unserved
<1>6. /\ e.receipt \in Times /\ e.stamp \in Times /\ e.message \in Messages
      /\ Off(e.receipt) \in -MaxFrame..0 /\ Off(e.stamp) - Off(e.receipt) \in -MaxLag..0
  BY <1>2, <1>4, <1>5, EventFacts DEF InboxInv
<1>7. Age \in Nat /\ Age <= 2 * MaxFrame + MaxQuiet /\ unit.clock \in ClockRecords
  BY <1>2, <1>3, Spans DEF UnitTypes
<1>8. unit.clock.known =>
        /\ Off(unit.clock.server) \in -(MaxLag + 2 * MaxFrame + MaxQuiet)..0
        /\ Off(unit.clock.local) - Off(unit.clock.server) \in -Early..Ahead
  BY <1>3, <1>7, ClockFacts DEF ClockInv
<1>9. PICK c : c = Admitted(unit.clock, e.stamp, e.receipt, AtRest, unit.pathed)
  OBVIOUS
<1>10. /\ c \in ClockRecords /\ c.known
       /\ Off(c.server) \in -(MaxLag + MaxFrame)..0
       /\ Off(c.local) - Off(c.server) \in -Early..Ahead
       /\ ~unit.pathed => Off(c.local) \in -Early..Late
       /\ AtRest /\ ~unit.pathed /\ unit.clock.known /\ Off(unit.clock.local) <= Late
            => Off(c.local) >= Off(unit.clock.local)
  <2>1. PICK k, stamp, receipt, idle, pathed :
            k = unit.clock /\ stamp = e.stamp /\ receipt = e.receipt /\ idle = AtRest /\ pathed = unit.pathed
    OBVIOUS
  <2>2. /\ k \in ClockRecords /\ stamp \in Times /\ receipt \in Times
        /\ Off(receipt) \in -MaxFrame..0 /\ Off(stamp) - Off(receipt) \in -MaxLag..0
        /\ k.known => /\ Off(k.server) \in -(MaxLag + 2 * MaxFrame + MaxQuiet)..0
                      /\ Off(k.local) - Off(k.server) \in -Early..Ahead
    BY <1>6, <1>7, <1>8, <2>1
  <2>3. c = Admitted(k, stamp, receipt, idle, pathed)
    BY <1>9, <2>1
  <2>4. /\ c \in ClockRecords /\ c.known
        /\ Off(c.server) \in -(MaxLag + MaxFrame)..0
        /\ Off(c.local) - Off(c.server) \in -Early..Ahead
        /\ ~pathed => Off(c.local) \in -Early..Late
        /\ idle /\ ~pathed /\ k.known /\ Off(k.local) <= Late => Off(c.local) >= Off(k.local)
    BY <1>2, <2>2, <2>3, AdmittedAt
  <2> QED BY <2>1, <2>4
<1>11. PICK l \in Int : l = Off(c.local)
  BY <1>2, <1>10, OffRange DEF ClockRecords
<1>12. l \in -(Early + MaxLag + MaxFrame)..Ahead /\ l \in -Half + 1..Ahead
  BY <1>10, <1>11, ClockFacts, Facts
<1>13. Signed(now - c.local) = -l /\ c.local \in Times
  <2>1. c.local \in Times /\ c.local \in Int /\ now \in Int
    BY <1>2, <1>10, OffRange DEF ClockRecords
  <2>2. l \in -Half + 1..Half - 1
    BY <1>12, ClockFacts, Facts
  <2> QED BY <1>11, <2>1, <2>2, OffBack
<1>14. PICK u : u = [unit EXCEPT !.clock = c]
  OBVIOUS
<1>15. /\ u.clock = c /\ u.life = unit.life /\ UnitTypes(u) /\ Timely(u)
  <2>1. /\ u.clock = c /\ u.life = unit.life /\ u.time = unit.time
        /\ u.commands = unit.commands /\ DOMAIN u = DOMAIN unit
    BY <1>3, <1>14 DEF UnitTypes
  <2> QED BY <1>3, <1>10, <2>1 DEF UnitTypes, Timely, CommandsFit
<1>16. unit' = IF unit.pathed \/ Signed(now - c.local) >= 0
               THEN Correct(u, e.message, c.local)
               ELSE Retain(u, [message |-> e.message, time |-> c.local])
  BY <1>4, <1>9, <1>14 DEF TakeSnapshot
<1>17. PICK v : unit' = v /\ UnitTypes(v) /\ Timely(v) /\ v.life = unit.life /\ v.clock = c
  <2>1. CASE unit.pathed \/ Signed(now - c.local) >= 0
    <3>1. PICK v : v = Correct(u, e.message, c.local)
      OBVIOUS
    <3>2. Off(c.local) \in -Half + 1..Ahead
      BY <1>11, <1>12
    <3>3. UnitTypes(v) /\ Timely(v) /\ v.life = u.life /\ v.clock = u.clock
      BY <1>2, <1>6, <1>13, <1>15, <3>1, <3>2, CorrectFits
    <3> QED BY <1>15, <1>16, <2>1, <3>1, <3>3
  <2>2. CASE ~(unit.pathed \/ Signed(now - c.local) >= 0)
    <3>1. PICK command : command = [message |-> e.message, time |-> c.local]
      OBVIOUS
    <3>2. command \in Snapshots /\ command.time = c.local
      BY <1>6, <1>13, <3>1 DEF Snapshots
    <3>3. Off(command.time) \in 1..Late
      <4>1. l \in -Early..Late /\ l > 0
        BY <1>10, <1>11, <1>13, <2>2
      <4> QED BY <1>11, <3>2, <4>1, ClockFacts
    <3>4. PICK v : v = Retain(u, command)
      OBVIOUS
    <3>5. UnitTypes(v) /\ Timely(v) /\ v.life = u.life /\ v.clock = u.clock
      BY <1>2, <1>15, <3>2, <3>3, <3>4, RetainFits
    <3> QED BY <1>15, <1>16, <2>2, <3>1, <3>4, <3>5
  <2> QED BY <2>1, <2>2
<1>18. inbox' \in Seq(InboxEvents) /\ InboxInv'
  BY <1>2, <1>17, Taken
<1>19. TimeTypes'
  BY <1>2, <1>18 DEF TimeTypes
<1>20. Age' \in Nat
  <2>1. PICK q \in Nat : q = quiet'
    BY <1>2, Spans
  <2>2. CASE Awaited'
    <3>1. Age' = MaxFrame + (MaxQuiet + MaxFrame)
      BY <1>5, <2>2 DEF Age
    <3>2. MaxFrame + (MaxQuiet + MaxFrame) \in Nat
      BY ClockFacts
    <3> QED BY <3>1, <3>2, Zenon
  <2>3. CASE ~Awaited'
    <3>1. Age' = MaxFrame + q
      BY <2>1, <2>3 DEF Age
    <3>2. MaxFrame + q \in Nat
      BY ClockFacts
    <3> QED BY <3>1, <3>2, Zenon
  <2> QED BY <2>2, <2>3
<1>21. Age' >= MaxFrame
  <2>1. PICK q \in Nat : q = quiet'
    BY <1>2, Spans
  <2>2. Age' = MaxFrame + (MaxQuiet + MaxFrame) \/ Age' = MaxFrame + q
    BY <1>5, <2>1 DEF Age
  <2>3. MaxFrame + (MaxQuiet + MaxFrame) >= MaxFrame /\ MaxFrame + q >= MaxFrame
    BY ClockFacts
  <2> QED BY <2>2, <2>3
<1>22. ClockInv'
  <2>1. PICK a \in Nat : a = Age'
    BY <1>20
  <2>2. Off(c.server) \in -(MaxLag + a)..0
    BY <1>10, <1>21, <2>1, ClockFacts
  <2> QED BY <1>2, <1>10, <1>17, <2>1, <2>2 DEF ClockInv, Off, Ahead
<1>23. UnitTypes(unit)' /\ Timely(unit)'
  BY <1>2, <1>5, <1>17, UnitKept, ClockFacts
<1>24. AtRest /\ ~unit.pathed /\ unit.clock.known /\ Signed(unit.clock.local - now) <= Late
         => Signed(unit'.clock.local - unit.clock.local) >= 0
  <2> SUFFICES ASSUME AtRest, ~unit.pathed, unit.clock.known, Off(unit.clock.local) <= Late
               PROVE  Signed(c.local - unit.clock.local) >= 0
    BY <1>17 DEF Off
  <2>1. /\ c.local \in Int /\ unit.clock.local \in Int /\ now \in Int
        /\ Off(unit.clock.local) \in Int /\ Off(unit.clock.server) \in Int
    BY <1>2, <1>7, <1>13, OffRange DEF ClockRecords
  <2>2. PICK k \in Int : k = Off(unit.clock.local)
    BY <2>1
  <2>3. l >= k /\ l \in -Early..Late /\ k >= -(Early + MaxLag + 2 * MaxFrame + MaxQuiet)
    BY <1>8, <1>10, <1>11, <2>1, <2>2, ClockFacts
  <2>4. l - k \in -Half..Half - 1
    BY <2>3, ClockFacts
  <2>5. Signed(c.local - unit.clock.local) = l - k
    BY <1>11, <2>1, <2>2, <2>4, OffGap
  <2> QED BY <2>3, <2>5
<1> QED BY <1>18, <1>19, <1>22, <1>23, <1>24 DEF RemoteInv

LEMMA RemoteStart ==
    ASSUME RemoteInit
    PROVE  RemoteInv
<1>1. TimeTypes
  BY RemoteAssumption, ClockFacts DEF RemoteInit, TimeTypes, Times
<1>2. InboxInv
  <2>1. inbox = <<>> /\ Len(inbox) = 0
    BY DEF RemoteInit
  <2> QED BY <2>1 DEF RemoteInit, InboxInv
<1>3. ~Present
  BY DEF RemoteInit, Present
<1> QED BY <1>1, <1>2, <1>3 DEF RemoteInv

LEMMA RemoteStep ==
    ASSUME RemoteInv, [RemoteNext]_remoteVars
    PROVE  RemoteInv'
<1>1. ASSUME RemoteNext PROVE RemoteInv'
  <2>1. ASSUME NEW movement \in Movements, Create(movement) PROVE RemoteInv'
    BY <2>1, CreateStep
  <2>2. ASSUME NEW movement \in Movements, ReceiveBaseline(movement) PROVE RemoteInv'
    BY <2>2, ReceiveBaselineStep
  <2>3. ASSUME NEW message \in Messages, NEW lag \in Lags, ReceiveCommand(message, lag)
        PROVE  RemoteInv'
    BY <2>3, ReceiveCommandStep
  <2>4. ASSUME NEW outcome \in {"spline", "place", "refused"}, ReceivePath(outcome)
        PROVE  RemoteInv'
    BY <2>4, ReceivePathStep
  <2> QED BY <1>1, <2>1, <2>2, <2>3, <2>4, TickStep, DespawnStep, BeginServiceStep,
             TakeBaselineStep, TakeSnapshotStep, TakePathStep, EndServiceStep
          DEF RemoteNext, Receive, Service
<1>2. ASSUME UNCHANGED remoteVars PROVE RemoteInv'
  BY <1>2 DEF remoteVars, RemoteInv, TimeTypes, UnitTypes, InboxInv, ClockInv, Timely, CommandsFit,
              Off, Unserved, Age, Awaited, Present, Ahead, Times, Delays, Snapshots, ClockRecords
<1> QED BY <1>1, <1>2

\* Every state the owner of a unit's movement can reach: the inbox holds what came since
\* the last service, the unit's clock is near the server's and what it retains is in order
\* (player_movement/remote/service.rs:79-262).
THEOREM RemoteInvariant == RemoteSpec => []RemoteInv
<1>1. RemoteInit => RemoteInv
  BY RemoteStart
<1>2. RemoteInv /\ [RemoteNext]_remoteVars => RemoteInv'
  BY RemoteStep
<1> QED BY <1>1, <1>2, PTL DEF RemoteSpec

\* What a unit retains is in the order of its times and never more than the longest wait
\* ahead (remote/state.rs:326-353, systems movement/remote/clock.rs:66-113).
THEOREM SnapshotsOrdered == RemoteSpec => []Ordered
<1>1. RemoteInv => Ordered
  <2> SUFFICES ASSUME RemoteInv, unit # None, NEW i \in DOMAIN unit.commands
               PROVE  /\ Signed(unit.commands[i].time - now) <= Late
                      /\ i > 1 => Signed(unit.commands[i].time - unit.commands[i - 1].time) >= 0
    BY DEF Ordered
  <2>1. PICK u : u = unit
    OBVIOUS
  <2>2. TimeTypes /\ UnitTypes(u) /\ Timely(u) /\ now \in Times
    BY <2>1 DEF RemoteInv, Present, TimeTypes
  <2>3. DOMAIN u.commands = 1..Len(u.commands) /\ Len(u.commands) \in Nat
    BY <2>2, LenProperties DEF UnitTypes
  <2>4. \A j \in 1..Len(u.commands) :
            /\ u.commands[j].time \in Times /\ Off(u.commands[j].time) \in Int
            /\ Off(u.commands[j].time) \in -(Unserved + Ahead)..Late
    BY <2>2, CommandTimes
  <2>5. i \in 1..Len(u.commands)
    BY <2>1, <2>3
  <2>6. Signed(u.commands[i].time - now) <= Late
    <3>1. PICK a \in Int : a = Off(u.commands[i].time)
      BY <2>4, <2>5
    <3>2. a <= Late
      BY <2>2, <2>5, <3>1 DEF Timely, CommandsFit
    <3> QED BY <3>1, <3>2 DEF Off
  <2>7. ASSUME i > 1
        PROVE  Signed(u.commands[i].time - u.commands[i - 1].time) >= 0
    <3>1. PICK j \in 1..Len(u.commands) : j = i - 1 /\ j <= i
      BY <2>3, <2>5, <2>7
    <3>2. PICK a \in Int : a = Off(u.commands[i].time)
      BY <2>4, <2>5
    <3>3. PICK b \in Int : b = Off(u.commands[j].time)
      BY <2>4, <3>1
    <3>4. a \in -(Unserved + Ahead)..Late /\ b \in -(Unserved + Ahead)..Late /\ b <= a
      BY <2>2, <2>4, <2>5, <3>1, <3>2, <3>3 DEF Timely, CommandsFit
    <3>5. a - b \in -Half..Half - 1
      BY <2>2, <3>4, Spans, ClockFacts, Facts
    <3>6. u.commands[i].time \in Int /\ u.commands[j].time \in Int /\ now \in Int
      BY <2>2, <2>4, <2>5, <3>1, Facts
    <3>7. Signed(u.commands[i].time - u.commands[j].time) = a - b
      BY <3>2, <3>3, <3>5, <3>6, OffGap
    <3> QED BY <3>1, <3>4, <3>7
  <2> QED BY <2>1, <2>6, <2>7
<1> QED BY <1>1, RemoteInvariant, PTL

\* A standing unit is never given a snapshot before its last one, for every order and delay
\* of packets and through every wrap of the clocks (movement/remote/clock.rs:91-105).
THEOREM TimelinesForward == RemoteSpec => TimelineForward
<1>1. RemoteInv /\ [RemoteNext]_remoteVars =>
        [ /\ phase = "serving" /\ inbox # <<>> /\ Head(inbox).kind = "command"
          /\ inbox' = Tail(inbox)
          /\ AtRest /\ ~unit.pathed /\ unit.clock.known
          /\ Signed(unit.clock.local - now) <= Late
          => Signed(unit'.clock.local - unit.clock.local) >= 0 ]_remoteVars
  <2> SUFFICES ASSUME RemoteInv, RemoteNext, phase = "serving", inbox # <<>>,
                      Head(inbox).kind = "command", AtRest, ~unit.pathed, unit.clock.known,
                      Signed(unit.clock.local - now) <= Late
               PROVE  Signed(unit'.clock.local - unit.clock.local) >= 0
    OBVIOUS
  <2>1. TakeSnapshot
    BY DEF RemoteNext, Receive, Service, Tick, Create, ReceiveBaseline, ReceiveCommand, ReceivePath,
           Post, Arrival, Despawn, BeginService, TakeBaseline, TakePath, EndService, NextEvent
  <2> QED BY <2>1, TakeSnapshotStep
<1> QED BY <1>1, RemoteInvariant, PTL DEF RemoteSpec, TimelineForward

\* A frame leaves nothing due, unless the unit's time is not behind the frame's already
\* (remote/state.rs:579-670).
THEOREM NothingLeftDue == RemoteSpec => NothingOverdue
<1>1. RemoteInv /\ [RemoteNext]_remoteVars =>
        [ phase = "serving" /\ phase' = "world" =>
            Signed(unit.time - now) >= 0
            \/ \A i \in DOMAIN unit'.commands : Signed(unit'.commands[i].time - now) > 0 ]_remoteVars
  <2> SUFFICES ASSUME RemoteInv, RemoteNext, phase = "serving", phase' = "world"
               PROVE  \/ Signed(unit.time - now) >= 0
                      \/ \A i \in DOMAIN unit'.commands : Signed(unit'.commands[i].time - now) > 0
    OBVIOUS
  <2>1. EndService
    BY DEF RemoteNext, Receive, Service, Tick, Create, ReceiveBaseline, ReceiveCommand, ReceivePath,
           Post, Arrival, Despawn, BeginService, TakeBaseline, TakeSnapshot, TakePath, NextEvent
  <2> QED BY <2>1, EndServiceStep
<1> QED BY <1>1, RemoteInvariant, PTL DEF RemoteSpec, NothingOverdue
=============================================================================
