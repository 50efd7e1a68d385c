--------------------------- MODULE TemplateQueries ---------------------------
(***************************************************************************)
(* What the active world asks the server about the objects it shows        *)
(* (runtime application/gameplay_coordinator.rs and its template_cache,    *)
(* creature_cache, game_object_cache and player_names modules,             *)
(* game_object_coordinator.rs, client_services.rs).                        *)
(*                                                                         *)
(* A cache asks once for an entry and hands the answer to whoever still    *)
(* wants it, while objects come, go and change their entry and worlds are  *)
(* replaced.  The main thread walks its frame: a batch of packets, then    *)
(* each cache moves the queries it retains into the one bounded writer     *)
(* channel, which the network task empties at any moment.  Its other users *)
(* are in WorldOutbox, failures of the connection in WorldPump.            *)
(***************************************************************************)
EXTENDS Naturals, Sequences, FiniteSets, SequencesExt

CONSTANTS
    None,
    Units,        \* GUIDs of creatures
    Objects,      \* GUIDs of game objects
    Templates,    \* creature template entries
    Designs,      \* game object template entries
    Players,      \* GUIDs whose names are asked for
    Capacity,     \* WRITER_CHANNEL_CAPACITY, 32 in the code
    MaxLives,     \* bound: object lifetimes and changes of an object's entry, together
    MaxWorlds,    \* bound: worlds entered
    MaxTurns      \* bound: offers without a name and retried name queries, together

Caches == {"gameObject", "creature", "name"}

ASSUME QueriesAssumption ==
    /\ Capacity \in Nat \ {0} /\ MaxLives \in Nat /\ MaxWorlds \in Nat \ {0}
    /\ MaxTurns \in Nat
    /\ Units \intersect Objects = {} /\ Templates \intersect Designs = {}
    /\ (Templates \union Designs) \intersect Players = {}
    /\ IsFiniteSet(Templates \union Designs)   \* 32-bit numbers

Lifetimes == [life: 1..MaxLives, entry: Templates \union Designs]
Bindings == [life: 1..MaxLives, entry: Templates \union Designs,
             result: {"waiting", "template", "missing"}]

ASSUME NoneAssumption == None \notin Lifetimes \union Bindings

VARIABLES
    at,        \* where the main thread is in its frame
    world,     \* which ActiveWorld this is, counting from 1
    present,   \* objects the world shows: lifetime and template entry
    lives,     \* lifetimes handed out and entries changed
    applied,   \* this batch of packets changed the world
    arriving,  \* a NEW_WORLD packet ended the batch
    bound,     \* the TemplateBinding each creature or game object holds
    cache,     \* per entry: absent, pending or ready
    wanted,    \* per entry: the callbacks of a pending entry
    queries,   \* requests a cache retains until the writer admits them
    channel,   \* the writer channel
    asked,     \* queries the server has received and not answered
    turns      \* nameless offers and retries so far

batch == <<present, lives, applied, arriving>>
caches == <<bound, cache, wanted, queries>>
vars == <<at, world, batch, caches, channel, asked, turns>>

Guids == Units \union Objects
EntriesOf(c) == CASE c = "gameObject" -> Designs
                  [] c = "creature" -> Templates
                  [] c = "name" -> Players
Entries == UNION {EntriesOf(c) : c \in Caches}
Fits(g) == IF g \in Units THEN Templates ELSE Designs
After == [gameObject |-> "creature", creature |-> "name", name |-> "packets"]
Query(c, e) == [cache |-> c, entry |-> e]
Questions == UNION {[cache: {c}, entry: EntriesOf(c)] : c \in Caches}
Room == Len(channel) < Capacity

Init ==
    /\ at = "packets" /\ world = 1 /\ lives = 0 /\ applied = FALSE /\ arriving = FALSE
    /\ present = [g \in Guids |-> None] /\ bound = [g \in Guids |-> None]
    /\ cache = [e \in Entries |-> "absent"] /\ wanted = [e \in Entries |-> {}]
    /\ queries = [c \in Caches |-> <<>>]
    /\ channel = <<>> /\ asked = [e \in Entries |-> 0] /\ turns = 0

-----------------------------------------------------------------------------
\* Template caches.

\* A Weak callback upgrades while its binding is still held.
Alive(call, held) ==
    LET b == held[call.guid]
    IN  b # None /\ b.life = call.life /\ b.entry = call.entry

\* bind, for every newcomer of one pass over the objects in admission order.
Newcomers(from, fits) == {g \in fits : from[g] = None /\ present[g] # None}
Call(g) == [guid |-> g, life |-> present[g].life, entry |-> present[g].entry]
Binding(g) == [life |-> present[g].life, entry |-> present[g].entry,
               result |-> IF cache[present[g].entry] = "ready" THEN "template" ELSE "waiting"]
New(e, new) == {g \in new : present[g].entry = e}
\* Defect: a later registration replaces the earlier ones of its entry.
Registered_Last(e, kept, new) == {Call(g) : g \in New(e, new)}
Registered(e, kept, new) ==
    {call \in wanted[e] : Alive(call, kept)} \union {Call(g) : g \in New(e, new)}
\* Entries in the order in which their first newcomers come.
Arrivals(fresh, new) ==
    {order \in [1..Cardinality(fresh) -> fresh] :
        /\ \A e \in fresh : \E i \in DOMAIN order : order[i] = e
        /\ \A i, j \in DOMAIN order : i < j =>
              \E g \in New(order[i], new) : \A h \in New(order[j], new) :
                  present[g].life < present[h].life}
BindAll(c, kept, new) ==
    LET entries == {present[g].entry : g \in new}
        fresh == {e \in entries : cache[e] = "absent"}
    IN  /\ bound' = [g \in Guids |-> IF g \in new THEN Binding(g) ELSE kept[g]]
        /\ cache' = [e \in Entries |-> IF e \in fresh THEN "pending" ELSE cache[e]]
        /\ wanted' = [e \in Entries |->
              IF e \in entries /\ cache[e] # "ready" THEN Registered(e, kept, new) ELSE wanted[e]]
        /\ \E order \in Arrivals(fresh, new) : queries' = [queries EXCEPT ![c] = @ \o order]

\* CreatureTemplateCache::synchronize_world keeps what is the same lifetime with
\* the same entry, then binds the rest.
Current(g) == /\ present[g] # None /\ bound[g] # None
              /\ bound[g].life = present[g].life /\ bound[g].entry = present[g].entry
SynchronizeUnits ==
    LET kept == [g \in Guids |-> IF g \in Units /\ ~Current(g) THEN None ELSE bound[g]]
    IN  BindAll("creature", kept, Newcomers(kept, Units))

\* complete: an answer is taken by whoever still wants it; an empty one is forgotten.
Complete(e, found) ==
    /\ bound' = [g \in Guids |->
          IF bound[g] # None /\ \E call \in wanted[e] : call.guid = g /\ Alive(call, bound)
          THEN [bound[g] EXCEPT !.result = IF found THEN "template" ELSE "missing"]
          ELSE bound[g]]
    /\ cache' = [cache EXCEPT ![e] = IF found THEN "ready" ELSE "absent"]
    /\ wanted' = [wanted EXCEPT ![e] = {}]
    /\ UNCHANGED queries

-----------------------------------------------------------------------------
\* The packet batch at the beginning of a frame.

\* An object update: something appears, disappears or becomes another entry.
Seen(g, value) == present' = [present EXCEPT ![g] = value]
UpdateObjects ==
    /\ at = "packets" /\ ~arriving
    /\ applied' = TRUE
    /\ \/ \E g \in Guids : \E e \in Fits(g) :
             /\ present[g] = None /\ lives < MaxLives
             /\ lives' = lives + 1 /\ Seen(g, [life |-> lives + 1, entry |-> e])
       \/ \E g \in Guids : present[g] # None /\ Seen(g, None) /\ UNCHANGED lives
       \/ \E g \in Guids : \E e \in Fits(g) :
             /\ present[g] # None /\ present[g].entry # e /\ lives < MaxLives
             /\ lives' = lives + 1 /\ Seen(g, [present[g] EXCEPT !.entry = e])
    /\ UNCHANGED <<at, world, arriving, caches, channel, asked, turns>>

\* A query's answer: creature_templates.receive, game_object_templates.receive.
AnswerTemplate(e) ==
    /\ at = "packets" /\ ~arriving
    /\ asked[e] > 0 /\ asked' = [asked EXCEPT ![e] = @ - 1]
    /\ \E found \in BOOLEAN : Complete(e, found)
    /\ UNCHANGED <<at, world, batch, channel, turns>>

\* A resurrection offer without a name: names.request_for_offer.
Offer ==
    /\ at = "packets" /\ ~arriving /\ turns < MaxTurns /\ turns' = turns + 1
    /\ \E p \in Players :
          IF cache[p] = "absent"
          THEN /\ cache' = [cache EXCEPT ![p] = "pending"]
               /\ queries' = [queries EXCEPT !["name"] = Append(@, p)]
          ELSE UNCHANGED <<cache, queries>>
    /\ UNCHANGED <<at, world, batch, bound, wanted, channel, asked>>

\* names.receive: an unknown name is forgotten, a busy server is asked again.
Unqueued(p) == IF Contains(queries["name"], p)
               THEN SelectSeq(queries["name"], LAMBDA q : q # p) ELSE queries["name"]
\* Defect: a busy answer is taken as an answer.
Retried_Never(p) == queries["name"]
Retried(p) == IF cache[p] # "absent" /\ ~Contains(queries["name"], p)
              THEN Append(queries["name"], p) ELSE queries["name"]
AnswerName(p) ==
    /\ at = "packets" /\ ~arriving
    /\ asked[p] > 0 /\ asked' = [asked EXCEPT ![p] = @ - 1]
    /\ \/ \E found \in BOOLEAN :
             /\ cache' = [cache EXCEPT ![p] = IF found THEN "ready" ELSE "absent"]
             /\ queries' = [queries EXCEPT !["name"] = Unqueued(p)]
             /\ UNCHANGED turns
       \/ /\ turns < MaxTurns /\ turns' = turns + 1
          /\ queries' = [queries EXCEPT !["name"] = Retried(p)]
          /\ UNCHANGED cache
    /\ UNCHANGED <<at, world, batch, bound, wanted, channel>>

\* SMSG_NEW_WORLD pauses the batch.
NewWorld ==
    /\ at = "packets" /\ ~arriving /\ world < MaxWorlds
    /\ arriving' = TRUE
    /\ UNCHANGED <<at, world, present, lives, applied, caches, channel, asked, turns>>

\* The end of service: units follow the world after a batch that changed it.
EndBatch ==
    /\ at = "packets"
    /\ at' = IF arriving THEN "replace" ELSE "bind"
    /\ applied' = FALSE
    /\ IF applied THEN SynchronizeUnits ELSE UNCHANGED caches
    /\ UNCHANGED <<world, present, lives, arriving, channel, asked, turns>>

\* begin_world_replacement and replace_world: the old objects are gone, and with them
\* every binding; the caches, their requests and the queries under way stay.
\* Defect: replace_world does not synchronise the creature cache.
Unbound_Stale == bound
Unbound == [g \in Guids |-> None]
ReplaceWorld ==
    /\ at = "replace" /\ at' = "bind"
    /\ world' = world + 1 /\ arriving' = FALSE
    /\ present' = [g \in Guids |-> None] /\ bound' = Unbound
    /\ UNCHANGED <<lives, applied, cache, wanted, queries, channel, asked, turns>>

\* Logging out and entering again: disconnect, begin_with_game_objects.  The new
\* connection has no query under way and the new session nothing pending.
\* Defect: disconnecting clears the requests but not the entries they belong to.
Forgotten_Requests == UNCHANGED <<cache, wanted>> /\ queries' = [c \in Caches |-> <<>>]
Forgotten == /\ cache' = [e \in Entries |-> "absent"] /\ wanted' = [e \in Entries |-> {}]
             /\ queries' = [c \in Caches |-> <<>>]
Reenter ==
    /\ at = "packets" /\ ~arriving /\ world < MaxWorlds
    /\ world' = world + 1 /\ applied' = FALSE
    /\ present' = [g \in Guids |-> None] /\ bound' = Unbound /\ Forgotten
    /\ channel' = <<>> /\ asked' = [e \in Entries |-> 0]
    /\ UNCHANGED <<at, lives, arriving, turns>>

-----------------------------------------------------------------------------
\* The rest of the frame.

\* refresh_instances drops vanished game objects; synchronize_templates registers,
\* once, those whose model has arrived, whichever they are.
Vanished(g) == bound[g] # None /\ (present[g] = None \/ present[g].life # bound[g].life)
BindObjects ==
    /\ at = "bind" /\ at' = "gameObject"
    /\ LET kept == [g \in Guids |-> IF g \in Objects /\ Vanished(g) THEN None ELSE bound[g]]
       IN  \E loaded \in SUBSET Newcomers(kept, Objects) : BindAll("gameObject", kept, loaded)
    /\ UNCHANGED <<world, batch, channel, asked, turns>>

\* send_game_object_queries, send_creature_queries, send_player_name_queries: a query
\* leaves its queue once the writer has admitted it; a full writer ends the loop.
Sends(c) == queries[c] # <<>> /\ Room
SendQueries(c) ==
    /\ at = c
    /\ IF Sends(c)
       THEN /\ channel' = Append(channel, Query(c, Head(queries[c])))
            /\ queries' = [queries EXCEPT ![c] = Tail(@)]
            /\ UNCHANGED at
       ELSE at' = After[c] /\ UNCHANGED <<channel, queries>>
    /\ UNCHANGED <<world, batch, bound, cache, wanted, asked, turns>>

\* The network task writes the oldest command (service_world_writer).
Write ==
    /\ channel # <<>> /\ channel' = Tail(channel)
    /\ asked' = [asked EXCEPT ![Head(channel).entry] = @ + 1]
    /\ UNCHANGED <<at, world, batch, caches, turns>>

Frame == EndBatch \/ ReplaceWorld \/ BindObjects \/ \E c \in Caches : SendQueries(c)
Answer(e) == IF e \in Players THEN AnswerName(e) ELSE AnswerTemplate(e)

Next ==
    \/ Frame \/ Write
    \/ \E e \in Entries : Answer(e)
    \/ UpdateObjects \/ Offer \/ NewWorld \/ Reenter

\* The main loop keeps running frames, the network task keeps writing, and the server
\* answers: an answer lies in the packet channel until some batch takes it, hence SF
\* (questions are finitely many, so answering some goes through all of them).
Spec == /\ Init /\ [][Next]_vars /\ WF_vars(Frame) /\ WF_vars(Write)
        /\ SF_vars(\E e \in Entries : Answer(e))

-----------------------------------------------------------------------------
\* Properties.

TypeOK ==
    /\ at \in DOMAIN After \union {"packets", "replace", "bind"}
    /\ world \in 1..MaxWorlds /\ lives \in 0..MaxLives /\ turns \in 0..MaxTurns
    /\ present \in [Guids -> Lifetimes \union {None}]
    /\ bound \in [Guids -> Bindings \union {None}]
    /\ \A g \in Guids : /\ present[g] # None => present[g].entry \in Fits(g)
                        /\ bound[g] # None => bound[g].entry \in Fits(g)
    /\ applied \in BOOLEAN /\ arriving \in BOOLEAN
    /\ cache \in [Entries -> {"absent", "pending", "ready"}]
    /\ wanted \in [Entries -> SUBSET [guid: Guids, life: 1..MaxLives, entry: Entries]]
    /\ queries \in [Caches -> Seq(Entries)]
    /\ \A c \in Caches : queries[c] \in Seq(EntriesOf(c))
    /\ channel \in Seq(Questions) /\ Len(channel) <= Capacity
    /\ asked \in [Entries -> Nat]

\* Every pending entry has exactly one question on its way (retained, in the writer,
\* or with the server) and no other entry has any: nothing is asked twice, and nothing
\* waits for a question never sent.
Count(seq, item) == Cardinality({i \in DOMAIN seq : seq[i] = item})
Underway(c, e) == Count(queries[c], e) + Count(channel, Query(c, e)) + asked[e]
QueriesInStep ==
    \A c \in Caches : \A e \in EntriesOf(c) :
        Underway(c, e) = IF cache[e] = "pending" THEN 1 ELSE 0

\* Whoever holds an unanswered registration will be called: its entry is pending and
\* knows it, through every drop, reuse of a GUID, change of entry and world.
WaitersRegistered ==
    \A g \in Guids : bound[g] # None /\ bound[g].result = "waiting" =>
        /\ cache[bound[g].entry] = "pending"
        /\ \E call \in wanted[bound[g].entry] : call.guid = g /\ Alive(call, bound)

\* Outside the packet batch each creature the world shows is bound as the lifetime and
\* entry it has now, and no other creature is.
UnitsFollow ==
    at \notin {"packets", "replace"} =>
        \A g \in Units : IF present[g] = None THEN bound[g] = None ELSE Current(g)

\* A pending entry does not stay pending: no queue, full writer, retry or change of
\* world keeps its question or its answer away for ever.
QueriesAnswered == \A e \in Entries : cache[e] = "pending" ~> cache[e] # "pending"
=============================================================================
