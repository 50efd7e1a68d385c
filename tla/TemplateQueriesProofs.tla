------------------------ MODULE TemplateQueriesProofs ------------------------
(***************************************************************************)
(* Theorems about TemplateQueries, for any objects, entries and players,   *)
(* any capacity of the writer and any number of lifetimes and worlds.      *)
(***************************************************************************)
EXTENDS TemplateQueries, FiniteSetTheorems, SequenceTheorems, TLAPS

\* Between a batch that changed the world and the end of it, creatures may be bound as
\* they were; a change is noted until then.
UnitsBound == \A g \in Units : IF present[g] = None THEN bound[g] = None ELSE Current(g)
UnitsInv ==
    /\ at # "packets" => ~applied
    /\ ~applied => UnitsBound

\* A new world is announced only where there is one left to enter.
WorldInv == arriving \/ at = "replace" => world < MaxWorlds

QueriesInv == TypeOK /\ QueriesInStep /\ WaitersRegistered /\ UnitsInv /\ WorldInv
-----------------------------------------------------------------------------
(* Counting in a sequence.                                                 *)

LEMMA CountType ==
    ASSUME NEW S, NEW seq \in Seq(S), NEW item
    PROVE  /\ IsFiniteSet({i \in DOMAIN seq : seq[i] = item})
           /\ Count(seq, item) \in Nat
           /\ Count(seq, item) = 0 <=> \A i \in 1..Len(seq) : seq[i] # item
<1> DEFINE places == {i \in DOMAIN seq : seq[i] = item}
<1>1. DOMAIN seq = 1..Len(seq) /\ Len(seq) \in Nat
  OBVIOUS
<1>2. IsFiniteSet(1..Len(seq)) /\ places \in SUBSET (1..Len(seq))
  BY <1>1, FS_Interval
<1>3. places = {} <=> \A i \in 1..Len(seq) : seq[i] # item
  BY <1>1
<1> HIDE DEF places
<1>4. IsFiniteSet(places)
  BY <1>2, FS_Subset
<1>5. Cardinality(places) \in Nat /\ (Cardinality(places) = 0 <=> places = {})
  BY <1>4, FS_CardinalityType, FS_EmptySet
<1> QED BY <1>3, <1>4, <1>5 DEF Count, places

LEMMA CountEmpty ==
    ASSUME NEW item
    PROVE  Count(<<>>, item) = 0
<1>1. {i \in DOMAIN <<>> : (<<>>)[i] = item} = {}
  OBVIOUS
<1> QED BY <1>1, FS_EmptySet DEF Count

\* A sequence that lists the places of another one, one place more or none.
LEMMA CountMore ==
    ASSUME NEW S, NEW seq \in Seq(S), NEW T, NEW longer \in Seq(T), NEW item,
           NEW k \in Nat, k > Len(seq),
           {i \in DOMAIN longer : longer[i] = item}
              = {i \in DOMAIN seq : seq[i] = item} \union {k}
    PROVE  Count(longer, item) = Count(seq, item) + 1
<1> DEFINE places == {i \in DOMAIN seq : seq[i] = item}
<1>1. k \notin places
  OBVIOUS
<1>2. IsFiniteSet(places)
  BY CountType
<1>3. Count(longer, item) = Cardinality(places \union {k}) /\ Count(seq, item) = Cardinality(places)
  BY DEF Count
<1> HIDE DEF places
<1> QED BY <1>1, <1>2, <1>3, FS_AddElement

LEMMA CountAppend ==
    ASSUME NEW S, NEW seq \in Seq(S), NEW x \in S, NEW item
    PROVE  Count(Append(seq, x), item) = Count(seq, item) + (IF x = item THEN 1 ELSE 0)
<1> DEFINE n == Len(seq)
           longer == Append(seq, x)
           before == {i \in DOMAIN seq : seq[i] = item}
           after == {i \in DOMAIN longer : longer[i] = item}
<1>1. n \in Nat /\ DOMAIN seq = 1..n
  OBVIOUS
<1>2. /\ longer \in Seq(S) /\ DOMAIN longer = 1..(n + 1)
      /\ \A i \in 1..n : longer[i] = seq[i]
      /\ longer[n + 1] = x
  <2>1. longer \in Seq(S) /\ Len(longer) = n + 1
    BY AppendProperties
  <2>2. DOMAIN longer = 1..(n + 1)
    BY <2>1
  <2> QED BY <2>1, <2>2, AppendProperties
<1>3. after = IF x = item THEN before \union {n + 1} ELSE before
  <2>1. 1..(n + 1) = 1..n \union {n + 1}
    BY <1>1
  <2> HIDE DEF n, longer
  <2> QED BY <1>1, <1>2, <2>1
<1>4. CASE x = item
  <2>1. Count(longer, item) = Count(seq, item) + 1
    <3> HIDE DEF longer
    <3> QED BY <1>1, <1>2, <1>3, <1>4, CountMore
  <2> QED BY <2>1, <1>4
<1>5. CASE x # item
  <2>1. Count(longer, item) = Count(seq, item)
    BY <1>3, <1>5 DEF Count
  <2>2. Count(seq, item) \in Nat
    BY CountType
  <2> HIDE DEF longer
  <2> QED BY <2>1, <2>2, <1>5 DEF longer
<1> QED BY <1>4, <1>5

LEMMA CountTail ==
    ASSUME NEW S, NEW seq \in Seq(S), seq # <<>>, NEW item
    PROVE  Count(seq, item) = Count(Tail(seq), item) + (IF Head(seq) = item THEN 1 ELSE 0)
<1> DEFINE n == Len(seq)
           rest == Tail(seq)
           later == {i \in 2..n : seq[i] = item}
           shorter == {i \in DOMAIN rest : rest[i] = item}
           all == {i \in DOMAIN seq : seq[i] = item}
<1>1. n \in Nat \ {0} /\ DOMAIN seq = 1..n /\ Head(seq) = seq[1]
  BY EmptySeq
<1>2. rest \in Seq(S) /\ DOMAIN rest = 1..(n - 1) /\ \A i \in 1..(n - 1) : rest[i] = seq[i + 1]
  <2>1. rest \in Seq(S) /\ Len(rest) = n - 1
    BY HeadTailProperties
  <2>2. DOMAIN rest = 1..(n - 1)
    BY <2>1
  <2> QED BY <2>1, <2>2, HeadTailProperties
<1>3. all = IF Head(seq) = item THEN later \union {1} ELSE later
  <2> HIDE DEF n
  <2> QED BY <1>1
<1>4. 1 \notin later
  <2> HIDE DEF n
  <2> QED BY <1>1
<1>5. ExistsBijection(shorter, later)
  <2> DEFINE f == [i \in shorter |-> i + 1]
  <2> HIDE DEF n, rest
  <2>1. shorter \subseteq 1..(n - 1) /\ \A i \in shorter : i + 1 \in later
    BY <1>1, <1>2
  <2>2. \A j \in later : j - 1 \in shorter /\ (j - 1) + 1 = j
    BY <1>1, <1>2
  <2> HIDE DEF shorter, later
  <2>3. f \in [shorter -> later]
    BY <2>1
  <2>4. \A i, j \in shorter : f[i] = f[j] => i = j
    BY <1>1, <2>1
  <2>5. \A j \in later : \E i \in shorter : f[i] = j
    BY <2>2
  <2>6. f \in Bijection(shorter, later)
    BY <2>3, <2>4, <2>5 DEF Bijection, Injection, Surjection, IsInjective
  <2> QED BY <2>6 DEF ExistsBijection
<1>6. IsFiniteSet(shorter)
  BY <1>2, CountType
<1>7. /\ Count(rest, item) = Cardinality(shorter) /\ Count(seq, item) = Cardinality(all)
      /\ Count(rest, item) \in Nat
  BY <1>2, CountType DEF Count
<1> HIDE DEF later, shorter, all, rest, n
<1>8. IsFiniteSet(later) /\ Cardinality(later) = Cardinality(shorter)
  BY <1>5, <1>6, FS_Bijection
<1>9. Cardinality(later \union {1}) = Cardinality(later) + 1
  BY <1>4, <1>8, FS_AddElement
<1> QED BY <1>3, <1>7, <1>8, <1>9 DEF rest

\* A sequence that lists each element of a set once, behind another one.
LEMMA CountJoin ==
    ASSUME NEW S, NEW seq \in Seq(S), NEW more \in SUBSET S, NEW n \in Nat,
           NEW order \in [1..n -> more],
           \A e \in more : \E i \in 1..n : order[i] = e,
           \A i, j \in 1..n : i < j => order[i] # order[j],
           NEW item
    PROVE  /\ seq \o order \in Seq(S)
           /\ Count(seq \o order, item) = Count(seq, item) + (IF item \in more THEN 1 ELSE 0)
<1> DEFINE m == Len(seq)
           joined == seq \o order
           before == {i \in DOMAIN seq : seq[i] = item}
           after == {i \in DOMAIN joined : joined[i] = item}
<1>1. m \in Nat /\ DOMAIN seq = 1..m
  OBVIOUS
<1>2. order \in Seq(S) /\ Len(order) = n
  <2>1. order \in [1..n -> S]
    OBVIOUS
  <2> QED BY <2>1, IsASeq
<1>3. /\ joined \in Seq(S) /\ DOMAIN joined = 1..(m + n)
      /\ \A i \in 1..(m + n) : joined[i] = IF i <= m THEN seq[i] ELSE order[i - m]
  <2>1. joined \in Seq(S) /\ Len(joined) = m + n
    BY <1>2, ConcatProperties
  <2>2. DOMAIN joined = 1..(m + n)
    BY <2>1
  <2> QED BY <1>2, <2>1, <2>2, ConcatProperties
<1>4. Count(seq, item) \in Nat
  BY CountType
<1> HIDE DEF joined, m
<1>5. CASE item \in more
  <2>1. PICK k \in 1..n : order[k] = item
    BY <1>5
  <2>2. \A i \in 1..n : order[i] = item => i = k
    <3> TAKE i \in 1..n
    <3>1. i < k \/ k < i \/ i = k
      OBVIOUS
    <3> QED BY <2>1, <3>1
  <2>3. after = before \union {m + k}
    <3>1. \A i \in after : i \in before \union {m + k}
      <4> TAKE i \in after
      <4>1. CASE i <= m
        BY <1>1, <1>3, <4>1
      <4>2. CASE i > m
        <5>1. i - m \in 1..n /\ order[i - m] = item
          BY <1>1, <1>3, <4>2
        <5>2. i - m = k
          BY <2>2, <5>1
        <5>3. i \in 1..(m + n)
          BY <1>3
        <5>4. i = m + k
          BY <1>1, <5>2, <5>3
        <5> QED BY <5>4
      <4> QED BY <1>1, <1>3, <4>1, <4>2
    <3>2. m + k \in after
      BY <1>1, <1>3, <2>1
    <3>3. before \subseteq after
      BY <1>1, <1>3
    <3> QED BY <3>1, <3>2, <3>3
  <2>4. Count(joined, item) = Count(seq, item) + 1
    <3>1. m + k \in Nat /\ m + k > Len(seq)
      BY <1>1 DEF m
    <3>2. joined \in Seq(S)
      BY <1>3
    <3> QED BY <2>3, <3>1, <3>2, CountMore
  <2> QED BY <1>3, <1>5, <2>4 DEF joined
<1>6. CASE item \notin more
  <2>1. after = before
    <3>1. \A i \in 1..(m + n) : joined[i] = item => i \in 1..m /\ seq[i] = item
      <4> TAKE i \in 1..(m + n)
      <4>1. CASE i <= m
        BY <1>1, <1>3, <4>1
      <4>2. CASE i > m
        <5>1. i - m \in 1..n
          BY <1>1, <4>2
        <5> QED BY <1>1, <1>3, <1>6, <4>2, <5>1
      <4> QED BY <1>1, <4>1, <4>2
    <3>2. \A i \in 1..m : i \in 1..(m + n) /\ joined[i] = seq[i]
      BY <1>1, <1>3
    <3> QED BY <1>1, <1>3, <3>1, <3>2
  <2>2. Count(joined, item) = Count(seq, item)
    BY <2>1 DEF Count
  <2> QED BY <1>3, <1>4, <1>6, <2>2 DEF joined
<1> QED BY <1>5, <1>6
-----------------------------------------------------------------------------
(* Entries and the caches that own them.                                   *)

LEMMA EntriesFacts ==
    /\ EntriesOf("gameObject") = Designs /\ EntriesOf("creature") = Templates
    /\ EntriesOf("name") = Players
    /\ Entries = Designs \union Templates \union Players
    /\ \A c \in Caches : EntriesOf(c) \subseteq Entries
    /\ \A c, d \in Caches : c # d => EntriesOf(c) \intersect EntriesOf(d) = {}
<1>1. /\ EntriesOf("gameObject") = Designs /\ EntriesOf("creature") = Templates
      /\ EntriesOf("name") = Players
  BY DEF EntriesOf
<1>2. Entries = EntriesOf("gameObject") \union EntriesOf("creature") \union EntriesOf("name")
  BY DEF Entries, Caches
<1> QED BY <1>1, <1>2, QueriesAssumption DEF Caches

LEMMA FitsFacts ==
    /\ \A g \in Units : g \in Guids /\ g \notin Objects /\ Fits(g) = Templates
    /\ \A g \in Objects : g \in Guids /\ g \notin Units /\ Fits(g) = Designs
    /\ \A g \in Guids : /\ Fits(g) \subseteq Entries
                        /\ Fits(g) \intersect Players = {}
                        /\ Fits(g) \subseteq Templates \union Designs
BY EntriesFacts, QueriesAssumption DEF Guids, Fits

\* What an object holds when it is there.
LEMMA HeldTypes ==
    ASSUME TypeOK, NEW g \in Guids
    PROVE  /\ present[g] # None => /\ present[g] \in Lifetimes
                                   /\ present[g].life \in 1..MaxLives
                                   /\ present[g].entry \in Fits(g)
                                   /\ present[g].entry \in Entries
           /\ bound[g] # None => /\ bound[g] \in Bindings
                                 /\ bound[g].life \in 1..MaxLives
                                 /\ bound[g].entry \in Fits(g)
                                 /\ bound[g].entry \in Entries
BY FitsFacts DEF TypeOK, Lifetimes, Bindings

-----------------------------------------------------------------------------
(* Binding newcomers.                                                      *)

\* Some bindings dropped; and who is bound: objects of one kind that are there and
\* hold nothing.
Keeps(kept) == /\ kept \in [Guids -> Bindings \union {None}]
               /\ \A g \in Guids : kept[g] = None \/ kept[g] = bound[g]
Unheld(c, kept, new) == \A g \in new : /\ g \in Guids /\ Fits(g) = EntriesOf(c)
                                       /\ kept[g] = None /\ present[g] # None
Sought(new) == {present[g].entry : g \in new}
Fresh(new) == {e \in Sought(new) : cache[e] = "absent"}

LEMMA SoughtFacts ==
    ASSUME TypeOK, NEW c \in Caches, NEW kept, NEW new, Unheld(c, kept, new)
    PROVE  /\ Sought(new) \subseteq EntriesOf(c) /\ Sought(new) \subseteq Entries
           /\ Fresh(new) \subseteq EntriesOf(c)
           /\ \A g \in new : present[g].entry \in Sought(new)
<1>1. \A g \in new : present[g].entry \in EntriesOf(c)
  BY HeldTypes DEF Unheld
<1> QED BY <1>1, EntriesFacts DEF Sought, Fresh

LEMMA BindUnfolds ==
    ASSUME NEW c, NEW kept, NEW new, BindAll(c, kept, new)
    PROVE  /\ bound' = [g \in Guids |-> IF g \in new THEN Binding(g) ELSE kept[g]]
           /\ cache' = [e \in Entries |-> IF e \in Fresh(new) THEN "pending" ELSE cache[e]]
           /\ wanted' = [e \in Entries |->
                 IF e \in Sought(new) /\ cache[e] # "ready"
                 THEN Registered(e, kept, new) ELSE wanted[e]]
           /\ \E order \in Arrivals(Fresh(new), new) :
                 queries' = [queries EXCEPT ![c] = @ \o order]
BY DEF BindAll, Sought, Fresh

\* The order of the questions lists each fresh entry once.
LEMMA ArrivalsOnce ==
    ASSUME TypeOK, NEW c \in Caches, NEW kept, NEW new, Unheld(c, kept, new),
           NEW order \in Arrivals(Fresh(new), new)
    PROVE  \E n \in Nat : /\ order \in [1..n -> Fresh(new)]
                          /\ \A e \in Fresh(new) : \E i \in 1..n : order[i] = e
                          /\ \A i, j \in 1..n : i < j => order[i] # order[j]
<1> DEFINE n == Cardinality(Fresh(new))
<1>1. order \in [1..n -> Fresh(new)] /\ DOMAIN order = 1..n
  BY DEF Arrivals
<1>2. \A e \in Fresh(new) : \E i \in 1..n : order[i] = e
  BY <1>1 DEF Arrivals
<1>3. \A i, j \in 1..n : i < j => order[i] # order[j]
  <2> SUFFICES ASSUME NEW i \in 1..n, NEW j \in 1..n, i < j, order[i] = order[j] PROVE FALSE
    OBVIOUS
  <2>1. \E g \in New(order[i], new) : \A h \in New(order[j], new) :
           present[g].life < present[h].life
    BY <1>1 DEF Arrivals
  <2>2. PICK g \in New(order[i], new) : present[g].life < present[g].life
    BY <2>1
  <2>3. present[g].life \in Nat
    BY HeldTypes, QueriesAssumption DEF New, Unheld
  <2> QED BY <2>2, <2>3
<1>4. n \in Nat
  <2>1. Fresh(new) \in SUBSET (Templates \union Designs)
    <3>1. \A g \in new : present[g].entry \in Templates \union Designs
      BY HeldTypes, FitsFacts DEF Unheld
    <3> QED BY <3>1 DEF Fresh, Sought
  <2>2. IsFiniteSet(Fresh(new))
    BY <2>1, QueriesAssumption, FS_Subset
  <2> QED BY <2>2, FS_CardinalityType
<1> QED BY <1>1, <1>2, <1>3, <1>4

LEMMA BindTyped ==
    ASSUME TypeOK, NEW c \in Caches, NEW kept, Keeps(kept), NEW new, Unheld(c, kept, new),
           BindAll(c, kept, new)
    PROVE  /\ bound' \in [Guids -> Bindings \union {None}]
           /\ \A g \in Guids : bound'[g] # None => bound'[g].entry \in Fits(g)
           /\ cache' \in [Entries -> {"absent", "pending", "ready"}]
           /\ wanted' \in [Entries -> SUBSET [guid: Guids, life: 1..MaxLives, entry: Entries]]
           /\ queries' \in [Caches -> Seq(Entries)]
           /\ \A d \in Caches : queries'[d] \in Seq(EntriesOf(d))
<1>1. \A g \in new : g \in Guids /\ Binding(g) \in Bindings /\ Binding(g).entry = present[g].entry
  BY HeldTypes, FitsFacts DEF Unheld, Binding, Bindings
<1>2. bound' \in [Guids -> Bindings \union {None}]
  BY <1>1, BindUnfolds DEF Keeps
<1>3. \A g \in Guids : bound'[g] # None => bound'[g].entry \in Fits(g)
  <2> TAKE g \in Guids
  <2>1. CASE g \in new
    BY <1>1, <2>1, BindUnfolds, HeldTypes DEF Unheld
  <2>2. CASE g \notin new
    <3>1. bound'[g] = kept[g] /\ (kept[g] = None \/ kept[g] = bound[g])
      BY <2>2, BindUnfolds DEF Keeps
    <3> QED BY <3>1, HeldTypes
  <2> QED BY <2>1, <2>2
<1>4. cache' \in [Entries -> {"absent", "pending", "ready"}]
  BY BindUnfolds DEF TypeOK
<1>5. wanted' \in [Entries -> SUBSET [guid: Guids, life: 1..MaxLives, entry: Entries]]
  <2>1. wanted \in [Entries -> SUBSET [guid: Guids, life: 1..MaxLives, entry: Entries]]
    BY DEF TypeOK
  <2>2. \A g \in new : Call(g) \in [guid: Guids, life: 1..MaxLives, entry: Entries]
    BY <1>1, HeldTypes DEF Call, Unheld
  <2>3. \A e \in Entries : Registered(e, kept, new) \in SUBSET [guid: Guids, life: 1..MaxLives, entry: Entries]
    BY <2>1, <2>2 DEF Registered, New
  <2> QED BY <2>1, <2>3, BindUnfolds
<1>6. PICK order \in Arrivals(Fresh(new), new) : queries' = [queries EXCEPT ![c] = @ \o order]
  BY BindUnfolds
<1>7. order \in Seq(Fresh(new))
  BY ArrivalsOnce, IsASeq
<1>8. Fresh(new) \subseteq EntriesOf(c) /\ EntriesOf(c) \subseteq Entries
  BY SoughtFacts, EntriesFacts
<1>9. order \in Seq(EntriesOf(c))
  BY <1>7, <1>8
<1>10. queries[c] \o order \in Seq(EntriesOf(c))
  BY <1>9, ConcatProperties DEF TypeOK
<1>11. queries[c] \o order \in Seq(Entries)
  BY <1>10, <1>8
<1> QED BY <1>2, <1>3, <1>4, <1>5, <1>6, <1>10, <1>11 DEF TypeOK

\* A question for each fresh entry, none for another.
LEMMA BindCounts ==
    ASSUME TypeOK, NEW c \in Caches, NEW kept, NEW new, Unheld(c, kept, new),
           BindAll(c, kept, new), NEW d \in Caches, NEW e \in EntriesOf(d)
    PROVE  /\ Count(queries'[d], e) = Count(queries[d], e) + (IF e \in Fresh(new) THEN 1 ELSE 0)
           /\ cache'[e] = IF e \in Fresh(new) THEN "pending" ELSE cache[e]
           /\ e \in Fresh(new) => cache[e] = "absent"
<1>1. PICK order \in Arrivals(Fresh(new), new) : queries' = [queries EXCEPT ![c] = @ \o order]
  BY BindUnfolds
<1>2. PICK n \in Nat : /\ order \in [1..n -> Fresh(new)]
                       /\ \A x \in Fresh(new) : \E i \in 1..n : order[i] = x
                       /\ \A i, j \in 1..n : i < j => order[i] # order[j]
  BY ArrivalsOnce
<1>3. Fresh(new) \in SUBSET EntriesOf(c) /\ queries[c] \in Seq(EntriesOf(c))
  BY SoughtFacts DEF TypeOK
<1>4. Count(queries[c] \o order, e) = Count(queries[c], e) + (IF e \in Fresh(new) THEN 1 ELSE 0)
  BY <1>2, <1>3, CountJoin
<1>5. e \in Entries
  BY EntriesFacts
<1>6. CASE c = d
  BY <1>1, <1>4, <1>5, <1>6, BindUnfolds DEF TypeOK, Fresh
<1>7. CASE c # d
  <2>1. e \notin Fresh(new)
    BY <1>3, <1>7, EntriesFacts
  <2>2. queries'[d] = queries[d]
    BY <1>1, <1>7 DEF TypeOK
  <2>3. Count(queries[d], e) \in Nat
    BY CountType DEF TypeOK
  <2> QED BY <1>5, <2>1, <2>2, <2>3, BindUnfolds
<1> QED BY <1>6, <1>7

\* Newcomers are registered, and whoever waited before is not forgotten.
LEMMA BindWaiters ==
    ASSUME TypeOK, WaitersRegistered, NEW c \in Caches, NEW kept, Keeps(kept),
           NEW new, Unheld(c, kept, new), BindAll(c, kept, new)
    PROVE  WaitersRegistered'
<1> SUFFICES ASSUME NEW g \in Guids, bound'[g] # None, bound'[g].result = "waiting"
             PROVE  /\ cache'[bound'[g].entry] = "pending"
                    /\ \E call \in wanted'[bound'[g].entry] : call.guid = g /\ Alive(call, bound')
  BY DEF WaitersRegistered
<1> DEFINE e == bound'[g].entry
<1>1. CASE g \in new
  <2>1. /\ bound'[g] = Binding(g) /\ e = present[g].entry /\ e \in Entries /\ e \in Sought(new)
        /\ cache[e] # "ready" /\ bound'[g].life = present[g].life
    BY <1>1, BindUnfolds, HeldTypes, SoughtFacts DEF Binding, Unheld
  <2>2. cache'[e] = "pending"
    <3>1. cache[e] \in {"absent", "pending"}
      BY <2>1 DEF TypeOK
    <3> HIDE DEF e
    <3> QED BY <2>1, <3>1, BindUnfolds DEF Fresh
  <2>3. Call(g) \in wanted'[e]
    <3>1. Call(g) \in Registered(e, kept, new)
      BY <1>1, <2>1 DEF Registered, New
    <3> HIDE DEF e
    <3> QED BY <2>1, <3>1, BindUnfolds
  <2>4. Call(g).guid = g /\ Alive(Call(g), bound')
    BY <2>1 DEF Call, Alive
  <2> QED BY <2>2, <2>3, <2>4
<1>2. CASE g \notin new
  <2>1. bound'[g] = bound[g] /\ kept[g] = bound[g]
    BY <1>2, BindUnfolds DEF Keeps
  <2>2. e \in Entries /\ e = bound[g].entry /\ cache[e] = "pending"
    BY <2>1, HeldTypes DEF WaitersRegistered
  <2>3. PICK call \in wanted[e] : call.guid = g /\ Alive(call, bound)
    BY <2>1, <2>2 DEF WaitersRegistered
  <2>4. Alive(call, kept) /\ Alive(call, bound')
    BY <2>1, <2>3 DEF Alive
  <2>5. call \in wanted'[e]
    <3>1. call \in Registered(e, kept, new)
      BY <2>3, <2>4 DEF Registered
    <3> HIDE DEF e
    <3> QED BY <2>2, <2>3, <3>1, BindUnfolds
  <2>6. cache'[e] = "pending"
    <3> HIDE DEF e
    <3> QED BY <2>2, BindUnfolds DEF Fresh
  <2> QED BY <2>3, <2>4, <2>5, <2>6
<1> QED BY <1>1, <1>2

-----------------------------------------------------------------------------
(* Types.                                                                  *)

LEMMA StepFlags ==
    ASSUME TypeOK, Next
    PROVE  applied' \in BOOLEAN /\ arriving' \in BOOLEAN
<1>1. applied \in BOOLEAN /\ arriving \in BOOLEAN
  BY DEF TypeOK
<1>2. CASE Frame
  BY <1>1, <1>2 DEF Frame, EndBatch, ReplaceWorld, BindObjects, SendQueries, batch
<1>3. CASE Write \/ UpdateObjects \/ Offer \/ NewWorld \/ Reenter
  BY <1>1, <1>3 DEF Write, UpdateObjects, Offer, NewWorld, Reenter, batch
<1>4. CASE \E e \in Entries : Answer(e)
  BY <1>1, <1>4 DEF Answer, AnswerName, AnswerTemplate, batch
<1> QED BY <1>2, <1>3, <1>4 DEF Next

\* The types of what the world shows, what the caches keep and what is under way.
WorldTypes ==
    /\ present \in [Guids -> Lifetimes \union {None}]
    /\ \A g \in Guids : present[g] # None => present[g].entry \in Fits(g)
    /\ world \in 1..MaxWorlds /\ lives \in 0..MaxLives /\ turns \in 0..MaxTurns
    /\ at \in DOMAIN After \union {"packets", "replace", "bind"}
CacheTypes ==
    /\ bound \in [Guids -> Bindings \union {None}]
    /\ \A g \in Guids : bound[g] # None => bound[g].entry \in Fits(g)
    /\ cache \in [Entries -> {"absent", "pending", "ready"}]
    /\ wanted \in [Entries -> SUBSET [guid: Guids, life: 1..MaxLives, entry: Entries]]
    /\ queries \in [Caches -> Seq(Entries)]
    /\ \A c \in Caches : queries[c] \in Seq(EntriesOf(c))
WireTypes ==
    /\ channel \in Seq(Questions) /\ Len(channel) <= Capacity
    /\ asked \in [Entries -> Nat]

LEMMA TypeParts ==
    /\ TypeOK <=> /\ WorldTypes /\ CacheTypes /\ WireTypes
                  /\ applied \in BOOLEAN /\ arriving \in BOOLEAN
    /\ TypeOK' <=> /\ WorldTypes' /\ CacheTypes' /\ WireTypes'
                   /\ applied' \in BOOLEAN /\ arriving' \in BOOLEAN
BY DEF TypeOK, WorldTypes, CacheTypes, WireTypes

LEMMA BindsUnits ==
    ASSUME TypeOK, SynchronizeUnits
    PROVE  \E kept, new : /\ Keeps(kept) /\ Unheld("creature", kept, new)
                          /\ BindAll("creature", kept, new)
                          /\ kept = [g \in Guids |-> IF g \in Units /\ ~Current(g) THEN None ELSE bound[g]]
                          /\ new = Newcomers(kept, Units)
<1> DEFINE kept == [g \in Guids |-> IF g \in Units /\ ~Current(g) THEN None ELSE bound[g]]
           new == Newcomers(kept, Units)
<1>1. Keeps(kept)
  BY DEF Keeps, TypeOK
<1>2. Unheld("creature", kept, new)
  BY FitsFacts, EntriesFacts DEF Unheld, Newcomers
<1>3. BindAll("creature", kept, new)
  BY DEF SynchronizeUnits
<1> QED BY <1>1, <1>2, <1>3

LEMMA BindsObjects ==
    ASSUME TypeOK, BindObjects
    PROVE  \E kept, new : /\ Keeps(kept) /\ Unheld("gameObject", kept, new)
                          /\ BindAll("gameObject", kept, new)
                          /\ kept = [g \in Guids |-> IF g \in Objects /\ Vanished(g) THEN None ELSE bound[g]]
                          /\ new \subseteq Objects
<1> DEFINE kept == [g \in Guids |-> IF g \in Objects /\ Vanished(g) THEN None ELSE bound[g]]
<1>1. Keeps(kept)
  BY DEF Keeps, TypeOK
<1>2. PICK new \in SUBSET Newcomers(kept, Objects) : BindAll("gameObject", kept, new)
  BY DEF BindObjects
<1>3. Unheld("gameObject", kept, new) /\ new \subseteq Objects
  <2> HIDE DEF kept
  <2> QED BY <1>2, FitsFacts, EntriesFacts DEF Unheld, Newcomers
<1> QED BY <1>1, <1>2, <1>3

LEMMA CompleteTyped ==
    ASSUME TypeOK, NEW e \in Entries, NEW found \in BOOLEAN, Complete(e, found)
    PROVE  CacheTypes'
<1>1. \A g \in Guids : bound'[g] \in Bindings \union {None}
                      /\ (bound'[g] # None => bound'[g].entry \in Fits(g))
  <2> TAKE g \in Guids
  <2>1. \/ bound'[g] = bound[g]
        \/ bound[g] # None /\ \E r \in {"template", "missing"} :
              bound'[g] = [bound[g] EXCEPT !.result = r]
    BY DEF Complete
  <2>2. bound[g] # None => bound[g] \in Bindings /\ bound[g].entry \in Fits(g)
    BY HeldTypes
  <2>3. CASE bound'[g] = bound[g]
    BY <2>2, <2>3 DEF TypeOK
  <2>4. CASE bound[g] # None /\ \E r \in {"template", "missing"} :
              bound'[g] = [bound[g] EXCEPT !.result = r]
    BY <2>2, <2>4 DEF Bindings
  <2> QED BY <2>1, <2>3, <2>4
<1>2. bound' \in [Guids -> Bindings \union {None}]
  BY <1>1 DEF Complete
<1>3. /\ cache' \in [Entries -> {"absent", "pending", "ready"}]
      /\ wanted' \in [Entries -> SUBSET [guid: Guids, life: 1..MaxLives, entry: Entries]]
      /\ queries' = queries
  BY DEF Complete, TypeOK
<1> QED BY <1>1, <1>2, <1>3 DEF CacheTypes, TypeOK

LEMMA FrameTyped ==
    ASSUME TypeOK, WorldInv, Frame
    PROVE  WorldTypes' /\ CacheTypes' /\ WireTypes'
<1>0. WorldTypes /\ CacheTypes /\ WireTypes
  BY TypeParts
<1>1. CASE EndBatch
  <2>1. WorldTypes' /\ WireTypes'
    BY <1>0, <1>1 DEF EndBatch, WorldTypes, WireTypes
  <2>2. CASE applied
    <3>1. SynchronizeUnits
      BY <1>1, <2>2 DEF EndBatch
    <3>2. CacheTypes'
      BY <3>1, BindsUnits, BindTyped DEF CacheTypes, Caches
    <3> QED BY <2>1, <3>2
  <2>3. CASE ~applied
    BY <1>0, <1>1, <2>1, <2>3 DEF EndBatch, CacheTypes, caches
  <2> QED BY <2>2, <2>3
<1>2. CASE ReplaceWorld
  <2>1. world' \in 1..MaxWorlds
    BY <1>0, <1>2, QueriesAssumption DEF ReplaceWorld, WorldInv, WorldTypes
  <2> QED BY <1>0, <1>2, <2>1 DEF ReplaceWorld, Unbound, WorldTypes, CacheTypes, WireTypes
<1>3. CASE BindObjects
  <2>1. CacheTypes'
    BY <1>3, BindsObjects, BindTyped DEF CacheTypes, Caches
  <2> QED BY <1>0, <1>3, <2>1 DEF BindObjects, WorldTypes, WireTypes, batch, After
<1>4. ASSUME NEW c \in Caches, SendQueries(c)
      PROVE  WorldTypes' /\ CacheTypes' /\ WireTypes'
  <2>1. CASE Sends(c)
    <3>1. /\ Head(queries[c]) \in EntriesOf(c) /\ Tail(queries[c]) \in Seq(EntriesOf(c))
          /\ Tail(queries[c]) \in Seq(Entries)
      BY <2>1, HeadTailProperties DEF Sends, TypeOK
    <3>2. CacheTypes'
      BY <1>0, <1>4, <2>1, <3>1 DEF SendQueries, CacheTypes
    <3>3. Query(c, Head(queries[c])) \in Questions
      BY <3>1 DEF Query, Questions
    <3>4. channel' \in Seq(Questions) /\ Len(channel') = Len(channel) + 1 /\ Len(channel) \in Nat
      BY <1>0, <1>4, <2>1, <3>3, AppendProperties DEF SendQueries, WireTypes
    <3>5. WireTypes'
      BY <1>0, <1>4, <2>1, <3>4, QueriesAssumption DEF SendQueries, WireTypes, Sends, Room
    <3> QED BY <1>0, <1>4, <2>1, <3>2, <3>5 DEF SendQueries, WorldTypes, batch
  <2>2. CASE ~Sends(c)
    <3>1. WorldTypes'
      BY <1>0, <1>4, <2>2 DEF SendQueries, WorldTypes, batch, After, Caches
    <3> QED BY <1>0, <1>4, <2>2, <3>1 DEF SendQueries, CacheTypes, WireTypes
  <2> QED BY <2>1, <2>2
<1> QED BY <1>1, <1>2, <1>3, <1>4 DEF Frame

\* A question the server has is not under way besides.
LEMMA AskedOnce ==
    ASSUME TypeOK, QueriesInStep, NEW c \in Caches, NEW e \in EntriesOf(c), asked[e] > 0
    PROVE  /\ cache[e] = "pending" /\ asked[e] = 1
           /\ Count(queries[c], e) = 0 /\ Count(channel, Query(c, e)) = 0
           /\ \A i \in 1..Len(queries[c]) : queries[c][i] # e
<1>1. e \in Entries /\ queries[c] \in Seq(EntriesOf(c)) /\ channel \in Seq(Questions)
  BY EntriesFacts DEF TypeOK
<1>2. /\ Count(queries[c], e) \in Nat /\ Count(channel, Query(c, e)) \in Nat
      /\ Count(queries[c], e) = 0 <=> \A i \in 1..Len(queries[c]) : queries[c][i] # e
  BY <1>1, CountType
<1>3. asked[e] \in Nat
  BY <1>1 DEF TypeOK
<1>4. Count(queries[c], e) + Count(channel, Query(c, e)) + asked[e]
        = IF cache[e] = "pending" THEN 1 ELSE 0
  BY DEF QueriesInStep, Underway
<1> QED BY <1>2, <1>3, <1>4

\* What an answer to a name does to the queue: nothing, or the question is back in it.
LEMMA NameQueue ==
    ASSUME TypeOK, QueriesInStep, NEW p \in Players, asked[p] > 0
    PROVE  /\ Unqueued(p) = queries["name"]
           /\ Retried(p) = Append(queries["name"], p)
<1>1. /\ cache[p] = "pending"
      /\ \A i \in 1..Len(queries["name"]) : queries["name"][i] # p
  BY AskedOnce, EntriesFacts DEF Caches
<1>2. ~Contains(queries["name"], p)
  BY <1>1 DEF Contains
<1> QED BY <1>1, <1>2 DEF Unqueued, Retried

LEMMA AnswerTyped ==
    ASSUME TypeOK, QueriesInStep, NEW e \in Entries, Answer(e)
    PROVE  WorldTypes' /\ CacheTypes' /\ WireTypes'
<1>0. WorldTypes /\ CacheTypes /\ WireTypes
  BY TypeParts
<1>1. CASE e \in Players /\ AnswerName(e)
  <2>1. /\ Unqueued(e) = queries["name"] /\ Retried(e) = Append(queries["name"], e)
    BY <1>1, NameQueue DEF AnswerName
  <2>2. Append(queries["name"], e) \in Seq(EntriesOf("name"))
    <3>1. queries["name"] \in Seq(EntriesOf("name")) /\ e \in EntriesOf("name")
      BY <1>0, <1>1, EntriesFacts DEF CacheTypes, Caches
    <3> QED BY <3>1, AppendProperties
  <2>3. Append(queries["name"], e) \in Seq(Entries)
    <3>1. queries["name"] \in Seq(Entries)
      BY <1>0 DEF CacheTypes, Caches
    <3> QED BY <3>1, AppendProperties
  <2>4. WireTypes'
    BY <1>0, <1>1 DEF AnswerName, WireTypes
  <2>5. CacheTypes'
    <3>1. /\ queries' \in [Caches -> Seq(Entries)]
          /\ \A c \in Caches : queries'[c] \in Seq(EntriesOf(c))
      <4>1. \/ queries' = [queries EXCEPT !["name"] = queries["name"]]
            \/ queries' = [queries EXCEPT !["name"] = Append(queries["name"], e)]
        BY <1>1, <2>1 DEF AnswerName
      <4> QED BY <1>0, <2>2, <2>3, <4>1 DEF CacheTypes
    <3>2. cache' \in [Entries -> {"absent", "pending", "ready"}]
      BY <1>0, <1>1 DEF AnswerName, CacheTypes
    <3> QED BY <1>0, <1>1, <3>1, <3>2 DEF AnswerName, CacheTypes
  <2>6. WorldTypes'
    BY <1>0, <1>1, QueriesAssumption DEF AnswerName, WorldTypes, batch
  <2> QED BY <2>4, <2>5, <2>6
<1>2. CASE AnswerTemplate(e)
  <2>1. CacheTypes'
    BY <1>2, CompleteTyped DEF AnswerTemplate
  <2> QED BY <1>0, <1>2, <2>1 DEF AnswerTemplate, WorldTypes, WireTypes, batch
<1> QED BY <1>1, <1>2 DEF Answer

LEMMA UpdateTyped ==
    ASSUME TypeOK, UpdateObjects
    PROVE  WorldTypes' /\ CacheTypes' /\ WireTypes'
<1>0. WorldTypes /\ CacheTypes /\ WireTypes
  BY TypeParts
<1>1. CacheTypes' /\ WireTypes'
  BY <1>0 DEF UpdateObjects, caches, CacheTypes, WireTypes
<1>2. ASSUME NEW g \in Guids, NEW value \in Lifetimes \union {None}, Seen(g, value),
             value # None => value.entry \in Fits(g),
             lives' \in 0..MaxLives
      PROVE  WorldTypes'
  BY <1>0, <1>2 DEF UpdateObjects, WorldTypes, Seen
<1>3. ASSUME NEW g \in Guids, NEW e \in Fits(g), present[g] = None, lives < MaxLives,
             lives' = lives + 1, Seen(g, [life |-> lives + 1, entry |-> e])
      PROVE  WorldTypes'
  <2>1. lives + 1 \in 1..MaxLives
    BY <1>0, <1>3, QueriesAssumption DEF WorldTypes
  <2>2. [life |-> lives + 1, entry |-> e] \in Lifetimes
    BY <2>1, FitsFacts DEF Lifetimes
  <2>3. lives' \in 0..MaxLives
    BY <1>3, <2>1, QueriesAssumption
  <2> QED BY <1>2, <1>3, <2>2, <2>3
<1>4. ASSUME NEW g \in Guids, NEW e \in Fits(g), present[g] # None, lives < MaxLives,
             lives' = lives + 1, Seen(g, [present[g] EXCEPT !.entry = e])
      PROVE  WorldTypes'
  <2>1. lives + 1 \in 0..MaxLives
    BY <1>0, <1>4, QueriesAssumption DEF WorldTypes
  <2>2. [present[g] EXCEPT !.entry = e] \in Lifetimes /\ [present[g] EXCEPT !.entry = e].entry = e
    BY <1>4, FitsFacts, HeldTypes DEF Lifetimes
  <2> QED BY <1>2, <1>4, <2>1, <2>2
<1>5. ASSUME NEW g \in Guids, Seen(g, None), UNCHANGED lives
      PROVE  WorldTypes'
  BY <1>0, <1>2, <1>5 DEF WorldTypes
<1> QED BY <1>1, <1>3, <1>4, <1>5 DEF UpdateObjects

LEMMA StepTyped ==
    ASSUME TypeOK, QueriesInStep, WorldInv, [Next]_vars
    PROVE  TypeOK'
<1>0. WorldTypes /\ CacheTypes /\ WireTypes
  BY TypeParts
<1>1. ASSUME Next
      PROVE  WorldTypes' /\ CacheTypes' /\ WireTypes'
  <2>1. CASE Write
    <3>1. Head(channel) \in Questions /\ Tail(channel) \in Seq(Questions)
          /\ Len(Tail(channel)) = Len(channel) - 1 /\ Len(channel) \in Nat
      BY <1>0, <2>1, HeadTailProperties, LenProperties DEF Write, WireTypes
    <3>2. Head(channel).entry \in Entries
      BY <3>1, EntriesFacts DEF Questions
    <3>3. WireTypes'
      BY <1>0, <2>1, <3>1, <3>2, QueriesAssumption DEF Write, WireTypes
    <3> QED BY <1>0, <2>1, <3>3 DEF Write, WorldTypes, CacheTypes, batch, caches
  <2>2. CASE Offer
    <3>1. ASSUME NEW p \in Players
          PROVE  Append(queries["name"], p) \in Seq(EntriesOf("name"))
                 /\ Append(queries["name"], p) \in Seq(Entries) /\ p \in Entries
      BY <1>0, EntriesFacts, AppendProperties DEF CacheTypes, Caches
    <3>2. CacheTypes'
      BY <1>0, <2>2, <3>1 DEF Offer, CacheTypes
    <3>3. WorldTypes'
      BY <1>0, <2>2, QueriesAssumption DEF Offer, WorldTypes, batch
    <3> QED BY <1>0, <2>2, <3>2, <3>3 DEF Offer, WireTypes
  <2>3. CASE NewWorld
    BY <1>0, <2>3 DEF NewWorld, WorldTypes, CacheTypes, WireTypes, caches
  <2>4. CASE Reenter
    <3>1. world' \in 1..MaxWorlds
      BY <1>0, <2>4, QueriesAssumption DEF Reenter, WorldTypes
    <3>2. WorldTypes'
      BY <1>0, <2>4, <3>1 DEF Reenter, WorldTypes
    <3>3. CacheTypes'
      BY <2>4, FitsFacts DEF Reenter, Forgotten, Unbound, CacheTypes
    <3>4. WireTypes'
      BY <2>4, QueriesAssumption DEF Reenter, WireTypes
    <3> QED BY <3>2, <3>3, <3>4
  <2> QED
    BY <1>1, <2>1, <2>2, <2>3, <2>4, FrameTyped, AnswerTyped, UpdateTyped DEF Next
<1>2. CASE UNCHANGED vars
  BY <1>2 DEF TypeOK, vars, batch, caches
<1> QED BY <1>1, <1>2, StepFlags, TypeParts
-----------------------------------------------------------------------------
(* One question for each pending entry.                                    *)

LEMMA Counted ==
    ASSUME TypeOK, QueriesInStep, NEW c \in Caches, NEW e \in EntriesOf(c)
    PROVE  /\ Count(queries[c], e) \in Nat /\ Count(channel, Query(c, e)) \in Nat
           /\ asked[e] \in Nat /\ e \in Entries
           /\ Count(queries[c], e) + Count(channel, Query(c, e)) + asked[e]
                = IF cache[e] = "pending" THEN 1 ELSE 0
<1>1. e \in Entries
  BY EntriesFacts
<1>2. queries[c] \in Seq(EntriesOf(c)) /\ channel \in Seq(Questions) /\ asked[e] \in Nat
  BY <1>1 DEF TypeOK
<1> QED BY <1>1, <1>2, CountType DEF QueriesInStep, Underway

LEMMA BindInStep ==
    ASSUME TypeOK, QueriesInStep, NEW c \in Caches, NEW kept, NEW new, Unheld(c, kept, new),
           BindAll(c, kept, new), UNCHANGED <<channel, asked>>
    PROVE  QueriesInStep'
<1> SUFFICES ASSUME NEW d \in Caches, NEW e \in EntriesOf(d)
             PROVE  Underway(d, e)' = IF cache'[e] = "pending" THEN 1 ELSE 0
  BY DEF QueriesInStep
<1>1. /\ Count(queries'[d], e) = Count(queries[d], e) + (IF e \in Fresh(new) THEN 1 ELSE 0)
      /\ cache'[e] = IF e \in Fresh(new) THEN "pending" ELSE cache[e]
      /\ e \in Fresh(new) => cache[e] = "absent"
  BY BindCounts
<1> QED BY <1>1, Counted DEF Underway

\* Only the questions of one entry may change, and its state with them.
LEMMA OneEntry ==
    ASSUME TypeOK, QueriesInStep, NEW c \in Caches, NEW e \in EntriesOf(c),
           \A d \in Caches : \A x \in EntriesOf(d) : x # e =>
              /\ Count(queries'[d], x) = Count(queries[d], x) /\ asked'[x] = asked[x]
              /\ Count(channel', Query(d, x)) = Count(channel, Query(d, x))
              /\ cache'[x] = cache[x],
           Count(queries'[c], e) + Count(channel', Query(c, e)) + asked'[e]
              = IF cache'[e] = "pending" THEN 1 ELSE 0
    PROVE  QueriesInStep'
<1> SUFFICES ASSUME NEW d \in Caches, NEW x \in EntriesOf(d)
             PROVE  Count(queries'[d], x) + Count(channel', Query(d, x)) + asked'[x]
                       = IF cache'[x] = "pending" THEN 1 ELSE 0
  BY DEF QueriesInStep, Underway
<1>1. CASE x = e
  <2>1. d = c
    BY <1>1, EntriesFacts
  <2> QED BY <1>1, <2>1
<1>2. CASE x # e
  BY <1>2, Counted
<1> QED BY <1>1, <1>2

\* A question moves on: from its queue to the writer.
LEMMA SendInStep ==
    ASSUME TypeOK, QueriesInStep, NEW c \in Caches, SendQueries(c)
    PROVE  QueriesInStep'
<1>1. CASE Sends(c)
  <2> DEFINE e == Head(queries[c])
  <2>1. /\ queries[c] \in Seq(EntriesOf(c)) /\ queries[c] # <<>> /\ e \in EntriesOf(c)
        /\ channel \in Seq(Questions) /\ Query(c, e) \in Questions
        /\ queries \in [Caches -> Seq(Entries)]
    BY <1>1, HeadTailProperties DEF Sends, TypeOK, Query, Questions
  <2>2. /\ channel' = Append(channel, Query(c, e)) /\ queries'[c] = Tail(queries[c])
        /\ \A d \in Caches : d # c => queries'[d] = queries[d]
        /\ cache' = cache /\ asked' = asked
    BY <1>1, <2>1 DEF SendQueries
  <2> HIDE DEF e
  <2>3. ASSUME NEW d \in Caches, NEW x \in EntriesOf(d)
        PROVE  Count(channel', Query(d, x))
                 = Count(channel, Query(d, x)) + (IF c = d /\ x = e THEN 1 ELSE 0)
    <3>1. Query(c, e) = Query(d, x) <=> c = d /\ x = e
      BY DEF Query
    <3> QED BY <2>1, <2>2, <3>1, CountAppend
  <2>4. ASSUME NEW x \in EntriesOf(c)
        PROVE  Count(queries[c], x) = Count(queries'[c], x) + (IF x = e THEN 1 ELSE 0)
    BY <2>1, <2>2, CountTail DEF e
  <2>5. \A x \in EntriesOf(c) : Count(queries'[c], x) \in Nat
    <3>1. queries'[c] \in Seq(EntriesOf(c))
      BY <2>1, <2>2, HeadTailProperties
    <3> QED BY <3>1, CountType
  <2>6. ASSUME NEW d \in Caches, NEW x \in EntriesOf(d), x # e
        PROVE  /\ Count(queries'[d], x) = Count(queries[d], x) /\ asked'[x] = asked[x]
               /\ Count(channel', Query(d, x)) = Count(channel, Query(d, x))
               /\ cache'[x] = cache[x]
    <3>1. Count(channel', Query(d, x)) = Count(channel, Query(d, x))
      BY <2>3, <2>6, Counted
    <3>2. Count(queries'[d], x) = Count(queries[d], x)
      BY <2>2, <2>4, <2>5, <2>6
    <3> QED BY <2>2, <3>1, <3>2
  <2>7. Count(queries'[c], e) + Count(channel', Query(c, e)) + asked'[e]
          = IF cache'[e] = "pending" THEN 1 ELSE 0
    <3>1. /\ Count(channel', Query(c, e)) = Count(channel, Query(c, e)) + 1
          /\ Count(queries[c], e) = Count(queries'[c], e) + 1 /\ Count(queries'[c], e) \in Nat
      BY <2>1, <2>3, <2>4, <2>5
    <3> QED BY <2>1, <2>2, <3>1, Counted
  <2> QED BY <2>1, <2>6, <2>7, OneEntry
<1>2. CASE ~Sends(c)
  BY <1>2 DEF SendQueries, QueriesInStep, Underway
<1> QED BY <1>1, <1>2

\* From the writer to the server.
LEMMA WriteInStep ==
    ASSUME TypeOK, QueriesInStep, Write
    PROVE  QueriesInStep'
<1> DEFINE h == Head(channel)
<1>1. h \in Questions /\ channel \in Seq(Questions) /\ channel # <<>>
  BY HeadTailProperties DEF Write, TypeOK
<1>2. PICK c \in Caches : h \in [cache: {c}, entry: EntriesOf(c)]
  BY <1>1 DEF Questions
<1>3. PICK e \in EntriesOf(c) : h = Query(c, e)
  BY <1>2 DEF Query
<1>4. /\ channel' = Tail(channel) /\ cache' = cache /\ queries' = queries
      /\ asked' = [asked EXCEPT ![e] = @ + 1] /\ asked \in [Entries -> Nat] /\ e \in Entries
  <2>1. h.entry = e
    BY <1>3 DEF Query
  <2>2. asked \in [Entries -> Nat] /\ e \in Entries
    BY EntriesFacts DEF TypeOK
  <2> QED BY <2>1, <2>2 DEF Write, caches
<1> HIDE DEF h
<1>5. ASSUME NEW d \in Caches, NEW x \in EntriesOf(d)
      PROVE  /\ Count(channel, Query(d, x))
                   = Count(channel', Query(d, x)) + (IF c = d /\ x = e THEN 1 ELSE 0)
             /\ Count(channel', Query(d, x)) \in Nat
  <2>1. Query(c, e) = Query(d, x) <=> c = d /\ x = e
    BY DEF Query
  <2>2. Count(channel, Query(d, x))
          = Count(channel', Query(d, x)) + (IF h = Query(d, x) THEN 1 ELSE 0)
    BY <1>1, <1>4, CountTail DEF h
  <2>3. channel' \in Seq(Questions)
    BY <1>1, <1>4, HeadTailProperties
  <2> QED BY <1>3, <2>1, <2>2, <2>3, CountType
<1>6. ASSUME NEW d \in Caches, NEW x \in EntriesOf(d), x # e
      PROVE  /\ Count(queries'[d], x) = Count(queries[d], x) /\ asked'[x] = asked[x]
             /\ Count(channel', Query(d, x)) = Count(channel, Query(d, x))
             /\ cache'[x] = cache[x]
  <2>1. Count(channel', Query(d, x)) = Count(channel, Query(d, x))
    BY <1>5, <1>6
  <2> QED BY <1>4, <1>6, <2>1, EntriesFacts
<1>7. Count(queries'[c], e) + Count(channel', Query(c, e)) + asked'[e]
        = IF cache'[e] = "pending" THEN 1 ELSE 0
  <2>1. /\ Count(channel, Query(c, e)) = Count(channel', Query(c, e)) + 1
        /\ Count(channel', Query(c, e)) \in Nat
    BY <1>5
  <2>2. asked'[e] = asked[e] + 1
    BY <1>4
  <2> QED BY <1>4, <2>1, <2>2, Counted
<1> QED BY <1>6, <1>7, OneEntry

\* An answer ends the question, or a busy server is asked again.
LEMMA AnswerInStep ==
    ASSUME TypeOK, QueriesInStep, NEW e \in Entries, Answer(e)
    PROVE  QueriesInStep'
<1>1. PICK c \in Caches : e \in EntriesOf(c) /\ (e \in Players <=> c = "name")
  BY EntriesFacts, QueriesAssumption DEF Caches
<1>2. asked[e] > 0 /\ asked' = [asked EXCEPT ![e] = @ - 1] /\ channel' = channel
  BY DEF Answer, AnswerName, AnswerTemplate
<1>3. /\ cache[e] = "pending" /\ asked[e] = 1
      /\ Count(queries[c], e) = 0 /\ Count(channel, Query(c, e)) = 0
  BY <1>1, <1>2, AskedOnce
<1>4. asked'[e] = 0 /\ \A x \in Entries : x # e => asked'[x] = asked[x]
  BY <1>2, <1>3 DEF TypeOK
<1>5. /\ \A x \in Entries : x # e => cache'[x] = cache[x]
      /\ \/ cache'[e] # "pending" /\ queries' = queries
         \/ /\ cache'[e] = "pending" /\ c = "name"
            /\ queries' = [queries EXCEPT !["name"] = Append(queries["name"], e)]
  <2>1. CASE e \in Players
    <3>1. AnswerName(e) /\ c = "name"
      BY <1>1, <2>1 DEF Answer
    <3>2. Unqueued(e) = queries["name"] /\ Retried(e) = Append(queries["name"], e)
      BY <1>2, <2>1, NameQueue
    <3>3. CASE queries' = [queries EXCEPT !["name"] = Unqueued(e)]
               /\ \E found \in BOOLEAN :
                     cache' = [cache EXCEPT ![e] = IF found THEN "ready" ELSE "absent"]
      BY <3>2, <3>3 DEF TypeOK, Caches
    <3>4. CASE queries' = [queries EXCEPT !["name"] = Retried(e)] /\ cache' = cache
      BY <1>3, <3>1, <3>2, <3>4
    <3> QED BY <3>1, <3>3, <3>4 DEF AnswerName
  <2>2. CASE e \notin Players
    <3>1. PICK found \in BOOLEAN : Complete(e, found)
      BY <2>2 DEF Answer, AnswerTemplate
    <3> QED BY <3>1 DEF Complete, TypeOK
  <2> QED BY <2>1, <2>2
<1>6. ASSUME NEW d \in Caches, NEW x \in EntriesOf(d)
      PROVE  Count(queries'[d], x)
               = Count(queries[d], x) + (IF x = e /\ cache'[e] = "pending" THEN 1 ELSE 0)
  <2>1. CASE cache'[e] # "pending"
    BY <1>5, <2>1, Counted
  <2>2. CASE cache'[e] = "pending"
    <3>1. queries' = [queries EXCEPT !["name"] = Append(queries["name"], e)] /\ c = "name"
      BY <1>5, <2>2
    <3>2. CASE d = "name"
      <4>1. /\ queries["name"] \in Seq(Entries)
            /\ queries'["name"] = Append(queries["name"], e)
        BY <3>1 DEF TypeOK, Caches
      <4>2. Count(queries'["name"], x) = Count(queries["name"], x) + (IF e = x THEN 1 ELSE 0)
        BY <4>1, CountAppend
      <4> QED BY <2>2, <3>2, <4>2
    <3>3. CASE d # "name"
      <4>1. x # e
        BY <1>1, <3>1, <3>3, EntriesFacts
      <4>2. queries'[d] = queries[d]
        BY <3>1, <3>3 DEF TypeOK
      <4> QED BY <4>1, <4>2, Counted
    <3> QED BY <3>2, <3>3
  <2> QED BY <2>1, <2>2
<1>7. ASSUME NEW d \in Caches, NEW x \in EntriesOf(d), x # e
      PROVE  /\ Count(queries'[d], x) = Count(queries[d], x) /\ asked'[x] = asked[x]
             /\ Count(channel', Query(d, x)) = Count(channel, Query(d, x))
             /\ cache'[x] = cache[x]
  <2>1. Count(queries'[d], x) = Count(queries[d], x)
    BY <1>6, <1>7, Counted
  <2> QED BY <1>2, <1>4, <1>5, <1>7, <2>1, EntriesFacts
<1>8. Count(queries'[c], e) + Count(channel', Query(c, e)) + asked'[e]
        = IF cache'[e] = "pending" THEN 1 ELSE 0
  <2>1. Count(queries'[c], e) = IF cache'[e] = "pending" THEN 1 ELSE 0
    BY <1>1, <1>3, <1>6
  <2> QED BY <1>2, <1>3, <1>4, <2>1
<1> QED BY <1>1, <1>7, <1>8, OneEntry

LEMMA StepInStep ==
    ASSUME TypeOK, QueriesInStep, [Next]_vars
    PROVE  QueriesInStep'
<1>1. CASE EndBatch
  <2>1. CASE applied
    <3>1. SynchronizeUnits /\ UNCHANGED <<channel, asked>>
      BY <1>1, <2>1 DEF EndBatch
    <3> QED BY <3>1, BindsUnits, BindInStep DEF Caches
  <2>2. CASE ~applied
    BY <1>1, <2>2 DEF EndBatch, caches, QueriesInStep, Underway
  <2> QED BY <2>1, <2>2
<1>2. CASE BindObjects
  <2>1. UNCHANGED <<channel, asked>>
    BY <1>2 DEF BindObjects
  <2> QED BY <1>2, <2>1, BindsObjects, BindInStep DEF Caches
<1>3. CASE Offer
  <2>1. PICK p \in Players :
          IF cache[p] = "absent"
          THEN /\ cache' = [cache EXCEPT ![p] = "pending"]
               /\ queries' = [queries EXCEPT !["name"] = Append(@, p)]
          ELSE UNCHANGED <<cache, queries>>
    BY <1>3 DEF Offer
  <2>2. channel' = channel /\ asked' = asked
    BY <1>3 DEF Offer
  <2>3. CASE cache[p] = "absent"
    <3>1. /\ p \in EntriesOf("name") /\ "name" \in Caches
          /\ queries["name"] \in Seq(EntriesOf("name"))
          /\ queries'["name"] = Append(queries["name"], p)
          /\ \A d \in Caches : d # "name" => queries'[d] = queries[d]
      BY <2>1, <2>3, EntriesFacts DEF Caches, TypeOK
    <3>2. /\ cache'[p] = "pending"
          /\ \A x \in Entries : x # p => cache'[x] = cache[x]
      BY <2>1, <2>3, <3>1, EntriesFacts DEF TypeOK
    <3>3. ASSUME NEW x
          PROVE  Count(queries'["name"], x) = Count(queries["name"], x) + (IF p = x THEN 1 ELSE 0)
      BY <3>1, CountAppend
    <3>4. ASSUME NEW d \in Caches, NEW x \in EntriesOf(d), x # p
          PROVE  /\ Count(queries'[d], x) = Count(queries[d], x) /\ asked'[x] = asked[x]
                 /\ Count(channel', Query(d, x)) = Count(channel, Query(d, x))
                 /\ cache'[x] = cache[x]
      <4>1. Count(queries'[d], x) = Count(queries[d], x)
        <5>1. Count(queries[d], x) \in Nat
          BY Counted
        <5>2. CASE d = "name"
          BY <3>3, <3>4, <5>1, <5>2
        <5>3. CASE d # "name"
          BY <3>1, <5>3
        <5> QED BY <5>2, <5>3
      <4> QED BY <2>2, <3>2, <3>4, <4>1, EntriesFacts
    <3>5. Count(queries'["name"], p) + Count(channel', Query("name", p)) + asked'[p]
            = IF cache'[p] = "pending" THEN 1 ELSE 0
      <4>1. Count(queries'["name"], p) = Count(queries["name"], p) + 1
        BY <3>3
      <4>2. Count(queries["name"], p) + Count(channel, Query("name", p)) + asked[p] = 0
            /\ Count(queries["name"], p) \in Nat /\ Count(channel, Query("name", p)) \in Nat
            /\ asked[p] \in Nat
        BY <2>3, <3>1, Counted
      <4> QED BY <2>2, <3>2, <4>1, <4>2
    <3>6. /\ "name" \in Caches /\ p \in EntriesOf("name")
          /\ \A d \in Caches : \A x \in EntriesOf(d) : x # p =>
                /\ Count(queries'[d], x) = Count(queries[d], x) /\ asked'[x] = asked[x]
                /\ Count(channel', Query(d, x)) = Count(channel, Query(d, x))
                /\ cache'[x] = cache[x]
      BY <3>1, <3>4
    <3> QED BY <3>5, <3>6, OneEntry
  <2>4. CASE cache[p] # "absent"
    BY <2>1, <2>2, <2>4 DEF QueriesInStep, Underway
  <2> QED BY <2>3, <2>4
<1>4. CASE Reenter
  <2> SUFFICES ASSUME NEW c \in Caches, NEW e \in EntriesOf(c)
               PROVE  Count(queries'[c], e) + Count(channel', Query(c, e)) + asked'[e]
                         = IF cache'[e] = "pending" THEN 1 ELSE 0
    BY DEF QueriesInStep, Underway
  <2>1. e \in Entries
    BY EntriesFacts
  <2>2. queries'[c] = <<>> /\ channel' = <<>> /\ asked'[e] = 0 /\ cache'[e] = "absent"
    BY <1>4, <2>1 DEF Reenter, Forgotten
  <2> QED BY <2>2, CountEmpty
<1>5. CASE ReplaceWorld \/ UpdateObjects \/ NewWorld \/ UNCHANGED vars
  BY <1>5 DEF ReplaceWorld, UpdateObjects, NewWorld, vars, caches, QueriesInStep, Underway
<1> QED BY <1>1, <1>2, <1>3, <1>4, <1>5, SendInStep, WriteInStep, AnswerInStep DEF Next, Frame

-----------------------------------------------------------------------------
(* Who waits is registered.                                                *)

LEMMA CompleteWaiters ==
    ASSUME TypeOK, WaitersRegistered, NEW e \in Entries, NEW found \in BOOLEAN,
           Complete(e, found)
    PROVE  WaitersRegistered'
<1> SUFFICES ASSUME NEW g \in Guids, bound'[g] # None, bound'[g].result = "waiting"
             PROVE  /\ cache'[bound'[g].entry] = "pending"
                    /\ \E call \in wanted'[bound'[g].entry] : call.guid = g /\ Alive(call, bound')
  BY DEF WaitersRegistered
<1>1. bound'[g] = bound[g]
  <2>1. CASE bound[g] # None /\ \E call \in wanted[e] : call.guid = g /\ Alive(call, bound)
    <3>1. bound'[g] = [bound[g] EXCEPT !.result = IF found THEN "template" ELSE "missing"]
      BY <2>1 DEF Complete
    <3>2. bound[g] \in Bindings
      BY <2>1, HeldTypes
    <3>3. bound'[g].result \in {"template", "missing"}
      BY <3>1, <3>2 DEF Bindings
    <3> QED BY <3>3
  <2>2. CASE ~(bound[g] # None /\ \E call \in wanted[e] : call.guid = g /\ Alive(call, bound))
    BY <2>2 DEF Complete
  <2> QED BY <2>1, <2>2
<1>2. /\ bound[g].entry \in Entries /\ cache[bound[g].entry] = "pending"
      /\ \E call \in wanted[bound[g].entry] : call.guid = g /\ Alive(call, bound)
  BY <1>1, HeldTypes DEF WaitersRegistered
<1>3. bound[g].entry # e
  <2> SUFFICES ASSUME bound[g].entry = e PROVE FALSE
    OBVIOUS
  <2>1. bound[g] # None /\ \E call \in wanted[e] : call.guid = g /\ Alive(call, bound)
    BY <1>1, <1>2
  <2>2. bound'[g] = [bound[g] EXCEPT !.result = IF found THEN "template" ELSE "missing"]
    BY <2>1 DEF Complete
  <2>3. bound[g] \in Bindings
    BY <2>1, HeldTypes
  <2>4. bound'[g].result \in {"template", "missing"}
    BY <2>2, <2>3 DEF Bindings
  <2> QED BY <2>4
<1>4. cache'[bound[g].entry] = "pending" /\ wanted'[bound[g].entry] = wanted[bound[g].entry]
  BY <1>2, <1>3 DEF Complete, TypeOK
<1>5. PICK call \in wanted[bound[g].entry] : call.guid = g /\ Alive(call, bound)
  BY <1>2
<1>6. Alive(call, bound')
  BY <1>1, <1>5 DEF Alive
<1> QED BY <1>1, <1>4, <1>5, <1>6

\* A step that leaves the bindings and the registrations alone and touches no entry a
\* creature or a game object may have.
LEMMA WaitersKept ==
    ASSUME TypeOK, WaitersRegistered, bound' = bound, wanted' = wanted,
           \A e \in Templates \union Designs : cache'[e] = cache[e]
    PROVE  WaitersRegistered'
BY HeldTypes, FitsFacts DEF WaitersRegistered, Alive

LEMMA StepWaiters ==
    ASSUME TypeOK, QueriesInStep, WaitersRegistered, [Next]_vars
    PROVE  WaitersRegistered'
<1>1. CASE EndBatch
  <2>1. CASE applied
    <3>1. SynchronizeUnits
      BY <1>1, <2>1 DEF EndBatch
    <3> QED BY <3>1, BindsUnits, BindWaiters DEF Caches
  <2>2. CASE ~applied
    BY <1>1, <2>2, WaitersKept DEF EndBatch, caches
  <2> QED BY <2>1, <2>2
<1>2. CASE BindObjects
  BY <1>2, BindsObjects, BindWaiters DEF Caches
<1>3. CASE Offer
  <2>1. \A e \in Templates \union Designs : cache'[e] = cache[e]
    BY <1>3, QueriesAssumption, EntriesFacts DEF Offer, TypeOK
  <2> QED BY <1>3, <2>1, WaitersKept DEF Offer
<1>4. CASE ReplaceWorld \/ Reenter
  <2>1. \A g \in Guids : bound'[g] = None
    BY <1>4 DEF ReplaceWorld, Reenter, Unbound
  <2> QED BY <2>1 DEF WaitersRegistered
<1>5. ASSUME NEW e \in Entries, Answer(e)
      PROVE  WaitersRegistered'
  <2>1. CASE e \in Players
    <3>1. \A x \in Templates \union Designs : cache'[x] = cache[x]
      BY <1>5, <2>1, QueriesAssumption, EntriesFacts DEF Answer, AnswerName, TypeOK
    <3> QED BY <1>5, <2>1, <3>1, WaitersKept DEF Answer, AnswerName
  <2>2. CASE e \notin Players
    BY <1>5, <2>2, CompleteWaiters DEF Answer, AnswerTemplate
  <2> QED BY <2>1, <2>2
<1>6. ASSUME NEW c \in Caches, SendQueries(c)
      PROVE  WaitersRegistered'
  BY <1>6, WaitersKept DEF SendQueries
<1>7. CASE Write \/ UpdateObjects \/ NewWorld \/ UNCHANGED vars
  BY <1>7, WaitersKept DEF Write, UpdateObjects, NewWorld, vars, caches
<1> QED BY <1>1, <1>2, <1>3, <1>4, <1>5, <1>6, <1>7 DEF Next, Frame

-----------------------------------------------------------------------------
(* Creatures are bound as they are.                                        *)

\* A step that changes neither what creatures are nor how they are bound.
LEMMA UnitsKept ==
    ASSUME UnitsBound, \A g \in Units : present'[g] = present[g],
           \A g \in Units : (bound'[g] = None <=> bound[g] = None)
                           /\ (bound[g] # None => /\ bound'[g].life = bound[g].life
                                                  /\ bound'[g].entry = bound[g].entry)
    PROVE  UnitsBound'
BY DEF UnitsBound, Current

LEMMA BindUnits ==
    ASSUME TypeOK, SynchronizeUnits, present' = present
    PROVE  UnitsBound'
<1>1. PICK kept, new :
        /\ Keeps(kept) /\ BindAll("creature", kept, new)
        /\ kept = [g \in Guids |-> IF g \in Units /\ ~Current(g) THEN None ELSE bound[g]]
        /\ new = Newcomers(kept, Units)
  BY BindsUnits
<1> SUFFICES ASSUME NEW g \in Units
             PROVE  IF present[g] = None THEN bound'[g] = None
                    ELSE /\ bound'[g] # None /\ bound'[g].life = present[g].life
                         /\ bound'[g].entry = present[g].entry
  BY DEF UnitsBound, Current
<1>2. g \in Guids /\ kept[g] = IF Current(g) THEN bound[g] ELSE None
  BY <1>1, FitsFacts
<1>3. CASE g \in new
  <2>1. bound'[g] = Binding(g) /\ present[g] # None
    <3>1. present[g] # None
      BY <1>1, <1>3 DEF Newcomers
    <3>2. bound' = [h \in Guids |-> IF h \in new THEN Binding(h) ELSE kept[h]]
      BY <1>1, BindUnfolds
    <3> QED BY <1>2, <1>3, <3>1, <3>2
  <2>2. Binding(g) \in Bindings
    BY <1>2, <2>1, HeldTypes, FitsFacts DEF Binding, Bindings
  <2> QED BY <2>1, <2>2, NoneAssumption DEF Binding
<1>4. CASE g \notin new
  <2>1. bound'[g] = kept[g]
    BY <1>1, <1>2, <1>4, BindUnfolds
  <2>2. kept[g] # None \/ present[g] = None
    BY <1>1, <1>4 DEF Newcomers
  <2> QED BY <1>2, <2>1, <2>2 DEF Current
<1> QED BY <1>3, <1>4

LEMMA StepUnits ==
    ASSUME TypeOK, UnitsInv, [Next]_vars
    PROVE  UnitsInv'
<1>1. CASE EndBatch
  <2>1. ~applied' /\ present' = present
    BY <1>1 DEF EndBatch
  <2>2. CASE applied
    BY <1>1, <2>1, <2>2, BindUnits DEF EndBatch, UnitsInv
  <2>3. CASE ~applied
    BY <1>1, <2>1, <2>3, UnitsKept DEF EndBatch, UnitsInv, caches
  <2> QED BY <2>2, <2>3
<1>2. CASE BindObjects
  <2>1. \A g \in Units : bound'[g] = bound[g]
    <3>1. PICK kept, new :
            /\ BindAll("gameObject", kept, new)
            /\ kept = [g \in Guids |-> IF g \in Objects /\ Vanished(g) THEN None ELSE bound[g]]
            /\ new \subseteq Objects
      BY <1>2, BindsObjects
    <3>2. \A g \in Units : g \in Guids /\ g \notin Objects /\ g \notin new
      BY <3>1, FitsFacts
    <3> QED BY <3>1, <3>2, BindUnfolds
  <2>2. present' = present /\ applied' = applied /\ at = "bind"
    BY <1>2 DEF BindObjects, batch
  <2> QED BY <2>1, <2>2, UnitsKept DEF UnitsInv
<1>3. CASE ReplaceWorld \/ Reenter
  <2>1. \A g \in Units : present'[g] = None /\ bound'[g] = None
    BY <1>3, FitsFacts DEF ReplaceWorld, Reenter, Unbound
  <2>2. ~applied'
    BY <1>3 DEF ReplaceWorld, Reenter, UnitsInv
  <2> QED BY <2>1, <2>2 DEF UnitsInv, UnitsBound
<1>4. CASE UpdateObjects
  BY <1>4 DEF UpdateObjects, UnitsInv
<1>5. ASSUME NEW e \in Entries, Answer(e)
      PROVE  UnitsInv'
  <2>1. at' = at /\ applied' = applied /\ present' = present
    BY <1>5 DEF Answer, AnswerName, AnswerTemplate, batch
  <2>2. \A g \in Units : (bound'[g] = None <=> bound[g] = None)
                        /\ (bound[g] # None => /\ bound'[g].life = bound[g].life
                                               /\ bound'[g].entry = bound[g].entry)
    <3>1. CASE e \in Players
      BY <1>5, <3>1 DEF Answer, AnswerName
    <3>2. CASE e \notin Players
      <4>1. PICK found \in BOOLEAN : Complete(e, found)
        BY <1>5, <3>2 DEF Answer, AnswerTemplate
      <4> TAKE g \in Units
      <4>2. g \in Guids
        BY FitsFacts
      <4>3. CASE bound'[g] = bound[g]
        BY <4>3
      <4>4. CASE bound'[g] # bound[g]
        <5>1. /\ bound[g] # None
              /\ bound'[g] = [bound[g] EXCEPT !.result = IF found THEN "template" ELSE "missing"]
          BY <4>1, <4>2, <4>4 DEF Complete
        <5>2. bound[g] \in Bindings
          BY <4>2, <5>1, HeldTypes
        <5>3. bound'[g] \in Bindings /\ bound'[g].life = bound[g].life /\ bound'[g].entry = bound[g].entry
          BY <5>1, <5>2 DEF Bindings
        <5> QED BY <5>1, <5>3, NoneAssumption
      <4> QED BY <4>3, <4>4
    <3> QED BY <3>1, <3>2
  <2> QED BY <2>1, <2>2, UnitsKept DEF UnitsInv
<1>6. ASSUME NEW c \in Caches, SendQueries(c)
      PROVE  UnitsInv'
  <2>1. applied' = applied /\ present' = present /\ bound' = bound /\ at # "packets"
    BY <1>6 DEF SendQueries, batch, Caches
  <2> QED BY <2>1, UnitsKept DEF UnitsInv
<1>7. CASE Write \/ Offer \/ NewWorld \/ UNCHANGED vars
  <2>1. at' = at /\ applied' = applied /\ present' = present /\ bound' = bound
    BY <1>7 DEF Write, Offer, NewWorld, vars, batch, caches
  <2> QED BY <2>1, UnitsKept DEF UnitsInv
<1> QED BY <1>1, <1>2, <1>3, <1>4, <1>5, <1>6, <1>7 DEF Next, Frame

LEMMA StepWorld ==
    ASSUME WorldInv, [Next]_vars
    PROVE  WorldInv'
<1>1. CASE Frame
  BY <1>1 DEF Frame, EndBatch, ReplaceWorld, BindObjects, SendQueries, WorldInv, After, Caches, batch
<1>2. CASE Write \/ UpdateObjects \/ Offer \/ NewWorld \/ Reenter \/ UNCHANGED vars
  BY <1>2 DEF Write, UpdateObjects, Offer, NewWorld, Reenter, WorldInv, batch, vars
<1>3. ASSUME NEW e \in Entries, Answer(e)
      PROVE  WorldInv'
  BY <1>3 DEF Answer, AnswerName, AnswerTemplate, WorldInv, batch
<1> QED BY <1>1, <1>2, <1>3 DEF Next

-----------------------------------------------------------------------------
(* The theorems.                                                           *)

\* Through any churn of objects, entries and worlds the questions are counted, the
\* waiters registered and the creatures bound.
THEOREM CachesInvariant == Spec => []QueriesInv
<1>1. Init => QueriesInv
  <2> SUFFICES ASSUME Init PROVE QueriesInv
    OBVIOUS
  <2>1. WorldTypes /\ CacheTypes /\ WireTypes
    BY QueriesAssumption, FitsFacts DEF Init, WorldTypes, CacheTypes, WireTypes
  <2>2. TypeOK
    BY <2>1, TypeParts DEF Init
  <2>3. QueriesInStep
    <3> SUFFICES ASSUME NEW c \in Caches, NEW e \in EntriesOf(c)
                 PROVE  Count(queries[c], e) + Count(channel, Query(c, e)) + asked[e]
                           = IF cache[e] = "pending" THEN 1 ELSE 0
      BY DEF QueriesInStep, Underway
    <3>1. queries[c] = <<>> /\ channel = <<>> /\ asked[e] = 0 /\ cache[e] = "absent"
      BY EntriesFacts DEF Init
    <3> QED BY <3>1, CountEmpty
  <2>4. WaitersRegistered /\ UnitsInv /\ WorldInv
    BY FitsFacts DEF Init, WaitersRegistered, UnitsInv, UnitsBound, WorldInv
  <2> QED BY <2>2, <2>3, <2>4 DEF QueriesInv
<1>2. QueriesInv /\ [Next]_vars => QueriesInv'
  BY StepTyped, StepInStep, StepWaiters, StepUnits, StepWorld DEF QueriesInv
<1> QED BY <1>1, <1>2, PTL DEF Spec

\* Every variable has its type, and the writer channel keeps its capacity.
THEOREM TypeCorrect == Spec => []TypeOK
BY CachesInvariant, PTL DEF QueriesInv

\* Nothing is asked twice and nothing waits for a question never sent, for any number
\* of objects and entries and any capacity of the writer (template_cache.rs,
\* player_names.rs, request_admitted).
THEOREM AskedExactlyOnce == Spec => []QueriesInStep
BY CachesInvariant, PTL DEF QueriesInv

\* Whoever holds an unanswered binding will be called (TemplateCache::complete).
THEOREM WaitersCalled == Spec => []WaitersRegistered
BY CachesInvariant, PTL DEF QueriesInv

\* Creatures are bound to the lifetime and entry they have
\* (CreatureTemplateCache::synchronize_world).
THEOREM UnitsBoundAsShown == Spec => []UnitsFollow
<1>1. QueriesInv => UnitsFollow
  BY DEF QueriesInv, UnitsInv, UnitsBound, UnitsFollow
<1> QED BY <1>1, CachesInvariant, PTL
=============================================================================
