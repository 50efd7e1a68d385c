-------------------------- MODULE WorldOutboxProofs --------------------------
(***************************************************************************)
(* Theorems about WorldOutbox for every capacity of the writer channel and *)
(* every number of requests and worlds.                                    *)
(*                                                                         *)
(* The argument: the requests of a source stand in one line, in the order  *)
(* of their numbers, from those written over those in the channel to those *)
(* retained, and each step moves the line's borders or gives its tail up   *)
(* (InLine).  Of the logout requests the last one decides (LogoutInv).     *)
(* Output of movement belongs to its owner's world (WorldInv).             *)
(***************************************************************************)
EXTENDS WorldOutbox, SequenceTheorems, TLAPS

\* The line of source s: of m requests made those in D were given up, S are
\* the numbers written, C is the channel and O what is retained.
InLine(s, m, D, S, C, O) ==
    /\ D \subseteq 1..m /\ (D # {} => s \in {"movement", "death"})
    /\ \A i, j \in 1..Len(S) : i < j => S[i] < S[j]
    /\ \A i, j \in 1..Len(C) :
          i < j /\ C[i].source = s /\ C[j].source = s => C[i].number < C[j].number
    /\ \A i, j \in 1..Len(O) : i < j => O[i].number < O[j].number
    /\ \A i \in 1..Len(S) :
        /\ S[i] \in (1..m) \ D
        /\ \A j \in 1..Len(C) : C[j].source = s => S[i] < C[j].number
        /\ \A j \in 1..Len(O) : S[i] < O[j].number
    /\ \A i \in 1..Len(C) : C[i].source = s =>
        /\ C[i].number \in (1..m) \ D
        /\ \A j \in 1..Len(O) : C[i].number < O[j].number
    /\ \A i \in 1..Len(O) : O[i].number \in (1..m) \ D
    /\ \A k \in (1..m) \ D :
        \/ \E i \in 1..Len(S) : S[i] = k
        \/ \E i \in 1..Len(C) : C[i].source = s /\ C[i].number = k
        \/ \E i \in 1..Len(O) : O[i].number = k

\* E has the numbers of D and those in queue O.
Joined(D, O, E) == \A k : k \in E <=> k \in D \/ \E i \in 1..Len(O) : O[i].number = k

LineInv ==
    \A s \in Sources : InLine(s, made[s], dropped[s], sent[s], channel, outbox[s])

\* Requests to log out and their cancellations.
Asks(seq, kind, i) == seq[i].source = "logout" /\ seq[i].kind = kind
Asked(seq) == \E i \in 1..Len(seq) : Asks(seq, "request", i)
Undone(seq, i) ==
    Asks(seq, "cancel", i) /\ ~\E j \in 1..Len(seq) : i < j /\ Asks(seq, "request", j)
LogoutInv ==
    pending =>
      /\ \A i \in 1..Len(outbox["logout"]) : ~Undone(outbox["logout"], i)
      /\ \A i \in 1..Len(channel) : Undone(channel, i) => Asked(outbox["logout"])
      /\ \/ Asked(outbox["logout"]) \/ Asked(channel)
         \/ IF server.answers = <<>> THEN server.logging
            ELSE server.answers[Len(server.answers)] = "accepted" => server.logging

\* The worlds retained requests belong to.
WorldInv ==
    /\ \A i \in 1..Len(outbox["death"]) : outbox["death"][i].world = world
    /\ \A i \in 1..Len(outbox["movement"]) : outbox["movement"][i].kind # "early" =>
          owner # None /\ outbox["movement"][i].world = owner
    /\ at \notin {"packets", "move"} => owner \in {None, world}

OutboxInv == TypeOK /\ LineInv /\ LogoutInv /\ WorldInv
-----------------------------------------------------------------------------
(* Sequences.                                                              *)

LEMMA AppendFacts ==
    ASSUME NEW T, NEW seq \in Seq(T), NEW e \in T
    PROVE  /\ Append(seq, e) \in Seq(T) /\ Len(Append(seq, e)) = Len(seq) + 1
           /\ Len(seq) \in Nat
           /\ \A i \in 1..Len(seq) : Append(seq, e)[i] = seq[i] /\ i \in 1..Len(Append(seq, e))
           /\ Append(seq, e)[Len(seq) + 1] = e /\ Len(seq) + 1 \in 1..Len(Append(seq, e))
           /\ \A i \in 1..Len(Append(seq, e)) : i \in 1..Len(seq) \/ i = Len(seq) + 1
<1>1. Append(seq, e) \in Seq(T) /\ Len(Append(seq, e)) = Len(seq) + 1
  BY AppendProperties
<1>2. Len(seq) \in Nat
  OBVIOUS
<1>3. /\ \A i \in 1..Len(seq) : Append(seq, e)[i] = seq[i]
      /\ Append(seq, e)[Len(seq) + 1] = e
  BY AppendProperties
<1> QED BY <1>1, <1>2, <1>3

LEMMA TailFacts ==
    ASSUME NEW T, NEW seq \in Seq(T), seq # <<>>
    PROVE  /\ Tail(seq) \in Seq(T) /\ Len(Tail(seq)) = Len(seq) - 1
           /\ Head(seq) = seq[1] /\ Head(seq) \in T /\ 1 \in 1..Len(seq) /\ Len(seq) \in Nat
           /\ \A i \in 1..Len(Tail(seq)) : Tail(seq)[i] = seq[i + 1] /\ i + 1 \in 1..Len(seq)
           /\ \A i \in 1..Len(seq) : i = 1 \/ (i - 1 \in 1..Len(Tail(seq)) /\ Tail(seq)[i - 1] = seq[i])
<1>1. Tail(seq) \in Seq(T) /\ Len(Tail(seq)) = Len(seq) - 1 /\ Head(seq) \in T
  BY HeadTailProperties
<1>2. \A i \in 1..Len(Tail(seq)) : Tail(seq)[i] = seq[i + 1]
  BY HeadTailProperties
<1>3. Len(seq) \in Nat /\ Len(seq) # 0
  BY EmptySeq
<1>4. Head(seq) = seq[1]
  OBVIOUS
<1>5. \A i \in 1..Len(seq) : i = 1 \/ (i - 1 \in 1..Len(Tail(seq)) /\ Tail(seq)[i - 1] = seq[i])
  <2> TAKE i \in 1..Len(seq)
  <2>1. CASE i # 1
    <3>1. i - 1 \in 1..Len(Tail(seq)) /\ (i - 1) + 1 = i
      BY <1>1, <1>3, <2>1
    <3> QED BY <1>2, <3>1
  <2> QED BY <2>1
<1> QED BY <1>1, <1>2, <1>3, <1>4, <1>5
-----------------------------------------------------------------------------
(* One line.                                                               *)

\* A request is made and retained.
LEMMA LineQueue ==
    ASSUME NEW s, NEW m \in Nat, NEW D, NEW S \in Seq(Nat), NEW C \in Seq(Requests),
           NEW O \in Seq(Requests), NEW r \in Requests, r.number = m + 1,
           InLine(s, m, D, S, C, O)
    PROVE  InLine(s, m + 1, D, S, C, Append(O, r))
<1> DEFINE P == Append(O, r)
<1>1. /\ P \in Seq(Requests) /\ Len(P) = Len(O) + 1 /\ Len(O) \in Nat
      /\ \A i \in 1..Len(O) : P[i] = O[i] /\ i \in 1..Len(P)
      /\ P[Len(O) + 1] = r /\ Len(O) + 1 \in 1..Len(P)
      /\ \A i \in 1..Len(P) : i \in 1..Len(O) \/ i = Len(O) + 1
  BY AppendFacts
<1> HIDE DEF P
<1>2. (1..m) \ D \subseteq (1..(m + 1)) \ D /\ m + 1 \in (1..(m + 1)) \ D /\ D \subseteq 1..(m + 1)
  BY DEF InLine
<1>3. \A k \in (1..m) \ D : k \in Int /\ k < m + 1
  OBVIOUS
<1>4. \A i, j \in 1..Len(P) : i < j => P[i].number < P[j].number
  <2> SUFFICES ASSUME NEW i \in 1..Len(P), NEW j \in 1..Len(P), i < j
               PROVE  P[i].number < P[j].number
    OBVIOUS
  <2>1. i \in 1..Len(O)
    BY <1>1
  <2>2. P[i].number < m + 1
    BY <1>1, <1>3, <2>1 DEF InLine
  <2> QED BY <1>1, <2>1, <2>2 DEF InLine
<1>5. \A i \in 1..Len(S) : \A j \in 1..Len(P) : S[i] < P[j].number
  <2> TAKE i \in 1..Len(S)
  <2> TAKE j \in 1..Len(P)
  <2>1. S[i] < m + 1 /\ \A l \in 1..Len(O) : S[i] < O[l].number
    BY <1>3 DEF InLine
  <2> QED BY <1>1, <2>1
<1>6. \A i \in 1..Len(C) : C[i].source = s => \A j \in 1..Len(P) : C[i].number < P[j].number
  <2> SUFFICES ASSUME NEW i \in 1..Len(C), C[i].source = s, NEW j \in 1..Len(P)
               PROVE  C[i].number < P[j].number
    OBVIOUS
  <2>1. C[i].number < m + 1 /\ \A l \in 1..Len(O) : C[i].number < O[l].number
    BY <1>3 DEF InLine
  <2> QED BY <1>1, <2>1
<1>7. \A i \in 1..Len(P) : P[i].number \in (1..(m + 1)) \ D
  BY <1>1, <1>2 DEF InLine
<1>8. \A k \in (1..(m + 1)) \ D :
        \/ \E i \in 1..Len(S) : S[i] = k
        \/ \E i \in 1..Len(C) : C[i].source = s /\ C[i].number = k
        \/ \E i \in 1..Len(P) : P[i].number = k
  <2> TAKE k \in (1..(m + 1)) \ D
  <2>1. CASE k = m + 1
    BY <1>1, <2>1
  <2>2. CASE k \in (1..m) \ D
    BY <1>1, <2>2 DEF InLine
  <2> QED BY SMTT(30), <2>1, <2>2
<1>9. InLine(s, m + 1, D, S, C, P)
  BY <1>2, <1>4, <1>5, <1>6, <1>7, <1>8 DEF InLine
<1> QED BY <1>9 DEF P

\* The retained requests are given up.
LEMMA LineGiveUp ==
    ASSUME NEW s \in {"movement", "death"}, NEW m \in Nat, NEW D, NEW S \in Seq(Nat),
           NEW C \in Seq(Requests), NEW O \in Seq(Requests), InLine(s, m, D, S, C, O),
           NEW E, Joined(D, O, E), NEW P, P = <<>>
    PROVE  InLine(s, m, E, S, C, P)
<1>1. E \subseteq 1..m
  BY DEF InLine, Joined
<1>2. \A i \in 1..Len(S) : S[i] \in (1..m) \ E
  <2> TAKE i \in 1..Len(S)
  <2>1. S[i] \in (1..m) \ D
    BY DEF InLine, Joined
  <2>2. \A j \in 1..Len(O) : S[i] # O[j].number
    <3> TAKE j \in 1..Len(O)
    <3>1. \A l \in 1..Len(S) : S[l] < O[j].number
      BY DEF InLine
    <3>2. S[i] < O[j].number
      BY <3>1
    <3>3. S[i] \in Nat
      BY <2>1
    <3> QED BY <3>2, <3>3
  <2> QED BY <2>1, <2>2 DEF Joined
<1>3. \A i \in 1..Len(C) : C[i].source = s => C[i].number \in (1..m) \ E
  <2> TAKE i \in 1..Len(C)
  <2> HAVE C[i].source = s
  <2>1. C[i].number \in (1..m) \ D
    BY DEF InLine, Joined
  <2>2. \A j \in 1..Len(O) : C[i].number # O[j].number
    <3> TAKE j \in 1..Len(O)
    <3>1. \A l \in 1..Len(C) : C[l].source = s => C[l].number < O[j].number
      BY DEF InLine
    <3>2. C[i].number < O[j].number
      BY <3>1
    <3>3. C[i].number \in Nat
      BY <2>1
    <3> QED BY <3>2, <3>3
  <2> QED BY <2>1, <2>2 DEF Joined
<1>4. \A k \in (1..m) \ E :
        \/ \E i \in 1..Len(S) : S[i] = k
        \/ \E i \in 1..Len(C) : C[i].source = s /\ C[i].number = k
  BY DEF InLine, Joined
<1>5. \A i : i \notin 1..Len(P)
  OBVIOUS
<1> QED BY <1>1, <1>2, <1>3, <1>4, <1>5 DEF InLine

\* A request that is admitted to the channel leaves the queue.
LEMMA LineSend ==
    ASSUME NEW s, NEW m \in Nat, NEW D, NEW S \in Seq(Nat), NEW C \in Seq(Requests),
           NEW O \in Seq(Requests), O # <<>>, Head(O).source = s, InLine(s, m, D, S, C, O)
    PROVE  InLine(s, m, D, S, Append(C, Head(O)), Tail(O))
<1> DEFINE B == Append(C, Head(O))
           P == Tail(O)
<1>1. /\ P \in Seq(Requests) /\ Len(P) = Len(O) - 1 /\ Len(O) \in Nat
      /\ Head(O) = O[1] /\ Head(O) \in Requests /\ 1 \in 1..Len(O)
      /\ \A i \in 1..Len(P) : P[i] = O[i + 1] /\ i + 1 \in 1..Len(O)
      /\ \A i \in 1..Len(O) : i = 1 \/ (i - 1 \in 1..Len(P) /\ P[i - 1] = O[i])
  BY TailFacts
<1>2. /\ Len(B) = Len(C) + 1 /\ Len(C) \in Nat
      /\ \A i \in 1..Len(C) : B[i] = C[i] /\ i \in 1..Len(B)
      /\ B[Len(C) + 1] = O[1] /\ Len(C) + 1 \in 1..Len(B)
      /\ \A i \in 1..Len(B) : i \in 1..Len(C) \/ i = Len(C) + 1
  BY <1>1, AppendFacts
<1> HIDE DEF B, P
<1>3. O[1].source = s
  BY <1>1
<1>4. \A i, j \in 1..Len(B) :
          i < j /\ B[i].source = s /\ B[j].source = s => B[i].number < B[j].number
  <2> SUFFICES ASSUME NEW i \in 1..Len(B), NEW j \in 1..Len(B),
                      i < j, B[i].source = s, B[j].source = s
               PROVE  B[i].number < B[j].number
    OBVIOUS
  <2>1. i \in 1..Len(C)
    BY <1>2
  <2>2. CASE j \in 1..Len(C)
    BY <1>2, <2>1, <2>2 DEF InLine
  <2>3. CASE j = Len(C) + 1
    BY <1>1, <1>2, <2>1, <2>3 DEF InLine
  <2> QED BY <1>2, <2>2, <2>3
<1>5. \A i, j \in 1..Len(P) : i < j => P[i].number < P[j].number
  <2> SUFFICES ASSUME NEW i \in 1..Len(P), NEW j \in 1..Len(P), i < j
               PROVE  P[i].number < P[j].number
    OBVIOUS
  <2>1. i + 1 < j + 1 /\ i + 1 \in 1..Len(O) /\ j + 1 \in 1..Len(O)
    BY <1>1
  <2> QED BY <1>1, <2>1 DEF InLine
<1>6. \A i \in 1..Len(S) :
        /\ \A j \in 1..Len(B) : B[j].source = s => S[i] < B[j].number
        /\ \A j \in 1..Len(P) : S[i] < P[j].number
  <2> TAKE i \in 1..Len(S)
  <2>1. /\ \A j \in 1..Len(C) : C[j].source = s => S[i] < C[j].number
        /\ \A j \in 1..Len(O) : S[i] < O[j].number
    BY DEF InLine
  <2>2. \A j \in 1..Len(B) : B[j].source = s => S[i] < B[j].number
    BY <1>1, <1>2, <2>1
  <2>3. \A j \in 1..Len(P) : S[i] < P[j].number
    BY <1>1, <2>1
  <2> QED BY <2>2, <2>3
<1>7. \A j \in 1..Len(P) : O[1].number < P[j].number
  <2> TAKE j \in 1..Len(P)
  <2>1. 1 < j + 1 /\ j + 1 \in 1..Len(O) /\ P[j] = O[j + 1]
    BY <1>1
  <2> QED BY <1>1, <2>1 DEF InLine
<1>8. \A i \in 1..Len(B) : B[i].source = s =>
        /\ B[i].number \in (1..m) \ D
        /\ \A j \in 1..Len(P) : B[i].number < P[j].number
  <2> TAKE i \in 1..Len(B)
  <2> HAVE B[i].source = s
  <2>1. CASE i \in 1..Len(C)
    <3>1. C[i].number \in (1..m) \ D /\ \A j \in 1..Len(O) : C[i].number < O[j].number
      BY <1>2, <2>1 DEF InLine
    <3> QED BY <1>1, <1>2, <2>1, <3>1
  <2>2. CASE i = Len(C) + 1
    <3>1. O[1].number \in (1..m) \ D
      BY <1>1 DEF InLine
    <3> QED BY <1>2, <1>7, <2>2, <3>1
  <2> QED BY <1>2, <2>1, <2>2
<1>9. \A i \in 1..Len(P) : P[i].number \in (1..m) \ D
  BY <1>1 DEF InLine
<1>10. \A k \in (1..m) \ D :
        \/ \E i \in 1..Len(S) : S[i] = k
        \/ \E i \in 1..Len(B) : B[i].source = s /\ B[i].number = k
        \/ \E i \in 1..Len(P) : P[i].number = k
  <2> TAKE k \in (1..m) \ D
  <2>1. CASE \E i \in 1..Len(C) : C[i].source = s /\ C[i].number = k
    BY <1>2, <2>1
  <2>2. CASE \E i \in 1..Len(O) : O[i].number = k
    <3>1. PICK i \in 1..Len(O) : O[i].number = k
      BY <2>2
    <3>2. CASE i = 1
      BY <1>2, <1>3, <3>1, <3>2
    <3>3. CASE i # 1
      BY <1>1, <3>1, <3>3
    <3> QED BY <3>2, <3>3
  <2> QED BY <2>1, <2>2 DEF InLine
<1>11. InLine(s, m, D, S, B, P)
  BY <1>4, <1>5, <1>6, <1>8, <1>9, <1>10 DEF InLine
<1> QED BY <1>11 DEF B, P

\* The request of another source joins the channel.
LEMMA LineSendOther ==
    ASSUME NEW s, NEW m \in Nat, NEW D, NEW S \in Seq(Nat), NEW C \in Seq(Requests),
           NEW O \in Seq(Requests), NEW r \in Requests, r.source # s, InLine(s, m, D, S, C, O)
    PROVE  InLine(s, m, D, S, Append(C, r), O)
<1> DEFINE B == Append(C, r)
<1>1. /\ \A i \in 1..Len(C) : B[i] = C[i] /\ i \in 1..Len(B)
      /\ \A i \in 1..Len(B) : B[i].source = s => i \in 1..Len(C)
  BY AppendFacts
<1> HIDE DEF B
<1>2. InLine(s, m, D, S, B, O)
  BY <1>1 DEF InLine
<1> QED BY <1>2 DEF B

\* The oldest command of the channel is written.
LEMMA LineWrite ==
    ASSUME NEW s, NEW m \in Nat, NEW D, NEW S \in Seq(Nat), NEW C \in Seq(Requests),
           NEW O \in Seq(Requests), C # <<>>, Head(C).source = s, InLine(s, m, D, S, C, O)
    PROVE  InLine(s, m, D, Append(S, Head(C).number), Tail(C), O)
<1> DEFINE B == Tail(C)
           R == Append(S, Head(C).number)
<1>1. /\ B \in Seq(Requests) /\ Len(B) = Len(C) - 1 /\ Len(C) \in Nat
      /\ Head(C) = C[1] /\ Head(C) \in Requests /\ 1 \in 1..Len(C)
      /\ \A i \in 1..Len(B) : B[i] = C[i + 1] /\ i + 1 \in 1..Len(C)
      /\ \A i \in 1..Len(C) : i = 1 \/ (i - 1 \in 1..Len(B) /\ B[i - 1] = C[i])
  BY TailFacts
<1>2. Head(C).number \in Nat
  BY <1>1 DEF Requests
<1>3. /\ Len(R) = Len(S) + 1 /\ Len(S) \in Nat
      /\ \A i \in 1..Len(S) : R[i] = S[i] /\ i \in 1..Len(R)
      /\ R[Len(S) + 1] = C[1].number /\ Len(S) + 1 \in 1..Len(R)
      /\ \A i \in 1..Len(R) : i \in 1..Len(S) \/ i = Len(S) + 1
  BY <1>1, <1>2, AppendFacts
<1> HIDE DEF B, R
<1>4. C[1].source = s
  BY <1>1
<1>5. \A i, j \in 1..Len(R) : i < j => R[i] < R[j]
  <2> SUFFICES ASSUME NEW i \in 1..Len(R), NEW j \in 1..Len(R), i < j
               PROVE  R[i] < R[j]
    OBVIOUS
  <2>1. i \in 1..Len(S)
    BY <1>3
  <2>2. CASE j \in 1..Len(S)
    BY <1>3, <2>1, <2>2 DEF InLine
  <2>3. CASE j = Len(S) + 1
    BY <1>1, <1>3, <1>4, <2>1, <2>3 DEF InLine
  <2> QED BY <1>3, <2>2, <2>3
<1>6. \A j \in 1..Len(B) : B[j].source = s => C[1].number < B[j].number
  <2> TAKE j \in 1..Len(B)
  <2>1. 1 < j + 1 /\ j + 1 \in 1..Len(C) /\ B[j] = C[j + 1]
    BY <1>1
  <2> QED BY <1>1, <1>4, <2>1 DEF InLine
<1>7. \A i, j \in 1..Len(B) :
          i < j /\ B[i].source = s /\ B[j].source = s => B[i].number < B[j].number
  <2> SUFFICES ASSUME NEW i \in 1..Len(B), NEW j \in 1..Len(B),
                      i < j, B[i].source = s, B[j].source = s
               PROVE  B[i].number < B[j].number
    OBVIOUS
  <2>1. i + 1 < j + 1 /\ i + 1 \in 1..Len(C) /\ j + 1 \in 1..Len(C)
    BY <1>1
  <2> QED BY SMTT(30), <1>1, <2>1 DEF InLine
<1>8. \A i \in 1..Len(R) :
        /\ R[i] \in (1..m) \ D
        /\ \A j \in 1..Len(B) : B[j].source = s => R[i] < B[j].number
        /\ \A j \in 1..Len(O) : R[i] < O[j].number
  <2> TAKE i \in 1..Len(R)
  <2>1. CASE i \in 1..Len(S)
    <3>1. /\ S[i] \in (1..m) \ D
          /\ \A j \in 1..Len(C) : C[j].source = s => S[i] < C[j].number
          /\ \A j \in 1..Len(O) : S[i] < O[j].number
      BY <2>1 DEF InLine
    <3>2. R[i] = S[i] /\ \A j \in 1..Len(O) : R[i] < O[j].number
      BY <1>3, <2>1, <3>1
    <3>3. \A j \in 1..Len(B) : B[j].source = s => S[i] < B[j].number
      BY <1>1, <3>1
    <3> QED BY <3>1, <3>2, <3>3
  <2>2. CASE i = Len(S) + 1
    <3>1. C[1].number \in (1..m) \ D /\ \A j \in 1..Len(O) : C[1].number < O[j].number
      BY <1>1, <1>4 DEF InLine
    <3> QED BY <1>3, <1>6, <2>2, <3>1
  <2> QED BY <1>3, <2>1, <2>2
<1>9. \A i \in 1..Len(B) : B[i].source = s =>
        /\ B[i].number \in (1..m) \ D
        /\ \A j \in 1..Len(O) : B[i].number < O[j].number
  BY <1>1 DEF InLine
<1>10. \A k \in (1..m) \ D :
        \/ \E i \in 1..Len(R) : R[i] = k
        \/ \E i \in 1..Len(B) : B[i].source = s /\ B[i].number = k
        \/ \E i \in 1..Len(O) : O[i].number = k
  <2> TAKE k \in (1..m) \ D
  <2>1. CASE \E i \in 1..Len(S) : S[i] = k
    BY <1>3, <2>1
  <2>2. CASE \E i \in 1..Len(C) : C[i].source = s /\ C[i].number = k
    <3>1. PICK i \in 1..Len(C) : C[i].source = s /\ C[i].number = k
      BY <2>2
    <3>2. CASE i = 1
      BY <1>3, <3>1, <3>2
    <3>3. CASE i # 1
      BY <1>1, <3>1, <3>3
    <3> QED BY <3>2, <3>3
  <2> QED BY <2>1, <2>2 DEF InLine
<1>11. InLine(s, m, D, R, B, O)
  BY <1>5, <1>7, <1>8, <1>9, <1>10 DEF InLine
<1> QED BY <1>11 DEF B, R

\* The command of another source is written.
LEMMA LineWriteOther ==
    ASSUME NEW s, NEW m \in Nat, NEW D, NEW S \in Seq(Nat), NEW C \in Seq(Requests),
           NEW O \in Seq(Requests), C # <<>>, Head(C).source # s, InLine(s, m, D, S, C, O)
    PROVE  InLine(s, m, D, S, Tail(C), O)
<1> DEFINE B == Tail(C)
<1>1. /\ Len(B) = Len(C) - 1 /\ Len(C) \in Nat /\ Head(C) = C[1]
      /\ \A i \in 1..Len(B) : B[i] = C[i + 1] /\ i + 1 \in 1..Len(C)
      /\ \A i \in 1..Len(C) : i = 1 \/ (i - 1 \in 1..Len(B) /\ B[i - 1] = C[i])
  BY TailFacts
<1> HIDE DEF B
<1>2. \A i, j \in 1..Len(B) :
          i < j /\ B[i].source = s /\ B[j].source = s => B[i].number < B[j].number
  <2> SUFFICES ASSUME NEW i \in 1..Len(B), NEW j \in 1..Len(B),
                      i < j, B[i].source = s, B[j].source = s
               PROVE  B[i].number < B[j].number
    OBVIOUS
  <2>1. i + 1 < j + 1 /\ i + 1 \in 1..Len(C) /\ j + 1 \in 1..Len(C)
    BY <1>1
  <2> QED BY SMTT(30), <1>1, <2>1 DEF InLine
<1>3. \A i \in 1..Len(S) : \A j \in 1..Len(B) : B[j].source = s => S[i] < B[j].number
  <2> TAKE i \in 1..Len(S)
  <2> TAKE j \in 1..Len(B)
  <2>1. \A l \in 1..Len(C) : C[l].source = s => S[i] < C[l].number
    BY DEF InLine
  <2>2. B[j] = C[j + 1] /\ j + 1 \in 1..Len(C)
    BY <1>1
  <2> QED BY <2>1, <2>2
<1>4. \A i \in 1..Len(B) : B[i].source = s =>
        /\ B[i].number \in (1..m) \ D
        /\ \A j \in 1..Len(O) : B[i].number < O[j].number
  <2> TAKE i \in 1..Len(B)
  <2>1. \A l \in 1..Len(C) : C[l].source = s =>
          C[l].number \in (1..m) \ D /\ \A j \in 1..Len(O) : C[l].number < O[j].number
    BY DEF InLine
  <2>2. B[i] = C[i + 1] /\ i + 1 \in 1..Len(C)
    BY <1>1
  <2> QED BY <2>1, <2>2
<1>5. \A i \in 1..Len(C) :
        C[i].source = s => \E j \in 1..Len(B) : B[j] = C[i]
  BY <1>1
<1>6. InLine(s, m, D, S, B, O)
  <2>1. \A k \in (1..m) \ D :
          \/ \E i \in 1..Len(S) : S[i] = k
          \/ \E i \in 1..Len(B) : B[i].source = s /\ B[i].number = k
          \/ \E i \in 1..Len(O) : O[i].number = k
    <3> TAKE k \in (1..m) \ D
    <3>1. CASE \E i \in 1..Len(C) : C[i].source = s /\ C[i].number = k
      BY <1>5, <3>1
    <3> QED BY <3>1 DEF InLine
  <2> QED BY <1>2, <1>3, <1>4, <2>1 DEF InLine
<1> QED BY <1>6 DEF B
-----------------------------------------------------------------------------
(* The types.                                                              *)

\* The stages of a frame that follow one another by what is due.
Stages == {"trigger", "corpse", "transfer", "present", "logout", "death", "tutorial"}

LEMMA StageFacts ==
    /\ ToSet(Order) = Stages
    /\ DOMAIN After = Stages \union {"flush", "triggered"}
    /\ (DOMAIN After)' = Stages \union {"flush", "triggered"}
<1>1. ToSet(Order) = Stages
  <2>1. DOMAIN Order = {1, 2, 3, 4, 5, 6, 7}
    BY DEF Order
  <2>2. ToSet(Order) = {Order[i] : i \in {1, 2, 3, 4, 5, 6, 7}}
    BY <2>1 DEF ToSet
  <2> QED BY <2>2 DEF Order, Stages
<1>2. ToSet(Order)' = Stages
  BY <1>1 DEF Order
<1> QED BY <1>1, <1>2 DEF After

\* After a stage comes another one or the end of the frame.
LEMMA AfterFacts ==
    ASSUME NEW s \in Stages \union {"flush", "triggered"}
    PROVE  After[s] \in Stages \union {"packets"}
<1>1. Len(Order) = 7 /\ \A i \in 1..7 : Order[i] \in Stages
  BY DEF Order, Stages
<1>2. \A t \in Stages : Place(t) \in 1..7
  <2> TAKE t \in Stages
  <2>1. \E i \in 1..7 : Order[i] = t
    BY DEF Stages, Order
  <2>2. DOMAIN Order = 1..7
    BY DEF Order
  <2> QED BY <2>1, <2>2 DEF Place
<1>3. \A i \in Nat \ {0} : From(i) \in Stages \union {"packets"}
  <2> TAKE i \in Nat \ {0}
  <2> DEFINE due == {j \in i..Len(Order) : Due(Order[j])}
  <2>1. due \subseteq 1..7
    BY <1>1
  <2> HIDE DEF due
  <2>2. CASE due # {}
    <3>1. \E x \in due : \A y \in due : x <= y
      <4>1. CASE 1 \in due
        BY <2>1, <4>1
      <4>2. CASE 1 \notin due /\ 2 \in due
        BY <2>1, <4>2
      <4>3. CASE 1 \notin due /\ 2 \notin due /\ 3 \in due
        BY <2>1, <4>3
      <4>4. CASE 1 \notin due /\ 2 \notin due /\ 3 \notin due /\ 4 \in due
        BY <2>1, <4>4
      <4>5. CASE 1 \notin due /\ 2 \notin due /\ 3 \notin due /\ 4 \notin due
        <5>1. due \subseteq {5, 6, 7}
          BY <2>1, <4>5
        <5>2. CASE 5 \in due
          BY <5>1, <5>2
        <5>3. CASE 5 \notin due /\ 6 \in due
          BY <5>1, <5>3
        <5>4. CASE 5 \notin due /\ 6 \notin due
          <6>1. 7 \in due /\ \A y \in due : y = 7
            BY <2>2, <5>1, <5>4
          <6> QED BY <6>1
        <5> QED BY <5>2, <5>3, <5>4
      <4> QED BY <4>1, <4>2, <4>3, <4>4, <4>5
    <3>2. Min(due) \in due
      BY <3>1 DEF Min
    <3> QED BY <1>1, <2>1, <2>2, <3>2 DEF From, due
  <2>3. CASE due = {}
    BY <2>3 DEF From, due
  <2> QED BY <2>2, <2>3
<1>4. After[s] = From(CASE s = "flush" -> Place("trigger")
                        [] s = "triggered" -> Place("corpse")
                        [] OTHER -> Place(s) + 1)
  BY StageFacts DEF After
<1>5. CASE s = "flush"
  <2>1. Place("trigger") \in Nat \ {0}
    BY <1>2 DEF Stages
  <2> QED BY <1>3, <1>4, <1>5, <2>1
<1>6. CASE s = "triggered"
  <2>1. Place("corpse") \in Nat \ {0}
    BY <1>2 DEF Stages
  <2> QED BY <1>3, <1>4, <1>6, <2>1
<1>7. CASE s \in Stages
  <2>1. Place(s) + 1 \in Nat \ {0}
    BY <1>2, <1>7
  <2>2. s # "flush" /\ s # "triggered"
    BY <1>7 DEF Stages
  <2> QED BY <1>3, <1>4, <2>1, <2>2
<1> QED BY <1>5, <1>6, <1>7

LEMMA RequestFacts ==
    ASSUME TypeOK, NEW s \in Sources, NEW kind \in Kinds
    PROVE  /\ Request(s, kind) \in Requests /\ Request(s, kind).number = made[s] + 1
           /\ Request(s, kind).source = s /\ Request(s, kind).kind = kind
           /\ Request(s, kind).world = world
<1>1. made[s] + 1 \in Nat
  BY DEF TypeOK
<1> QED BY <1>1 DEF TypeOK, Request, Requests

\* What making a request changes.
LEMMA QueueFacts ==
    ASSUME TypeOK, NEW s \in Sources, NEW kind \in Kinds, Queue(s, kind)
    PROVE  /\ outbox' \in [Sources -> Seq(Requests)] /\ made' \in [Sources -> Nat]
           /\ \A t \in Sources : made'[t] <= MaxAsked[t]
           /\ \A t \in Sources : \A i \in DOMAIN outbox'[t] : outbox'[t][i].source = t
           /\ \A t \in Sources \ {s} : outbox'[t] = outbox[t] /\ made'[t] = made[t]
           /\ outbox'[s] = Append(outbox[s], Request(s, kind)) /\ made'[s] = made[s] + 1
<1> DEFINE r == Request(s, kind)
<1>1. r \in Requests /\ r.source = s
  BY RequestFacts
<1>2. /\ outbox \in [Sources -> Seq(Requests)] /\ outbox[s] \in Seq(Requests)
      /\ made \in [Sources -> Nat] /\ \A t \in Sources : made[t] <= MaxAsked[t]
      /\ \A t \in Sources : \A i \in DOMAIN outbox[t] : outbox[t][i].source = t
  BY DEF TypeOK
<1>3. outbox' = [outbox EXCEPT ![s] = Append(outbox[s], r)] /\ made' = [made EXCEPT ![s] = made[s] + 1]
  BY DEF Queue
<1>4. made[s] + 1 <= MaxAsked[s]
  BY <1>2, OutboxAssumption DEF Queue, MayAsk
<1> HIDE DEF r
<1>5. /\ Append(outbox[s], r) \in Seq(Requests)
      /\ Len(outbox[s]) \in Nat
      /\ \A i \in 1..Len(outbox[s]) : Append(outbox[s], r)[i] = outbox[s][i]
      /\ Append(outbox[s], r)[Len(outbox[s]) + 1] = r
      /\ \A i \in 1..Len(Append(outbox[s], r)) : i \in 1..Len(outbox[s]) \/ i = Len(outbox[s]) + 1
  BY <1>1, <1>2, AppendFacts
<1>6. \A i \in DOMAIN Append(outbox[s], r) : Append(outbox[s], r)[i].source = s
  BY <1>1, <1>2, <1>5
<1>7. outbox' \in [Sources -> Seq(Requests)] /\ made' \in [Sources -> Nat]
  BY <1>2, <1>3, <1>5
<1>8. /\ \A t \in Sources \ {s} : outbox'[t] = outbox[t] /\ made'[t] = made[t]
      /\ outbox'[s] = Append(outbox[s], r) /\ made'[s] = made[s] + 1
  BY <1>2, <1>3
<1>9. \A t \in Sources : made'[t] <= MaxAsked[t]
  BY <1>2, <1>4, <1>8
<1>10. \A t \in Sources : \A i \in DOMAIN outbox'[t] : outbox'[t][i].source = t
  BY <1>2, <1>6, <1>8
<1> QED BY <1>7, <1>8, <1>9, <1>10 DEF r

\* Requests given up, by their numbers.
LEMMA GivenUpFacts ==
    ASSUME TypeOK, NEW s \in Sources, GivenUp(s)
    PROVE  /\ dropped' \in [Sources -> SUBSET Nat]
           /\ \A t \in Sources \ {s} : dropped'[t] = dropped[t]
           /\ Joined(dropped[s], outbox[s], dropped'[s])
<1>1. /\ outbox[s] \in Seq(Requests) /\ DOMAIN outbox[s] = 1..Len(outbox[s])
      /\ dropped \in [Sources -> SUBSET Nat]
  BY DEF TypeOK
<1>2. ToSet(Numbers(outbox[s])) = {outbox[s][i].number : i \in 1..Len(outbox[s])}
  BY <1>1 DEF ToSet, Numbers
<1>3. \A i \in 1..Len(outbox[s]) : outbox[s][i].number \in Nat
  <2> TAKE i \in 1..Len(outbox[s])
  <2>1. outbox[s][i] \in Requests
    BY <1>1
  <2> QED BY <2>1 DEF Requests
<1>4. /\ dropped' \in [Sources -> SUBSET Nat]
      /\ \A t \in Sources \ {s} : dropped'[t] = dropped[t]
      /\ dropped'[s] = dropped[s] \union {outbox[s][i].number : i \in 1..Len(outbox[s])}
  BY <1>1, <1>2, <1>3 DEF GivenUp
<1> QED BY <1>4 DEF Joined

\* The requests retained for one source are replaced by a part of them.
LEMMA PartTyped ==
    ASSUME TypeOK, NEW s \in Sources, NEW part \in Seq(Requests),
           \A i \in 1..Len(part) : part[i].source = s, outbox' = [outbox EXCEPT ![s] = part]
    PROVE  /\ outbox' \in [Sources -> Seq(Requests)]
           /\ \A t \in Sources : \A i \in DOMAIN outbox'[t] : outbox'[t][i].source = t
           /\ outbox'[s] = part /\ \A t \in Sources \ {s} : outbox'[t] = outbox[t]
<1>1. outbox'[s] = part /\ \A t \in Sources \ {s} : outbox'[t] = outbox[t]
  BY DEF TypeOK
<1>2. DOMAIN part = 1..Len(part)
  OBVIOUS
<1>3. outbox' \in [Sources -> Seq(Requests)]
  BY DEF TypeOK
<1>4. \A t \in Sources : \A i \in DOMAIN outbox[t] : outbox[t][i].source = t
  BY DEF TypeOK
<1> QED BY <1>1, <1>2, <1>3, <1>4

\* What a source retains is its own.
LEMMA OwnRequests ==
    ASSUME TypeOK, NEW s \in Sources
    PROVE  /\ outbox[s] \in Seq(Requests) /\ DOMAIN outbox[s] = 1..Len(outbox[s])
           /\ \A i \in 1..Len(outbox[s]) : outbox[s][i].source = s
           /\ outbox[s] # <<>> =>
                /\ Tail(outbox[s]) \in Seq(Requests)
                /\ \A i \in 1..Len(Tail(outbox[s])) : Tail(outbox[s])[i].source = s
                /\ Head(outbox[s]) \in Requests /\ Head(outbox[s]).source = s
<1>1. /\ outbox[s] \in Seq(Requests) /\ DOMAIN outbox[s] = 1..Len(outbox[s])
      /\ \A i \in 1..Len(outbox[s]) : outbox[s][i].source = s
  BY DEF TypeOK
<1>2. ASSUME outbox[s] # <<>>
      PROVE  /\ Tail(outbox[s]) \in Seq(Requests) /\ Head(outbox[s]) = outbox[s][1]
             /\ Head(outbox[s]) \in Requests /\ 1 \in 1..Len(outbox[s])
             /\ \A i \in 1..Len(Tail(outbox[s])) :
                   Tail(outbox[s])[i] = outbox[s][i + 1] /\ i + 1 \in 1..Len(outbox[s])
  BY <1>1, <1>2, TailFacts
<1> QED BY <1>1, <1>2
-----------------------------------------------------------------------------
(* Types.                                                                   *)

\* Every step keeps the types.
LEMMA StepTyped ==
    ASSUME TypeOK, [Next]_vars
    PROVE  TypeOK'
<1> USE OutboxAssumption
<1>0. /\ at \in Stages \union {"flush", "triggered", "packets", "move"}
      /\ world \in 1..MaxWorlds /\ owner \in 1..world \union {None}
      /\ created \in BOOLEAN /\ loading \in BOOLEAN /\ entering \in BOOLEAN /\ pending \in BOOLEAN
      /\ outbox \in [Sources -> Seq(Requests)]
      /\ \A s \in Sources : \A i \in DOMAIN outbox[s] : outbox[s][i].source = s
      /\ channel \in Seq(Requests) /\ Len(channel) \in Nat /\ Len(channel) <= Capacity
      /\ server \in [logging: BOOLEAN, answers: Seq({"accepted", "refused", "cancelled"})]
      /\ made \in [Sources -> Nat] /\ \A s \in Sources : made[s] <= MaxAsked[s]
      /\ sent \in [Sources -> Seq(Nat)] /\ dropped \in [Sources -> SUBSET Nat]
  BY StageFacts DEF TypeOK
<1> DEFINE
      Frames == /\ at' \in Stages \union {"flush", "triggered", "packets", "move"}
                /\ world' \in 1..MaxWorlds /\ owner' \in 1..world' \union {None}
                /\ created' \in BOOLEAN /\ loading' \in BOOLEAN /\ entering' \in BOOLEAN
      Flag == pending' \in BOOLEAN
      Queues == /\ outbox' \in [Sources -> Seq(Requests)]
                /\ \A s \in Sources : \A i \in DOMAIN outbox'[s] : outbox'[s][i].source = s
      Made == made' \in [Sources -> Nat] /\ \A s \in Sources : made'[s] <= MaxAsked[s]
      Wire == channel' \in Seq(Requests) /\ Len(channel') <= Capacity
      Remote == server' \in [logging: BOOLEAN, answers: Seq({"accepted", "refused", "cancelled"})]
      History == sent' \in [Sources -> Seq(Nat)] /\ dropped' \in [Sources -> SUBSET Nat]
<1> SUFFICES Frames /\ Flag /\ Queues /\ Made /\ Wire /\ Remote /\ History
  BY StageFacts DEF TypeOK
<1>1. ASSUME NEW s \in Sources, Ask(s)
      PROVE  Frames /\ Flag /\ Queues /\ Made /\ Wire /\ Remote /\ History
  <2>1. Queue(s, "ask") /\ "ask" \in Kinds
    BY <1>1 DEF Ask, Kinds
  <2>2. Queues /\ Made
    BY <2>1, QueueFacts
  <2> QED BY <1>0, <1>1, <2>2 DEF Ask
<1>2. ASSUME AskLogout
      PROVE  Frames /\ Flag /\ Queues /\ Made /\ Wire /\ Remote /\ History
  <2>1. PICK kind \in {"request", "force", "cancel"} : Queue("logout", kind)
    BY <1>2 DEF AskLogout
  <2>2. "logout" \in Sources /\ kind \in Kinds
    BY DEF Sources, Kinds
  <2>3. Queues /\ Made
    BY <2>1, <2>2, QueueFacts
  <2>4. Flag
    BY <1>0, <1>2, Zenon DEF AskLogout
  <2> QED BY <1>0, <1>2, <2>3, <2>4 DEF AskLogout
<1>3. ASSUME ReceiveLogout
      PROVE  Frames /\ Flag /\ Queues /\ Made /\ Wire /\ Remote /\ History
  <2>1. pending' \in BOOLEAN
    BY <1>0, <1>3 DEF ReceiveLogout, StillPending
  <2>2. Tail(server.answers) \in Seq({"accepted", "refused", "cancelled"})
    BY <1>0, <1>3 DEF ReceiveLogout
  <2>3. Remote
    BY <1>0, <1>3, <2>2 DEF ReceiveLogout
  <2> QED BY <1>0, <1>3, <2>1, <2>3 DEF ReceiveLogout, history
<1>4. ASSUME CreatePlayer
      PROVE  Frames /\ Flag /\ Queues /\ Made /\ Wire /\ Remote /\ History
  BY <1>0, <1>4 DEF CreatePlayer, history
<1>5. ASSUME ReplaceWorld
      PROVE  Frames /\ Flag /\ Queues /\ Made /\ Wire /\ Remote /\ History
  <2>1. "death" \in Sources /\ <<>> \in Seq(Requests) /\ \A i \in 1..Len(<<>>) : FALSE
    BY DEF Sources
  <2>2. Queues
    BY <1>5, <2>1, PartTyped DEF ReplaceWorld
  <2>3. dropped' \in [Sources -> SUBSET Nat]
    BY <1>5, <2>1, GivenUpFacts DEF ReplaceWorld
  <2>4. world' = world + 1 /\ world < MaxWorlds /\ owner' = owner
    BY <1>5 DEF ReplaceWorld
  <2>5. world' \in 1..MaxWorlds /\ owner' \in 1..world' \union {None}
    BY <1>0, <2>4
  <2> QED BY <1>0, <1>5, <2>2, <2>3, <2>5 DEF ReplaceWorld
<1>6. ASSUME BeginFrame
      PROVE  Frames /\ Flag /\ Queues /\ Made /\ Wire /\ Remote /\ History
  BY <1>0, <1>6 DEF BeginFrame, history
<1>7. ASSUME Move
      PROVE  Frames /\ Flag /\ Queues /\ Made /\ Wire /\ Remote /\ History
  <2> DEFINE outdated == owner # None /\ owner # world
             r == Request("movement", IF owner = None \/ outdated THEN "mover" ELSE "move")
  <2>1. "movement" \in Sources
    BY DEF Sources
  <2>2. /\ Kept(outdated) \in Seq(Requests)
        /\ \A i \in 1..Len(Kept(outdated)) : Kept(outdated)[i].source = "movement"
    <3>1. CASE outdated
      BY <3>1 DEF Kept
    <3>2. CASE ~outdated
      BY <2>1, <3>2, OwnRequests DEF Kept
    <3> QED BY <3>1, <3>2
  <2>3. r \in Requests /\ r.source = "movement"
    BY <2>1, RequestFacts DEF Kinds
  <2>4. dropped' \in [Sources -> SUBSET Nat]
    BY <1>0, <1>7, <2>1, GivenUpFacts DEF Move
  <2> HIDE DEF r
  <2>5. /\ Append(Kept(outdated), r) \in Seq(Requests)
        /\ \A i \in 1..Len(Append(Kept(outdated), r)) :
              Append(Kept(outdated), r)[i].source = "movement"
    <3> DEFINE K == Kept(outdated)
    <3> HIDE DEF K
    <3>1. /\ Append(K, r) \in Seq(Requests)
          /\ \A i \in 1..Len(K) : Append(K, r)[i] = K[i]
          /\ Append(K, r)[Len(K) + 1] = r
          /\ \A i \in 1..Len(Append(K, r)) : i \in 1..Len(K) \/ i = Len(K) + 1
      BY <2>2, <2>3, AppendFacts DEF K
    <3>2. \A i \in 1..Len(Append(K, r)) : Append(K, r)[i].source = "movement"
      BY <2>2, <2>3, <3>1 DEF K
    <3> QED BY <3>1, <3>2 DEF K
  <2>6. \/ UNCHANGED <<outbox, made>>
        \/ outbox' = [outbox EXCEPT !["movement"] = Kept(outdated)] /\ UNCHANGED made
        \/ /\ outbox' = [outbox EXCEPT !["movement"] = Append(Kept(outdated), r)]
           /\ MayAsk("movement") /\ made' = [made EXCEPT !["movement"] = made["movement"] + 1]
    BY <1>7 DEF Move, r
  <2>7. Queues
    BY <1>0, <2>1, <2>2, <2>5, <2>6, PartTyped
  <2>8. Made
    <3>1. CASE UNCHANGED made
      BY <1>0, <3>1
    <3>2. CASE MayAsk("movement") /\ made' = [made EXCEPT !["movement"] = made["movement"] + 1]
      <4>1. made["movement"] + 1 \in Nat /\ made["movement"] + 1 <= MaxAsked["movement"]
        BY <1>0, <2>1, <3>2 DEF MayAsk
      <4> QED BY <1>0, <3>2, <4>1
    <3> QED BY <2>6, <3>1, <3>2
  <2>9. at' \in {"trigger", "flush"} /\ owner' \in {None, owner, world}
    BY <1>7 DEF Move
  <2> QED BY <1>0, <1>7, <2>4, <2>7, <2>8, <2>9 DEF Move, Stages
<1>8. ASSUME Trigger
      PROVE  Frames /\ Flag /\ Queues /\ Made /\ Wire /\ Remote /\ History
  <2>1. "movement" \in Sources /\ "early" \in Kinds /\ "trigger" \in Kinds
    BY DEF Sources, Kinds
  <2>2. Queues /\ Made
    <3>1. CASE UNCHANGED <<outbox, made>>
      BY <1>0, <3>1
    <3>2. CASE Queue("movement", IF owner = None THEN "early" ELSE "trigger")
      BY <2>1, <3>2, QueueFacts
    <3> QED BY <1>8, <3>1, <3>2 DEF Trigger
  <2>3. at = "trigger" /\ "trigger" \in Stages
    BY <1>8 DEF Trigger, Stages
  <2>4. at' \in Stages \union {"packets", "triggered"}
    BY <1>8, <2>3, AfterFacts DEF Trigger
  <2> QED BY <1>0, <1>8, <2>2, <2>4 DEF Trigger
<1>9. ASSUME NEW s \in Sources, NEW stage \in Stages \union {"flush", "triggered"}, Send(s, stage)
      PROVE  Frames /\ Flag /\ Queues /\ Made /\ Wire /\ Remote /\ History
  <2>1. at' \in Stages \union {"flush", "triggered", "packets"}
    BY <1>0, <1>9, AfterFacts DEF Send
  <2>2. Queues /\ Wire
    <3>1. CASE outbox[s] # <<>> /\ Room
      <4>1. /\ Tail(outbox[s]) \in Seq(Requests) /\ Head(outbox[s]) \in Requests
            /\ \A i \in 1..Len(Tail(outbox[s])) : Tail(outbox[s])[i].source = s
        BY <3>1, OwnRequests
      <4>2. outbox' = [outbox EXCEPT ![s] = Tail(outbox[s])] /\ channel' = Append(channel, Head(outbox[s]))
        BY <1>9, <3>1 DEF Send, Remaining
      <4>3. Len(channel') = Len(channel) + 1 /\ channel' \in Seq(Requests)
        BY <1>0, <4>1, <4>2, AppendFacts
      <4>4. Wire
        BY <1>0, <3>1, <4>3 DEF Room
      <4> QED BY <4>1, <4>2, <4>4, PartTyped
    <3>2. CASE outbox[s] # <<>> /\ ~Room
      <4>1. outbox' = [outbox EXCEPT ![s] = outbox[s]] /\ channel' = channel
        BY <1>9, <3>2 DEF Send, Remaining
      <4>2. outbox' = outbox
        BY <1>0, <4>1
      <4> QED BY <1>0, <4>1, <4>2
    <3>3. CASE outbox[s] = <<>>
      BY <1>0, <1>9, <3>3 DEF Send
    <3> QED BY <3>1, <3>2, <3>3
  <2> QED BY <1>0, <1>9, <2>1, <2>2 DEF Send, history
<1>10. ASSUME Acknowledge
       PROVE  Frames /\ Flag /\ Queues /\ Made /\ Wire /\ Remote /\ History
  <2>1. at' \in Stages \union {"packets"}
    BY <1>10, AfterFacts DEF Acknowledge, Stages
  <2>2. Acknowledgement \in Requests
    BY <1>0 DEF Acknowledgement, Requests, Kinds
  <2>3. Wire
    <3>1. CASE Room /\ channel' = Append(channel, Acknowledgement)
      <4>1. Len(channel') = Len(channel) + 1 /\ channel' \in Seq(Requests)
        BY <1>0, <2>2, <3>1, AppendFacts
      <4> QED BY <1>0, <3>1, <4>1 DEF Room
    <3> QED BY <1>0, <1>10, <3>1 DEF Acknowledge
  <2>4. loading' \in BOOLEAN
    BY <1>0, <1>10, Zenon DEF Acknowledge
  <2> QED BY <1>0, <1>10, <2>1, <2>3, <2>4 DEF Acknowledge, history
<1>11. ASSUME Write
       PROVE  Frames /\ Flag /\ Queues /\ Made /\ Wire /\ Remote /\ History
  <2>1. /\ Tail(channel) \in Seq(Requests) /\ Len(Tail(channel)) = Len(channel) - 1
        /\ Head(channel) \in Requests
    BY <1>0, <1>11, TailFacts DEF Write
  <2>2. Wire
    BY <1>0, <1>11, <2>1 DEF Write
  <2>3. sent' \in [Sources -> Seq(Nat)]
    <3>1. Head(channel).number \in Nat
      BY <2>1 DEF Requests
    <3>2. \A s \in Sources : Append(sent[s], Head(channel).number) \in Seq(Nat)
      BY <1>0, <3>1
    <3> QED BY <1>0, <1>11, <3>2 DEF Write
  <2>4. Remote
    <3>1. CASE UNCHANGED server
      BY <1>0, <3>1
    <3>2. CASE \E answer \in {"accepted", "refused", "cancelled"} :
                 server' = [logging |-> answer = "accepted", answers |-> Append(server.answers, answer)]
      <4>1. PICK answer \in {"accepted", "refused", "cancelled"} :
              server' = [logging |-> answer = "accepted", answers |-> Append(server.answers, answer)]
        BY <3>2
      <4>2. Append(server.answers, answer) \in Seq({"accepted", "refused", "cancelled"})
        BY <1>0
      <4> QED BY <4>1, <4>2
    <3> QED BY <1>11, <3>1, <3>2 DEF Write, Serve, Answers
  <2> QED BY <1>0, <1>11, <2>2, <2>3, <2>4 DEF Write
<1>12. CASE UNCHANGED vars
  BY <1>0, <1>12 DEF vars, history
<1>13. ASSUME EnterReplacement \/ PresentNothing
       PROVE  Frames /\ Flag /\ Queues /\ Made /\ Wire /\ Remote /\ History
  BY <1>0, <1>13 DEF EnterReplacement, PresentNothing, history
<1>14. ASSUME Present
       PROVE  Frames /\ Flag /\ Queues /\ Made /\ Wire /\ Remote /\ History
  <2>1. at' \in Stages \union {"packets"}
    BY <1>14, AfterFacts DEF Present, Stages
  <2> QED BY <1>0, <1>14, <2>1 DEF Present, history
<1>15. \A s \in Sources \ {"movement"} : s \in Stages \union {"flush", "triggered"}
  BY DEF Sources, Stages
<1>16. "movement" \in Sources
  BY DEF Sources
<1> HIDE DEF Frames, Flag, Queues, Made, Wire, Remote, History
<1> QED BY <1>1, <1>2, <1>3, <1>4, <1>5, <1>6, <1>7, <1>8, <1>9, <1>10, <1>11, <1>12, <1>13, <1>14,
           <1>15, <1>16
        DEF Next, Frame
-----------------------------------------------------------------------------
(* Every step keeps the lines.                                             *)

LEMMA LinePieces ==
    ASSUME TypeOK, LineInv, NEW s \in Sources
    PROVE  /\ made[s] \in Nat /\ sent[s] \in Seq(Nat) /\ channel \in Seq(Requests)
           /\ outbox[s] \in Seq(Requests)
           /\ InLine(s, made[s], dropped[s], sent[s], channel, outbox[s])
BY DEF TypeOK, LineInv

LEMMA QueueKeepsLines ==
    ASSUME TypeOK, LineInv, NEW s \in Sources, NEW kind \in Kinds, Queue(s, kind),
           UNCHANGED <<channel, sent, dropped>>
    PROVE  LineInv'
<1> SUFFICES ASSUME NEW t \in Sources
             PROVE  InLine(t, made'[t], dropped[t], sent[t], channel, outbox'[t])
  BY DEF LineInv
<1>1. /\ \A u \in Sources \ {s} : outbox'[u] = outbox[u] /\ made'[u] = made[u]
      /\ outbox'[s] = Append(outbox[s], Request(s, kind)) /\ made'[s] = made[s] + 1
  BY QueueFacts
<1>2. /\ made[t] \in Nat /\ sent[t] \in Seq(Nat) /\ channel \in Seq(Requests)
      /\ outbox[t] \in Seq(Requests)
      /\ InLine(t, made[t], dropped[t], sent[t], channel, outbox[t])
  BY LinePieces
<1>3. CASE t = s
  <2>1. Request(t, kind) \in Requests /\ Request(t, kind).number = made[t] + 1
    BY <1>3, RequestFacts
  <2>2. InLine(t, made[t] + 1, dropped[t], sent[t], channel, Append(outbox[t], Request(t, kind)))
    BY <1>2, <2>1, LineQueue
  <2> QED BY <1>1, <1>3, <2>2
<1> QED BY <1>1, <1>2, <1>3

LEMMA SendKeepsLines ==
    ASSUME TypeOK, LineInv, NEW s \in Sources, outbox[s] # <<>>,
           channel' = Append(channel, Head(outbox[s])),
           outbox' = [outbox EXCEPT ![s] = Tail(outbox[s])],
           UNCHANGED <<made, sent, dropped>>
    PROVE  LineInv'
<1> SUFFICES ASSUME NEW t \in Sources
             PROVE  InLine(t, made[t], dropped[t], sent[t], channel', outbox'[t])
  BY DEF LineInv
<1>1. outbox'[s] = Tail(outbox[s]) /\ \A u \in Sources \ {s} : outbox'[u] = outbox[u]
  BY DEF TypeOK
<1>2. /\ made[t] \in Nat /\ sent[t] \in Seq(Nat) /\ channel \in Seq(Requests)
      /\ outbox[t] \in Seq(Requests)
      /\ InLine(t, made[t], dropped[t], sent[t], channel, outbox[t])
  BY LinePieces
<1>3. Head(outbox[s]) \in Requests /\ Head(outbox[s]).source = s
  BY OwnRequests
<1>4. CASE t = s
  <2>1. outbox[t] # <<>> /\ Head(outbox[t]).source = t
    BY <1>3, <1>4
  <2>2. InLine(t, made[t], dropped[t], sent[t], Append(channel, Head(outbox[t])), Tail(outbox[t]))
    BY <1>2, <2>1, LineSend
  <2> QED BY <1>1, <1>4, <2>2
<1>5. CASE t # s
  <2> DEFINE r == Head(outbox[s])
  <2>1. r \in Requests /\ r.source # t
    BY <1>3, <1>5
  <2> HIDE DEF r
  <2>2. InLine(t, made[t], dropped[t], sent[t], Append(channel, r), outbox[t])
    BY <1>2, <2>1, LineSendOther
  <2> QED BY <1>1, <1>5, <2>2 DEF r
<1> QED BY <1>4, <1>5

LEMMA GiveUpKeepsLines ==
    ASSUME TypeOK, LineInv, NEW s \in {"movement", "death"}, GivenUp(s),
           outbox' = [outbox EXCEPT ![s] = <<>>], UNCHANGED <<channel, made, sent>>
    PROVE  LineInv'
<1> SUFFICES ASSUME NEW t \in Sources
             PROVE  InLine(t, made[t], dropped'[t], sent[t], channel, outbox'[t])
  BY DEF LineInv
<1>1. s \in Sources
  BY DEF Sources
<1>2. outbox'[s] = <<>> /\ \A u \in Sources \ {s} : outbox'[u] = outbox[u]
  BY <1>1 DEF TypeOK
<1>3. /\ \A u \in Sources \ {s} : dropped'[u] = dropped[u]
      /\ Joined(dropped[s], outbox[s], dropped'[s])
  BY <1>1, GivenUpFacts
<1>4. /\ made[t] \in Nat /\ sent[t] \in Seq(Nat) /\ channel \in Seq(Requests)
      /\ outbox[t] \in Seq(Requests)
      /\ InLine(t, made[t], dropped[t], sent[t], channel, outbox[t])
  BY LinePieces
<1>5. CASE t = s
  <2>1. t \in {"movement", "death"} /\ Joined(dropped[t], outbox[t], dropped'[t])
    BY <1>3, <1>5
  <2> DEFINE P == outbox'[t]
             E == dropped'[t]
  <2>2. P = <<>>
    BY <1>2, <1>5
  <2> HIDE DEF P, E
  <2>3. InLine(t, made[t], E, sent[t], channel, P)
    BY <1>4, <2>1, <2>2, LineGiveUp DEF E
  <2> QED BY <2>3 DEF P, E
<1> QED BY <1>2, <1>3, <1>4, <1>5

LEMMA WriteKeepsLines ==
    ASSUME TypeOK, LineInv, Write
    PROVE  LineInv'
<1> SUFFICES ASSUME NEW t \in Sources
             PROVE  InLine(t, made[t], dropped[t], sent'[t], Tail(channel), outbox[t])
  BY DEF LineInv, Write
<1>1. /\ made[t] \in Nat /\ sent[t] \in Seq(Nat) /\ channel \in Seq(Requests) /\ channel # <<>>
      /\ outbox[t] \in Seq(Requests)
      /\ InLine(t, made[t], dropped[t], sent[t], channel, outbox[t])
  BY LinePieces DEF Write
<1>2. sent' = IF Head(channel).source \in Sources
              THEN [sent EXCEPT ![Head(channel).source] =
                       Append(sent[Head(channel).source], Head(channel).number)]
              ELSE sent
  BY DEF Write
<1>3. CASE Head(channel).source = t
  <2>1. sent'[t] = Append(sent[t], Head(channel).number)
    BY <1>2, <1>3 DEF TypeOK
  <2>2. InLine(t, made[t], dropped[t], Append(sent[t], Head(channel).number), Tail(channel), outbox[t])
    BY <1>1, <1>3, LineWrite
  <2> QED BY <2>1, <2>2
<1>4. CASE Head(channel).source # t
  <2>1. sent'[t] = sent[t]
    BY <1>2, <1>4 DEF TypeOK
  <2>2. InLine(t, made[t], dropped[t], sent[t], Tail(channel), outbox[t])
    BY <1>1, <1>4, LineWriteOther
  <2> QED BY <2>1, <2>2
<1> QED BY <1>3, <1>4

LEMMA StepInLine ==
    ASSUME TypeOK, LineInv, WorldInv, [Next]_vars
    PROVE  LineInv'
<1>1. \A s \in Sources : Ask(s) => LineInv'
  <2> SUFFICES ASSUME NEW s \in Sources, Ask(s) PROVE LineInv'
    OBVIOUS
  <2>1. Queue(s, "ask") /\ "ask" \in Kinds /\ UNCHANGED <<channel, sent, dropped>>
    BY DEF Ask, Kinds
  <2> QED BY <2>1, QueueKeepsLines
<1>2. CASE AskLogout
  <2>1. PICK kind \in {"request", "force", "cancel"} : Queue("logout", kind)
    BY <1>2 DEF AskLogout
  <2>2. "logout" \in Sources /\ kind \in Kinds /\ UNCHANGED <<channel, sent, dropped>>
    BY <1>2 DEF AskLogout, Sources, Kinds
  <2> QED BY <2>1, <2>2, QueueKeepsLines
<1>3. CASE UNCHANGED <<outbox, channel, made, sent, dropped>>
  BY <1>3 DEF LineInv
<1>4. CASE ReplaceWorld
  <2>1. /\ GivenUp("death") /\ outbox' = [outbox EXCEPT !["death"] = <<>>]
        /\ UNCHANGED <<channel, made, sent>>
    BY <1>4 DEF ReplaceWorld
  <2> QED BY <2>1, GiveUpKeepsLines
<1>5. CASE Move
  <2> DEFINE outdated == owner # None /\ owner # world
             r == Request("movement", IF owner = None \/ outdated THEN "mover" ELSE "move")
             K == Kept(outdated)
             E == dropped'["movement"]
  <2>1. "movement" \in Sources
    BY DEF Sources
  <2>2. r \in Requests /\ r.number = made["movement"] + 1
    BY <2>1, RequestFacts DEF Kinds
  <2>3. /\ made["movement"] \in Nat /\ sent["movement"] \in Seq(Nat) /\ channel \in Seq(Requests)
        /\ outbox["movement"] \in Seq(Requests)
        /\ InLine("movement", made["movement"], dropped["movement"], sent["movement"], channel,
                  outbox["movement"])
    BY <2>1, LinePieces
  <2>4. /\ InLine("movement", made["movement"], E, sent["movement"], channel, K)
        /\ K \in Seq(Requests) /\ \A t \in Sources \ {"movement"} : dropped'[t] = dropped[t]
    <3>1. CASE outdated
      <4>1. GivenUp("movement") /\ K = <<>>
        BY <1>5, <3>1 DEF Move, Kept
      <4>2. Joined(dropped["movement"], outbox["movement"], E)
        BY <2>1, <4>1, GivenUpFacts
      <4>3. \A t \in Sources \ {"movement"} : dropped'[t] = dropped[t]
        BY <2>1, <4>1, GivenUpFacts
      <4>4. "movement" \in {"movement", "death"}
        OBVIOUS
      <4> HIDE DEF E, K
      <4>5. K \in Seq(Requests)
        BY <4>1
      <4>6. InLine("movement", made["movement"], E, sent["movement"], channel, K)
        BY <2>3, <4>1, <4>2, <4>4, LineGiveUp
      <4> QED BY <4>3, <4>5, <4>6
    <3>2. CASE ~outdated
      <4>1. UNCHANGED dropped /\ K = outbox["movement"]
        BY <1>5, <3>2 DEF Move, Kept
      <4> QED BY <2>3, <4>1
    <3> QED BY <3>1, <3>2
  <2>5. UNCHANGED <<sent, channel>>
    BY <1>5 DEF Move
  <2>6. \/ UNCHANGED <<outbox, made>> /\ outbox["movement"] = K
        \/ outbox' = [outbox EXCEPT !["movement"] = K] /\ UNCHANGED made
        \/ /\ outbox' = [outbox EXCEPT !["movement"] = Append(K, r)]
           /\ made' = [made EXCEPT !["movement"] = made["movement"] + 1]
    BY <1>5 DEF Move, Kept
  <2> HIDE DEF r, K, E
  <2>7. InLine("movement", made["movement"] + 1, E, sent["movement"], channel, Append(K, r))
    BY <2>2, <2>3, <2>4, LineQueue
  <2>8. InLine("movement", made'["movement"], E, sent["movement"], channel, outbox'["movement"])
    BY <2>1, <2>4, <2>6, <2>7 DEF TypeOK
  <2>9. \A t \in Sources \ {"movement"} : made'[t] = made[t] /\ outbox'[t] = outbox[t]
    BY <2>1, <2>6 DEF TypeOK
  <2>10. ASSUME NEW t \in Sources
         PROVE  InLine(t, made'[t], dropped'[t], sent'[t], channel', outbox'[t])
    <3>1. CASE t = "movement"
      BY <2>5, <2>8, <3>1 DEF E
    <3>2. CASE t # "movement"
      <4>1. InLine(t, made[t], dropped[t], sent[t], channel, outbox[t])
        BY LinePieces
      <4> QED BY <2>4, <2>5, <2>9, <3>2, <4>1
    <3> QED BY <3>1, <3>2
  <2> QED BY <2>10 DEF LineInv
<1>6. CASE Trigger
  <2>1. "movement" \in Sources /\ "early" \in Kinds /\ "trigger" \in Kinds
        /\ UNCHANGED <<channel, sent, dropped>>
    BY <1>6 DEF Trigger, Sources, Kinds
  <2>2. CASE Queue("movement", IF owner = None THEN "early" ELSE "trigger")
    BY <2>1, <2>2, QueueKeepsLines
  <2> QED BY <1>3, <1>6, <2>1, <2>2 DEF Trigger
<1>7. ASSUME NEW s \in Sources, NEW stage, Send(s, stage)
      PROVE  LineInv'
  <2>1. CASE outbox[s] # <<>> /\ Room
    <3>1. /\ outbox' = [outbox EXCEPT ![s] = Tail(outbox[s])]
          /\ channel' = Append(channel, Head(outbox[s])) /\ UNCHANGED <<made, sent, dropped>>
      BY <1>7, <2>1 DEF Send, Remaining, history
    <3> QED BY <2>1, <3>1, SendKeepsLines
  <2>2. CASE ~(outbox[s] # <<>> /\ Room)
    <3>1. outbox' = outbox
      BY <1>7, <2>2 DEF Send, Remaining, TypeOK
    <3> QED BY <1>3, <1>7, <2>2, <3>1 DEF Send, history
  <2> QED BY <2>1, <2>2
<1>8. CASE Acknowledge
  <2>1. CASE channel' = Append(channel, Acknowledgement)
    <3>1. UNCHANGED <<outbox, made, sent, dropped>>
      BY <1>8 DEF Acknowledge, history
    <3>2. Acknowledgement \in Requests /\ \A t \in Sources : Acknowledgement.source # t
      BY DEF TypeOK, Acknowledgement, Requests, Kinds, Sources
    <3>3. ASSUME NEW t \in Sources
          PROVE  InLine(t, made[t], dropped[t], sent[t], channel', outbox[t])
      <4> DEFINE r == Acknowledgement
      <4>1. /\ made[t] \in Nat /\ sent[t] \in Seq(Nat) /\ channel \in Seq(Requests)
            /\ outbox[t] \in Seq(Requests)
            /\ InLine(t, made[t], dropped[t], sent[t], channel, outbox[t])
        BY LinePieces
      <4>2. r \in Requests /\ r.source # t
        BY <3>2
      <4> HIDE DEF r
      <4>3. InLine(t, made[t], dropped[t], sent[t], Append(channel, r), outbox[t])
        BY <4>1, <4>2, LineSendOther
      <4> QED BY <2>1, <4>3 DEF r
    <3> QED BY <3>1, <3>3 DEF LineInv
  <2> QED BY <1>3, <1>8, <2>1 DEF Acknowledge, history
<1>9. CASE Write
  BY <1>9, WriteKeepsLines
<1>10. CASE \/ ReceiveLogout \/ CreatePlayer \/ BeginFrame \/ UNCHANGED vars
            \/ EnterReplacement \/ PresentNothing \/ Present
  <2>1. UNCHANGED <<outbox, channel, made, sent, dropped>>
    BY <1>10 DEF ReceiveLogout, CreatePlayer, BeginFrame, EnterReplacement, PresentNothing, Present,
                 vars, history
  <2> QED BY <1>3, <2>1
<1>11. "movement" \in Sources
  BY DEF Sources
<1> QED BY <1>1, <1>2, <1>4, <1>5, <1>6, <1>7, <1>8, <1>9, <1>10, <1>11 DEF Next, Frame
-----------------------------------------------------------------------------
(* Every step keeps what is known of logging out.                          *)

\* What a step of another source adds to a queue changes no question about logging out.
LEMMA AppendAsks ==
    ASSUME NEW seq \in Seq(Requests), NEW r \in Requests
    PROVE  /\ Asked(seq) => Asked(Append(seq, r))
           /\ \A i \in 1..Len(Append(seq, r)) :
                 Undone(Append(seq, r), i) =>
                    /\ ~(r.source = "logout" /\ r.kind = "request")
                    /\ \/ i \in 1..Len(seq) /\ Undone(seq, i)
                       \/ i = Len(seq) + 1 /\ r.source = "logout" /\ r.kind = "cancel"
           /\ r.source = "logout" /\ r.kind = "request" => Asked(Append(seq, r))
<1> DEFINE P == Append(seq, r)
<1>1. /\ Len(P) = Len(seq) + 1 /\ Len(seq) \in Nat
      /\ \A i \in 1..Len(seq) : P[i] = seq[i] /\ i \in 1..Len(P)
      /\ P[Len(seq) + 1] = r /\ Len(seq) + 1 \in 1..Len(P)
      /\ \A i \in 1..Len(P) : i \in 1..Len(seq) \/ i = Len(seq) + 1
  BY AppendFacts
<1> HIDE DEF P
<1>2. Asked(seq) => Asked(P)
  BY <1>1 DEF Asked, Asks
<1>3. r.source = "logout" /\ r.kind = "request" => Asked(P)
  BY <1>1 DEF Asked, Asks
<1>4. ASSUME NEW i \in 1..Len(P), Undone(P, i)
      PROVE  /\ ~(r.source = "logout" /\ r.kind = "request")
             /\ \/ i \in 1..Len(seq) /\ Undone(seq, i)
                \/ i = Len(seq) + 1 /\ r.source = "logout" /\ r.kind = "cancel"
  <2>1. Asks(P, "cancel", i) /\ \A j \in 1..Len(P) : i < j => ~Asks(P, "request", j)
    BY <1>4 DEF Undone
  <2>2. CASE i \in 1..Len(seq)
    <3>1. Asks(seq, "cancel", i) /\ \A j \in 1..Len(seq) : i < j => ~Asks(seq, "request", j)
      BY <1>1, <2>1, <2>2 DEF Asks
    <3>2. i < Len(seq) + 1
      BY <1>1, <2>2
    <3>3. ~Asks(P, "request", Len(seq) + 1)
      BY <1>1, <2>1, <3>2
    <3> QED BY <1>1, <2>2, <3>1, <3>3 DEF Undone, Asks
  <2>3. CASE i = Len(seq) + 1
    BY <1>1, <2>1, <2>3 DEF Asks
  <2> QED BY <1>1, <2>2, <2>3
<1> QED BY <1>2, <1>3, <1>4 DEF P

LEMMA TailAsks ==
    ASSUME NEW seq \in Seq(Requests), seq # <<>>
    PROVE  /\ Asked(Tail(seq)) => Asked(seq)
           /\ Asked(seq) => Asked(Tail(seq)) \/ Asks(seq, "request", 1)
           /\ \A i \in 1..Len(Tail(seq)) :
                 Undone(Tail(seq), i) => i + 1 \in 1..Len(seq) /\ Undone(seq, i + 1)
           /\ Asks(seq, "cancel", 1) => Undone(seq, 1) \/ Asked(Tail(seq))
           /\ Head(seq) = seq[1] /\ 1 \in 1..Len(seq) /\ Head(seq) \in Requests
           /\ Tail(seq) \in Seq(Requests)
<1> DEFINE P == Tail(seq)
<1>1. /\ P \in Seq(Requests) /\ Len(P) = Len(seq) - 1 /\ Len(seq) \in Nat
      /\ Head(seq) = seq[1] /\ Head(seq) \in Requests /\ 1 \in 1..Len(seq)
      /\ \A i \in 1..Len(P) : P[i] = seq[i + 1] /\ i + 1 \in 1..Len(seq)
      /\ \A i \in 1..Len(seq) : i = 1 \/ (i - 1 \in 1..Len(P) /\ P[i - 1] = seq[i])
  BY TailFacts
<1> HIDE DEF P
<1>2. Asked(P) => Asked(seq)
  BY <1>1 DEF Asked, Asks
<1>3. \A j \in 1..Len(seq) : Asks(seq, "request", j) /\ j # 1 => Asked(P)
  BY <1>1 DEF Asked, Asks
<1>4. ASSUME NEW i \in 1..Len(P), Undone(P, i)
      PROVE  i + 1 \in 1..Len(seq) /\ Undone(seq, i + 1)
  <2>1. Asks(P, "cancel", i) /\ \A j \in 1..Len(P) : i < j => ~Asks(P, "request", j)
    BY <1>4 DEF Undone
  <2>2. i + 1 \in 1..Len(seq) /\ Asks(seq, "cancel", i + 1)
    BY <1>1, <2>1 DEF Asks
  <2>3. ASSUME NEW j \in 1..Len(seq), i + 1 < j
        PROVE  ~Asks(seq, "request", j)
    <3>1. j - 1 \in 1..Len(P) /\ P[j - 1] = seq[j] /\ i < j - 1
      BY <1>1, <2>3
    <3> QED BY <2>1, <3>1 DEF Asks
  <2> QED BY <2>2, <2>3 DEF Undone
<1>5. Asks(seq, "cancel", 1) => Undone(seq, 1) \/ Asked(P)
  BY <1>1, <1>3 DEF Undone
<1>6. Asked(seq) => Asked(P) \/ Asks(seq, "request", 1)
  BY <1>3 DEF Asked
<1> QED BY <1>1, <1>2, <1>4, <1>5, <1>6 DEF P

LEMMA StepLogout ==
    ASSUME TypeOK, LogoutInv, [Next]_vars
    PROVE  LogoutInv'
<1> DEFINE O == outbox["logout"]
<1>0. /\ "logout" \in Sources /\ O \in Seq(Requests) /\ channel \in Seq(Requests)
      /\ outbox \in [Sources -> Seq(Requests)]
      /\ server.answers \in Seq({"accepted", "refused", "cancelled"})
  BY DEF TypeOK, Sources
<1>1. CASE UNCHANGED <<O, pending, channel, server>>
  BY <1>1 DEF LogoutInv
<1>2. ASSUME NEW s \in Sources, Ask(s)
      PROVE  LogoutInv'
  <2>1. s # "logout" /\ Queue(s, "ask") /\ "ask" \in Kinds /\ UNCHANGED <<pending, channel, server>>
    BY <1>2 DEF Ask, Kinds
  <2>2. outbox'["logout"] = outbox["logout"]
    BY <1>0, <2>1, QueueFacts
  <2> QED BY <1>1, <2>1, <2>2
<1>3. CASE AskLogout
  <2>1. UNCHANGED <<channel, server>>
    BY <1>3 DEF AskLogout
  <2>2. ASSUME NEW kind \in {"request", "force"}, Queue("logout", kind),
               pending \/ kind = "request", pending' = TRUE
        PROVE  LogoutInv'
    <3> DEFINE r == Request("logout", kind)
    <3>1. kind \in Kinds
      BY DEF Kinds
    <3>2. r \in Requests /\ r.source = "logout" /\ r.kind = kind
      BY <1>0, <3>1, RequestFacts
    <3>3. outbox'["logout"] = Append(O, r)
      BY <1>0, <2>2, <3>1, QueueFacts
    <3> HIDE DEF r, O
    <3>4. /\ Asked(O) => Asked(Append(O, r))
          /\ \A i \in 1..Len(Append(O, r)) :
                Undone(Append(O, r), i) =>
                   /\ ~(r.source = "logout" /\ r.kind = "request")
                   /\ \/ i \in 1..Len(O) /\ Undone(O, i)
                      \/ i = Len(O) + 1 /\ r.source = "logout" /\ r.kind = "cancel"
          /\ r.source = "logout" /\ r.kind = "request" => Asked(Append(O, r))
      BY <1>0, <3>2, AppendAsks
    <3>5. \A i \in 1..Len(Append(O, r)) : ~Undone(Append(O, r), i)
      <4>1. CASE kind = "request"
        BY <3>2, <3>4, <4>1
      <4>2. CASE kind = "force" /\ pending
        BY <3>2, <3>4, <4>2 DEF LogoutInv, O
      <4> QED BY <2>2, <4>1, <4>2
    <3>6. CASE kind = "request"
      BY <2>1, <3>2, <3>3, <3>4, <3>5, <3>6 DEF LogoutInv
    <3>7. CASE pending
      <4>1. /\ \A i \in 1..Len(channel) : Undone(channel, i) => Asked(O)
            /\ \/ Asked(O) \/ Asked(channel)
               \/ IF server.answers = <<>> THEN server.logging
                  ELSE server.answers[Len(server.answers)] = "accepted" => server.logging
        BY <3>7 DEF LogoutInv, O
      <4> QED BY <2>1, <3>3, <3>4, <3>5, <4>1 DEF LogoutInv
    <3> QED BY <2>2, <3>6, <3>7
  <2>3. CASE ~pending'
    BY <2>3 DEF LogoutInv
  <2>4. CASE ~pending /\ Queue("logout", "request") /\ pending' = TRUE
    BY <2>2, <2>4
  <2>5. CASE Queue("logout", "force") /\ UNCHANGED pending /\ pending'
    BY <2>2, <2>5 DEF TypeOK
  <2> QED BY <1>3, <2>3, <2>4, <2>5 DEF AskLogout
<1>4. CASE ReceiveLogout
  <2>1. /\ UNCHANGED <<O, channel>> /\ server.answers # <<>> /\ server'.logging = server.logging
        /\ server'.answers = Tail(server.answers)
    BY <1>4 DEF ReceiveLogout, TypeOK
  <2>2. pending' => pending /\ Head(server.answers) = "accepted"
    BY <1>4 DEF ReceiveLogout, StillPending
  <2> DEFINE A == server.answers
             T == {"accepted", "refused", "cancelled"}
  <2>3. /\ A \in Seq(T) /\ A # <<>>
    BY <1>0, <2>1
  <2> HIDE DEF A, T
  <2>4. /\ Tail(A) \in Seq(T) /\ Len(Tail(A)) = Len(A) - 1 /\ Len(A) \in Nat
        /\ Head(A) = A[1] /\ \A i \in 1..Len(Tail(A)) : Tail(A)[i] = A[i + 1]
    BY <2>3, TailFacts
  <2>5. Tail(A) = <<>> => A[Len(A)] = Head(A)
    <3> DEFINE B == Tail(A)
    <3> HIDE DEF B
    <3>1. B = <<>> => Len(B) = 0
      OBVIOUS
    <3> QED BY <2>4, <3>1 DEF B
  <2>6. Tail(A) # <<>> => A[Len(A)] = Tail(A)[Len(Tail(A))]
    <3>1. Tail(A) # <<>> => Len(Tail(A)) # 0
      BY <2>4, EmptySeq
    <3> QED BY <2>4, <3>1
  <2>7. ASSUME pending' PROVE LogoutInv'
    <3>1. /\ \A i \in 1..Len(O) : ~Undone(O, i)
          /\ \A i \in 1..Len(channel) : Undone(channel, i) => Asked(O)
          /\ \/ Asked(O) \/ Asked(channel) \/ (A[Len(A)] = "accepted" => server.logging)
      BY <2>1, <2>2, <2>7 DEF LogoutInv, A
    <3>2. (A[Len(A)] = "accepted" => server.logging) =>
            IF Tail(A) = <<>> THEN server.logging
            ELSE Tail(A)[Len(Tail(A))] = "accepted" => server.logging
      BY <2>2, <2>5, <2>6, <2>7 DEF A
    <3> HIDE DEF O
    <3>3. outbox'["logout"] = O /\ channel' = channel
      BY <2>1 DEF O
    <3>4. server'.logging = server.logging /\ server'.answers = Tail(A)
      BY <2>1 DEF A
    <3> QED BY <3>1, <3>2, <3>3, <3>4 DEF LogoutInv
  <2> QED BY <2>7 DEF LogoutInv
<1>5. CASE \/ CreatePlayer \/ BeginFrame \/ UNCHANGED vars
           \/ EnterReplacement \/ PresentNothing \/ Present
  BY <1>1, <1>5 DEF CreatePlayer, BeginFrame, EnterReplacement, PresentNothing, Present, vars
<1>6. CASE ReplaceWorld
  BY <1>0, <1>1, <1>6 DEF ReplaceWorld
<1>7. CASE Move
  <2>1. outbox'["logout"] = outbox["logout"]
    BY <1>0, <1>7 DEF Move
  <2> QED BY <1>1, <1>7, <2>1 DEF Move
<1>8. CASE Trigger
  <2>1. outbox'["logout"] = outbox["logout"]
    BY <1>0, <1>8 DEF Trigger, Queue
  <2> QED BY <1>1, <1>8, <2>1 DEF Trigger
<1>9. ASSUME NEW s \in Sources, NEW stage, Send(s, stage)
      PROVE  LogoutInv'
  <2>1. UNCHANGED <<pending, server>>
    BY <1>9 DEF Send
  <2>2. CASE ~(outbox[s] # <<>> /\ Room)
    <3>1. UNCHANGED <<outbox, channel>>
      BY <1>0, <1>9, <2>2 DEF Send, Remaining
    <3> QED BY <1>1, <2>1, <3>1
  <2>3. CASE outbox[s] # <<>> /\ Room
    <3> DEFINE h == Head(outbox[s])
               C == Append(channel, h)
    <3>1. /\ outbox' = [outbox EXCEPT ![s] = Tail(outbox[s])] /\ channel' = C
      BY <1>9, <2>3 DEF Send, Remaining
    <3>2. h \in Requests /\ h.source = s
      BY <2>3, OwnRequests
    <3> HIDE DEF h
    <3>3. /\ Asked(channel) => Asked(C)
          /\ \A i \in 1..Len(C) :
                Undone(C, i) =>
                   /\ ~(h.source = "logout" /\ h.kind = "request")
                   /\ \/ i \in 1..Len(channel) /\ Undone(channel, i)
                      \/ i = Len(channel) + 1 /\ h.source = "logout" /\ h.kind = "cancel"
          /\ h.source = "logout" /\ h.kind = "request" => Asked(C)
      BY <1>0, <3>2, AppendAsks
    <3> HIDE DEF C
    <3>4. CASE s # "logout"
      <4>1. outbox'["logout"] = O
        BY <1>0, <3>1, <3>4
      <4> HIDE DEF O
      <4>2. pending => /\ \A i \in 1..Len(O) : ~Undone(O, i)
                       /\ \A i \in 1..Len(channel) : Undone(channel, i) => Asked(O)
                       /\ \/ Asked(O) \/ Asked(channel)
                          \/ IF server.answers = <<>> THEN server.logging
                             ELSE server.answers[Len(server.answers)] = "accepted" => server.logging
        BY DEF LogoutInv, O
      <4>3. \A i \in 1..Len(C) : Undone(C, i) => \E j \in 1..Len(channel) : Undone(channel, j)
        BY <3>2, <3>3, <3>4
      <4> QED BY <2>1, <3>1, <3>3, <4>1, <4>2, <4>3 DEF LogoutInv
    <3>5. CASE s = "logout"
      <4>1. outbox'["logout"] = Tail(O) /\ O # <<>> /\ h = Head(O)
        BY <1>0, <2>3, <3>1, <3>5 DEF h
      <4> HIDE DEF O
      <4>2. /\ Asked(O) => Asked(Tail(O)) \/ Asks(O, "request", 1)
            /\ \A i \in 1..Len(Tail(O)) :
                  Undone(Tail(O), i) => i + 1 \in 1..Len(O) /\ Undone(O, i + 1)
            /\ Asks(O, "cancel", 1) => Undone(O, 1) \/ Asked(Tail(O))
            /\ Head(O) = O[1] /\ 1 \in 1..Len(O)
        BY <1>0, <4>1, TailAsks
      <4>3. pending => /\ \A i \in 1..Len(O) : ~Undone(O, i)
                       /\ \A i \in 1..Len(channel) : Undone(channel, i) => Asked(O)
                       /\ \/ Asked(O) \/ Asked(channel)
                          \/ IF server.answers = <<>> THEN server.logging
                             ELSE server.answers[Len(server.answers)] = "accepted" => server.logging
        BY DEF LogoutInv, O
      <4>4. ASSUME pending PROVE \A i \in 1..Len(C) : Undone(C, i) => Asked(Tail(O))
        <5>1. \A i \in 1..Len(C) : Undone(C, i) =>
                /\ ~(h.source = "logout" /\ h.kind = "request")
                /\ Asked(O) \/ (h.source = "logout" /\ h.kind = "cancel")
          BY <3>3, <4>3, <4>4
        <5>2. h.source = "logout" /\ h.kind = "cancel" => Asked(Tail(O))
          BY <4>1, <4>2, <4>3, <4>4 DEF Asks
        <5> QED BY <4>1, <4>2, <5>1, <5>2 DEF Asks
      <4>5. Asked(O) => Asked(Tail(O)) \/ Asked(C)
        BY <3>3, <4>1, <4>2 DEF Asks
      <4>6. pending => \A i \in 1..Len(Tail(O)) : ~Undone(Tail(O), i)
        BY <4>2, <4>3
      <4> QED BY <2>1, <3>1, <3>3, <4>1, <4>3, <4>4, <4>5, <4>6 DEF LogoutInv
    <3> QED BY <3>4, <3>5
  <2> QED BY <2>2, <2>3
<1>10. CASE Acknowledge
  <2>1. UNCHANGED <<outbox, pending, server>>
    BY <1>10 DEF Acknowledge
  <2>2. CASE channel' = Append(channel, Acknowledgement)
    <3> DEFINE C == Append(channel, Acknowledgement)
    <3>1. Acknowledgement \in Requests /\ Acknowledgement.source # "logout"
      BY DEF TypeOK, Acknowledgement, Requests, Kinds
    <3>2. /\ Asked(channel) => Asked(C)
          /\ \A i \in 1..Len(C) : Undone(C, i) => \E j \in 1..Len(channel) : Undone(channel, j)
      <4> DEFINE r == Acknowledgement
      <4> HIDE DEF r
      <4>1. /\ Asked(channel) => Asked(Append(channel, r))
            /\ \A i \in 1..Len(Append(channel, r)) :
                  Undone(Append(channel, r), i) =>
                     /\ ~(r.source = "logout" /\ r.kind = "request")
                     /\ \/ i \in 1..Len(channel) /\ Undone(channel, i)
                        \/ i = Len(channel) + 1 /\ r.source = "logout" /\ r.kind = "cancel"
        BY <1>0, <3>1, AppendAsks DEF r
      <4> QED BY <3>1, <4>1 DEF r
    <3> HIDE DEF C, O
    <3>3. outbox'["logout"] = O /\ channel' = C
      BY <2>1, <2>2 DEF O, C
    <3>4. pending => /\ \A i \in 1..Len(O) : ~Undone(O, i)
                     /\ \A i \in 1..Len(channel) : Undone(channel, i) => Asked(O)
                     /\ \/ Asked(O) \/ Asked(channel)
                        \/ IF server.answers = <<>> THEN server.logging
                           ELSE server.answers[Len(server.answers)] = "accepted" => server.logging
      BY DEF LogoutInv, O
    <3> QED BY <2>1, <3>2, <3>3, <3>4 DEF LogoutInv
  <2> QED BY <1>1, <1>10, <2>1, <2>2 DEF Acknowledge
<1>11. CASE Write
  <2> DEFINE C == Tail(channel)
  <2>1. channel' = C /\ channel # <<>> /\ UNCHANGED <<outbox, pending>>
    BY <1>11 DEF Write
  <2>2. /\ Asked(channel) => Asked(C) \/ Asks(channel, "request", 1)
        /\ \A i \in 1..Len(C) : Undone(C, i) => i + 1 \in 1..Len(channel) /\ Undone(channel, i + 1)
        /\ Asks(channel, "cancel", 1) => Undone(channel, 1) \/ Asked(C)
        /\ Head(channel) = channel[1] /\ 1 \in 1..Len(channel)
    BY <1>0, <2>1, TailAsks
  <2> HIDE DEF C, O
  <2>3. pending => /\ \A i \in 1..Len(O) : ~Undone(O, i)
                   /\ \A i \in 1..Len(channel) : Undone(channel, i) => Asked(O)
                   /\ \/ Asked(O) \/ Asked(channel)
                      \/ IF server.answers = <<>> THEN server.logging
                         ELSE server.answers[Len(server.answers)] = "accepted" => server.logging
    BY DEF LogoutInv, O
  <2>4. outbox'["logout"] = O
    BY <2>1 DEF O
  <2>5. pending => \A i \in 1..Len(C) : Undone(C, i) => Asked(O)
    BY <2>2, <2>3
  <2>6. CASE Asks(channel, "request", 1)
    <3>1. \E answer \in {"accepted", "refused"} :
            server' = [logging |-> answer = "accepted", answers |-> Append(server.answers, answer)]
      BY <1>11, <2>2, <2>6 DEF Write, Serve, Answers, Asks
    <3>2. PICK answer \in {"accepted", "refused"} :
            server' = [logging |-> answer = "accepted", answers |-> Append(server.answers, answer)]
      BY <3>1
    <3> DEFINE A == server.answers
               T == {"accepted", "refused", "cancelled"}
    <3>3. A \in Seq(T) /\ answer \in T
      BY <1>0
    <3>4. server'.answers = Append(A, answer) /\ server'.logging = (answer = "accepted")
      BY <3>2
    <3> HIDE DEF A, T
    <3>5. /\ Append(A, answer) \in Seq(T) /\ Len(Append(A, answer)) = Len(A) + 1 /\ Len(A) \in Nat
          /\ Append(A, answer)[Len(A) + 1] = answer
      BY <3>3, AppendFacts
    <3>6. server'.answers # <<>> /\ server'.answers[Len(server'.answers)] = answer
      <4>1. Len(<<>>) = 0
        OBVIOUS
      <4> QED BY <3>4, <3>5, <4>1
    <3> QED BY <2>1, <2>3, <2>4, <2>5, <3>4, <3>6 DEF LogoutInv
  <2>7. CASE Asks(channel, "cancel", 1)
    <3>1. pending => Asked(O) \/ Asked(C)
      BY <2>2, <2>3, <2>7
    <3> QED BY <2>1, <2>3, <2>4, <2>5, <3>1 DEF LogoutInv
  <2>8. CASE ~Asks(channel, "request", 1) /\ ~Asks(channel, "cancel", 1)
    <3>1. UNCHANGED server
      BY <1>11, <2>2, <2>8 DEF Write, Serve, Answers, Asks
    <3> QED BY <2>1, <2>2, <2>3, <2>4, <2>5, <2>8, <3>1 DEF LogoutInv
  <2> QED BY <2>6, <2>7, <2>8
<1>12. "movement" \in Sources
  BY DEF Sources
<1> QED BY <1>2, <1>3, <1>4, <1>5, <1>6, <1>7, <1>8, <1>9, <1>10, <1>11, <1>12 DEF Next, Frame
-----------------------------------------------------------------------------
(* Every step keeps what is retained with its world.                       *)

\* A request joins a queue of requests that have a property of their own.
LEMMA AppendWorlds ==
    ASSUME NEW seq \in Seq(Requests), NEW r \in Requests, NEW w
    PROVE  /\ (\A i \in 1..Len(seq) : seq[i].world = w) /\ r.world = w
                => \A i \in 1..Len(Append(seq, r)) : Append(seq, r)[i].world = w
           /\ (\A i \in 1..Len(seq) : seq[i].kind # "early" => seq[i].world = w)
                /\ (r.kind # "early" => r.world = w)
                => \A i \in 1..Len(Append(seq, r)) :
                     Append(seq, r)[i].kind # "early" => Append(seq, r)[i].world = w
<1> DEFINE P == Append(seq, r)
<1>1. /\ \A i \in 1..Len(seq) : P[i] = seq[i]
      /\ P[Len(seq) + 1] = r
      /\ \A i \in 1..Len(P) : i \in 1..Len(seq) \/ i = Len(seq) + 1
  BY AppendFacts
<1> HIDE DEF P
<1>2. (\A i \in 1..Len(seq) : seq[i].world = w) /\ r.world = w => \A i \in 1..Len(P) : P[i].world = w
  BY <1>1
<1>3. (\A i \in 1..Len(seq) : seq[i].kind # "early" => seq[i].world = w)
        /\ (r.kind # "early" => r.world = w)
        => \A i \in 1..Len(P) : P[i].kind # "early" => P[i].world = w
  BY <1>1
<1> QED BY <1>2, <1>3 DEF P

\* WorldInv of some values of the variables.
Deaths(seq, w) == \A i \in 1..Len(seq) : seq[i].world = w
Moves(seq, o) == \A i \in 1..Len(seq) : seq[i].kind # "early" => o # None /\ seq[i].world = o

LEMMA StepWorld ==
    ASSUME TypeOK, WorldInv, [Next]_vars
    PROVE  WorldInv'
<1> DEFINE D == outbox["death"]
           M == outbox["movement"]
<1>0. /\ "death" \in Sources /\ "movement" \in Sources /\ D \in Seq(Requests) /\ M \in Seq(Requests)
      /\ outbox \in [Sources -> Seq(Requests)] /\ world # None
      /\ None \notin Nat /\ world \in Nat /\ owner \in 1..world \union {None}
  <2>1. world \in Nat /\ None \notin Nat
    BY OutboxAssumption DEF TypeOK
  <2>2. world # None
    BY <2>1
  <2> QED BY <2>1, <2>2 DEF TypeOK, Sources
<1>1. /\ Deaths(D, world) /\ Moves(M, owner)
      /\ at \notin {"packets", "move"} => owner \in {None, world}
  BY DEF WorldInv, Deaths, Moves
<1> SUFFICES /\ Deaths(outbox'["death"], world') /\ Moves(outbox'["movement"], owner')
             /\ at' \notin {"packets", "move"} => owner' \in {None, world'}
  BY DEF WorldInv, Deaths, Moves
<1>2. ASSUME NEW s \in Sources, Ask(s)
      PROVE  /\ Deaths(outbox'["death"], world') /\ Moves(outbox'["movement"], owner')
             /\ at' \notin {"packets", "move"} => owner' \in {None, world'}
  <2> DEFINE r == Request(s, "ask")
  <2>1. s # "movement" /\ Queue(s, "ask") /\ "ask" \in Kinds /\ UNCHANGED <<at, world, owner>>
    BY <1>2 DEF Ask, Kinds
  <2>2. /\ \A t \in Sources \ {s} : outbox'[t] = outbox[t]
        /\ outbox'[s] = Append(outbox[s], r)
    BY <2>1, QueueFacts
  <2>3. r \in Requests /\ r.world = world
    BY <2>1, RequestFacts
  <2> HIDE DEF r
  <2>4. outbox'["movement"] = M
    BY <1>0, <2>1, <2>2
  <2>5. Deaths(outbox'["death"], world)
    <3>1. CASE s = "death"
      <4>1. Deaths(Append(D, r), world)
        BY <1>0, <1>1, <2>3, AppendWorlds DEF Deaths
      <4> QED BY <2>2, <3>1, <4>1
    <3>2. CASE s # "death"
      BY <1>0, <1>1, <2>2, <3>2
    <3> QED BY <3>1, <3>2
  <2> QED BY <1>1, <2>1, <2>4, <2>5
<1>3. CASE UNCHANGED <<D, M, world, owner>> /\ (at' = at \/ at' \in {"packets", "move"})
  BY <1>1, <1>3
<1>4. CASE AskLogout
  <2>1. PICK kind \in {"request", "force", "cancel"} : Queue("logout", kind)
    BY <1>4 DEF AskLogout
  <2>2. UNCHANGED <<D, M>>
    BY <1>0, <2>1 DEF Queue
  <2> QED BY <1>3, <1>4, <2>2 DEF AskLogout
<1>5. CASE ReceiveLogout \/ CreatePlayer \/ BeginFrame \/ Write \/ UNCHANGED vars
  <2>1. UNCHANGED <<outbox, world, owner>> /\ (at' = at \/ at' = "move")
    BY <1>5 DEF ReceiveLogout, CreatePlayer, BeginFrame, Write, vars
  <2> QED BY <1>3, <2>1
<1>6. CASE ReplaceWorld
  <2>1. outbox'["death"] = <<>> /\ outbox'["movement"] = M /\ at' = "packets" /\ owner' = owner
    BY <1>0, <1>6 DEF ReplaceWorld
  <2>2. Deaths(<<>>, world')
    BY DEF Deaths
  <2> QED BY <1>1, <2>1, <2>2
<1>7. CASE Move
  <2> DEFINE outdated == owner # None /\ owner # world
             r == Request("movement", IF owner = None \/ outdated THEN "mover" ELSE "move")
             K == Kept(outdated)
  <2>1. world' = world /\ outbox'["death"] = D
    BY <1>0, <1>7 DEF Move
  <2>2. r \in Requests /\ r.world = world
    BY <1>0, RequestFacts DEF Kinds
  <2>3. K \in Seq(Requests) /\ Moves(K, IF outdated THEN None ELSE owner)
    <3>1. CASE outdated
      <4>1. K = <<>>
        BY <3>1 DEF Kept
      <4> HIDE DEF K
      <4>2. K \in Seq(Requests) /\ \A i \in 1..Len(K) : FALSE
        BY <4>1
      <4> QED BY <4>2 DEF Moves
    <3>2. CASE ~outdated
      BY <1>0, <1>1, <3>2 DEF Kept
    <3> QED BY <3>1, <3>2
  <2>4. Moves(K, world)
    <3>1. CASE outdated
      BY <2>3, <3>1 DEF Moves
    <3>2. CASE ~outdated
      <4>1. owner = None \/ owner = world
        BY <3>2
      <4> QED BY <1>0, <2>3, <3>2, <4>1 DEF Moves
    <3> QED BY <3>1, <3>2
  <2>5. Moves(Append(K, r), world)
    <3> HIDE DEF r, K
    <3> QED BY <1>0, <2>2, <2>3, <2>4, AppendWorlds DEF Moves
  <2>6. \/ /\ owner' = IF outdated THEN None ELSE owner
           /\ outbox'["movement"] = K
        \/ created /\ ~outdated /\ owner # None /\ owner' = owner /\ outbox'["movement"] = M
        \/ owner' = world /\ outbox'["movement"] = Append(K, r)
    BY <1>0, <1>7 DEF Move
  <2>7. Moves(outbox'["movement"], owner') /\ owner' \in {None, world}
    <3>1. CASE owner' = (IF outdated THEN None ELSE owner) /\ outbox'["movement"] = K
      BY <2>3, <3>1
    <3>2. CASE ~outdated /\ owner # None /\ owner' = owner /\ outbox'["movement"] = M
      BY <1>1, <3>2
    <3>3. CASE owner' = world /\ outbox'["movement"] = Append(K, r)
      BY <2>5, <3>3
    <3> HIDE DEF K, r
    <3> QED BY <2>6, <3>1, <3>2, <3>3
  <2> QED BY <1>1, <2>1, <2>7
<1>8. CASE Trigger
  <2>1. at = "trigger" /\ UNCHANGED <<world, owner>>
    BY <1>8 DEF Trigger
  <2>2. owner \in {None, world}
    BY <1>1, <2>1
  <2>3. CASE UNCHANGED outbox
    BY <1>1, <2>1, <2>2, <2>3
  <2>4. CASE Queue("movement", IF owner = None THEN "early" ELSE "trigger")
    <3> DEFINE kind == IF owner = None THEN "early" ELSE "trigger"
               r == Request("movement", kind)
    <3>1. kind \in Kinds
      BY DEF Kinds
    <3>2. /\ outbox'["death"] = D /\ outbox'["movement"] = Append(M, r)
      BY <1>0, <2>4, <3>1, QueueFacts
    <3>3. r \in Requests /\ r.world = world /\ r.kind = kind
      BY <1>0, <3>1, RequestFacts
    <3> HIDE DEF r
    <3>4. Moves(Append(M, r), owner)
      <4>1. CASE owner = None
        <5>1. r.kind = "early" /\ \A i \in 1..Len(M) : M[i].kind = "early"
          BY <1>1, <3>3, <4>1 DEF Moves
        <5>2. /\ \A i \in 1..Len(M) : Append(M, r)[i] = M[i]
              /\ Append(M, r)[Len(M) + 1] = r
              /\ \A i \in 1..Len(Append(M, r)) : i \in 1..Len(M) \/ i = Len(M) + 1
          BY <1>0, <3>3, AppendFacts
        <5> HIDE DEF M
        <5>3. \A i \in 1..Len(Append(M, r)) : Append(M, r)[i].kind = "early"
          BY <5>1, <5>2
        <5> QED BY <5>3 DEF Moves
      <4>2. CASE owner = world
        <5>1. r.kind # "early" => r.world = owner
          BY <3>3, <4>2
        <5>2. \A i \in 1..Len(M) : M[i].kind # "early" => M[i].world = owner
          BY <1>1 DEF Moves
        <5> HIDE DEF M
        <5>3. \A i \in 1..Len(Append(M, r)) :
                 Append(M, r)[i].kind # "early" => Append(M, r)[i].world = owner
          BY <1>0, <3>3, <5>1, <5>2, AppendWorlds DEF M
        <5> QED BY <1>0, <4>2, <5>3 DEF Moves
      <4> QED BY <2>2, <4>1, <4>2
    <3> QED BY <1>1, <2>1, <2>2, <3>2, <3>4
  <2> QED BY <1>8, <2>3, <2>4 DEF Trigger
<1>9. ASSUME NEW s \in Sources, NEW stage \in Stages \union {"flush", "triggered"}, Send(s, stage)
      PROVE  /\ Deaths(outbox'["death"], world') /\ Moves(outbox'["movement"], owner')
             /\ at' \notin {"packets", "move"} => owner' \in {None, world'}
  <2>1. at = stage /\ UNCHANGED <<world, owner>>
    BY <1>9 DEF Send
  <2>2. owner \in {None, world}
    BY <1>1, <2>1 DEF Stages
  <2>3. CASE ~(outbox[s] # <<>> /\ Room)
    <3>1. UNCHANGED outbox
      BY <1>0, <1>9, <2>3 DEF Send, Remaining
    <3> QED BY <1>1, <2>1, <2>2, <3>1
  <2>4. CASE outbox[s] # <<>> /\ Room
    <3>1. outbox' = [outbox EXCEPT ![s] = Tail(outbox[s])]
      BY <1>9, <2>4 DEF Send, Remaining
    <3>2. outbox[s] \in Seq(Requests)
      BY <1>0
    <3>3. \A i \in 1..Len(Tail(outbox[s])) :
             Tail(outbox[s])[i] = outbox[s][i + 1] /\ i + 1 \in 1..Len(outbox[s])
      BY <2>4, <3>2, TailFacts
    <3>4. s = "death" => Deaths(Tail(outbox[s]), world)
      BY <1>1, <3>3 DEF Deaths
    <3>5. s = "movement" => Moves(Tail(outbox[s]), owner)
      BY <1>1, <3>3 DEF Moves
    <3>6. outbox'["death"] = (IF s = "death" THEN Tail(outbox[s]) ELSE D)
      BY <1>0, <3>1
    <3>7. outbox'["movement"] = (IF s = "movement" THEN Tail(outbox[s]) ELSE M)
      BY <1>0, <3>1
    <3>8. Deaths(outbox'["death"], world)
      BY <1>1, <3>4, <3>6
    <3>9. Moves(outbox'["movement"], owner)
      BY <1>1, <3>5, <3>7
    <3> QED BY <2>1, <2>2, <3>8, <3>9
  <2> QED BY <2>3, <2>4
<1>10. CASE Acknowledge
  <2>1. UNCHANGED <<outbox, world, owner>> /\ at = "transfer"
    BY <1>10 DEF Acknowledge
  <2> QED BY <1>1, <2>1
<1>11. \A s \in Sources \ {"movement"} : s \in Stages \union {"flush", "triggered"}
  BY DEF Sources, Stages
<1>12. CASE EnterReplacement \/ PresentNothing
  BY <1>3, <1>12 DEF EnterReplacement, PresentNothing
<1>13. CASE Present
  <2>1. UNCHANGED <<outbox, world, owner>> /\ at = "present"
    BY <1>13 DEF Present
  <2> QED BY <1>1, <2>1
<1> HIDE DEF D, M
<1> QED BY <1>0, <1>2, <1>4, <1>5, <1>6, <1>7, <1>8, <1>9, <1>10, <1>11, <1>12, <1>13
        DEF Next, Frame
-----------------------------------------------------------------------------
(* The theorems.                                                           *)

\* The strengthening the theorems rest on holds in every reachable state.
THEOREM OutboxInvariant == Spec => []OutboxInv
<1>1. Init => OutboxInv
  <2> SUFFICES ASSUME Init PROVE OutboxInv
    OBVIOUS
  <2> USE OutboxAssumption DEF Init
  <2>1. \A i : i \notin 1..Len(<<>>)
    OBVIOUS
  <2>2. TypeOK
    <3>1. at \in DOMAIN After \union {"packets", "move"}
      OBVIOUS
    <3>2. \A s \in Sources : MaxAsked[s] \in Nat
      OBVIOUS
    <3>3. \A s \in Sources : made[s] <= MaxAsked[s]
      BY <3>2
    <3>4. \A s \in Sources : \A i \in DOMAIN outbox[s] : outbox[s][i].source = s
      OBVIOUS
    <3>5. /\ world \in 1..MaxWorlds /\ owner \in 1..world \union {None}
          /\ created \in BOOLEAN /\ loading \in BOOLEAN /\ entering \in BOOLEAN /\ pending \in BOOLEAN
      <4>1. 1 \in 1..MaxWorlds
        BY DEF Init
      <4> QED BY <4>1
    <3>6. channel \in Seq(Requests) /\ Len(channel) <= Capacity
      OBVIOUS
    <3>7. server \in [logging: BOOLEAN, answers: Seq({"accepted", "refused", "cancelled"})]
      OBVIOUS
    <3>8. /\ outbox \in [Sources -> Seq(Requests)] /\ made \in [Sources -> Nat]
          /\ sent \in [Sources -> Seq(Nat)] /\ dropped \in [Sources -> SUBSET Nat]
      OBVIOUS
    <3> QED BY <3>1, <3>3, <3>4, <3>5, <3>6, <3>7, <3>8, Zenon DEF TypeOK
  <2>3. LineInv
    <3> SUFFICES ASSUME NEW s \in Sources PROVE InLine(s, 0, {}, <<>>, <<>>, <<>>)
      BY DEF LineInv
    <3> QED BY DEF InLine
  <2>4. LogoutInv
    BY DEF LogoutInv
  <2>5. WorldInv
    BY DEF WorldInv, Sources
  <2> QED BY <2>2, <2>3, <2>4, <2>5 DEF OutboxInv
<1>2. OutboxInv /\ [Next]_vars => OutboxInv'
  BY StepTyped, StepInLine, StepLogout, StepWorld DEF OutboxInv
<1> QED BY <1>1, <1>2, PTL DEF Spec

\* Every variable has its type and the writer channel keeps its capacity, whatever the
\* capacity and the number of requests.
THEOREM TypeCorrect == Spec => []TypeOK
<1>1. OutboxInv => TypeOK
  BY DEF OutboxInv
<1> QED BY <1>1, OutboxInvariant, PTL

LEMMA LinesKept == TypeOK /\ LineInv => RequestsKept
<1> SUFFICES ASSUME TypeOK, LineInv, NEW s \in Sources
             PROVE  /\ Increasing(sent[s], DOMAIN sent[s])
                    /\ Increasing(Numbers(channel), Places(s))
                    /\ Increasing(Numbers(outbox[s]), DOMAIN outbox[s])
                    /\ Before(ToSet(sent[s]), Admitted(s) \union Retained(s))
                    /\ Before(Admitted(s), Retained(s))
                    /\ ToSet(sent[s]) \union Admitted(s) \union Retained(s) = (1..made[s]) \ dropped[s]
                    /\ dropped[s] # {} => s \in {"movement", "death"}
  BY DEF RequestsKept
<1> DEFINE O == outbox[s]
           S == sent[s]
<1>1. /\ made[s] \in Nat /\ S \in Seq(Nat) /\ channel \in Seq(Requests) /\ O \in Seq(Requests)
      /\ InLine(s, made[s], dropped[s], S, channel, O)
  BY LinePieces
<1>2. /\ DOMAIN S = 1..Len(S) /\ DOMAIN O = 1..Len(O) /\ DOMAIN channel = 1..Len(channel)
  BY <1>1
<1>3. /\ ToSet(S) = {S[i] : i \in 1..Len(S)}
      /\ Retained(s) = {O[i].number : i \in 1..Len(O)}
      /\ Admitted(s) = {channel[i].number : i \in {j \in 1..Len(channel) : channel[j].source = s}}
  BY <1>2 DEF ToSet, Retained, Numbers, Admitted, Places
<1>4. /\ \A i \in 1..Len(O) : Numbers(O)[i] = O[i].number
      /\ \A i \in 1..Len(channel) : Numbers(channel)[i] = channel[i].number
  BY <1>2 DEF Numbers
<1> HIDE DEF O, S
<1>5. Increasing(S, DOMAIN S)
  BY <1>1, <1>2 DEF Increasing, InLine
<1>6. Increasing(Numbers(channel), Places(s))
  BY <1>1, <1>2, <1>4 DEF Increasing, InLine, Places
<1>7. Increasing(Numbers(O), DOMAIN O)
  BY <1>1, <1>2, <1>4 DEF Increasing, InLine
<1>8. Before(ToSet(S), Admitted(s) \union Retained(s))
  BY <1>1, <1>3 DEF Before, InLine
<1>9. Before(Admitted(s), Retained(s))
  BY <1>1, <1>3 DEF Before, InLine
<1>10. ToSet(S) \union Admitted(s) \union Retained(s) = (1..made[s]) \ dropped[s]
  <2>1. ToSet(S) \union Admitted(s) \union Retained(s) \subseteq (1..made[s]) \ dropped[s]
    BY <1>1, <1>3 DEF InLine
  <2>2. ASSUME NEW k \in (1..made[s]) \ dropped[s]
        PROVE  k \in ToSet(S) \union Admitted(s) \union Retained(s)
    <3>1. \/ \E i \in 1..Len(S) : S[i] = k
          \/ \E i \in 1..Len(channel) : channel[i].source = s /\ channel[i].number = k
          \/ \E i \in 1..Len(O) : O[i].number = k
      BY <1>1 DEF InLine
    <3> QED BY <1>3, <3>1
  <2> QED BY <2>1, <2>2
<1>11. dropped[s] # {} => s \in {"movement", "death"}
  BY <1>1 DEF InLine
<1> QED BY <1>5, <1>6, <1>7, <1>8, <1>9, <1>10, <1>11 DEF O, S

\* The requests of every source are written in the order they were made, none twice and
\* none lost but with its world, for every capacity of the writer channel
\* (flush_output, send_corpse_queries, send_world_ui_actions).
THEOREM NoneLost == Spec => []RequestsKept
<1>1. OutboxInv => RequestsKept
  BY LinesKept DEF OutboxInv
<1> QED BY <1>1, OutboxInvariant, PTL

\* A client that refuses to ask for a logout has one under way, whatever order
\* requests, cancellations, forced logouts and answers come in (LogoutState::pending).
THEOREM LogoutUnderWay == Spec => []LogoutOpen
<1>1. OutboxInv => LogoutOpen
  <2> SUFFICES ASSUME OutboxInv, pending, outbox["logout"] = <<>>, server.answers = <<>>,
                      \A r \in ToSet(channel) : r.source # "logout"
               PROVE  server.logging
    BY DEF LogoutOpen
  <2>1. channel \in Seq(Requests) /\ DOMAIN channel = 1..Len(channel)
    BY DEF OutboxInv, TypeOK
  <2>2. ~Asked(channel)
    BY <2>1 DEF Asked, Asks, ToSet
  <2>3. ~Asked(outbox["logout"])
    BY DEF Asked
  <2> QED BY <2>2, <2>3 DEF OutboxInv, LogoutInv
<1> QED BY <1>1, OutboxInvariant, PTL

\* What an owner of movement, or the player's death, asks is admitted to the channel
\* only while its own world is active (RuntimePlayerMovement::service,
\* begin_world_replacement).
THEOREM NothingOfOldWorlds == Spec => OfThisWorld
<1>1. ASSUME OutboxInv, [Next]_vars, NEW s \in {"movement", "death"}, NEW r \in ToSet(outbox[s]),
             Admits(r), r.kind # "early"
      PROVE  r.world = world
  <2>1. /\ TypeOK /\ WorldInv /\ s \in Sources /\ channel \in Seq(Requests)
        /\ outbox[s] \in Seq(Requests) /\ DOMAIN outbox[s] = 1..Len(outbox[s])
        /\ \A i \in DOMAIN outbox[s] : outbox[s][i].source = s
    <3>1. TypeOK /\ WorldInv /\ s \in Sources
      BY <1>1 DEF OutboxInv, Sources
    <3>2. channel \in Seq(Requests)
      BY <3>1 DEF TypeOK
    <3> QED BY <3>1, <3>2, OwnRequests
  <2>2. r \in Requests /\ r.source = s
    <3>1. PICK i \in DOMAIN outbox[s] : r = outbox[s][i]
      BY DEF ToSet
    <3> QED BY <2>1, <3>1
  <2>3. channel' = Append(channel, r) /\ Len(channel') = Len(channel) + 1 /\ Len(channel) \in Nat
    BY <1>1, <2>1, <2>2, AppendFacts DEF Admits
  <2>4. channel' # channel
    BY <2>3
  <2>5. \A e \in Requests : channel' = Append(channel, e) => e = r
    <3> TAKE e \in Requests
    <3> HAVE channel' = Append(channel, e)
    <3>1. Append(channel, e)[Len(channel) + 1] = e
      BY <2>1, AppendFacts
    <3>2. Append(channel, r)[Len(channel) + 1] = r
      BY <2>1, <2>2, AppendFacts
    <3> QED BY <2>3, <3>1, <3>2
  <2>6. CASE Acknowledge
    <3>1. channel' = Append(channel, Acknowledgement)
      BY <2>4, <2>6 DEF Acknowledge
    <3>2. Acknowledgement \in Requests /\ Acknowledgement.source = "transfer"
      BY <2>1 DEF TypeOK, Acknowledgement, Requests, Kinds
    <3> QED BY <2>2, <2>5, <3>1, <3>2
  <2>7. ASSUME NEW t \in Sources, NEW stage, Send(t, stage),
               t = "movement" => stage \notin {"packets", "move"}
        PROVE  r.world = world
    <3>1. outbox[t] # <<>> /\ channel' = Append(channel, Head(outbox[t])) /\ at = stage
      BY <2>4, <2>7 DEF Send
    <3>2. Head(outbox[t]) \in Requests /\ Head(outbox[t]).source = t
      BY <2>1, <3>1, OwnRequests
    <3>3. r = Head(outbox[t])
      BY <2>5, <3>1, <3>2
    <3>4. t = s
      BY <2>2, <3>2, <3>3
    <3>5. r = outbox[s][1] /\ 1 \in 1..Len(outbox[s])
      BY <2>1, <3>1, <3>3, <3>4, TailFacts
    <3>6. CASE s = "death"
      BY <2>1, <3>5, <3>6 DEF WorldInv
    <3>7. CASE s = "movement"
      <4>1. owner \in {None, world}
        BY <2>1, <2>7, <3>1, <3>4, <3>7 DEF WorldInv
      <4>2. owner # None /\ r.world = owner
        BY <1>1, <2>1, <3>5, <3>7 DEF WorldInv
      <4> QED BY <4>1, <4>2
    <3> QED BY <3>6, <3>7
  <2>8. CASE Write
    <3>1. Len(Tail(channel)) = Len(channel) - 1
      BY <2>1, <2>8, TailFacts DEF Write
    <3> QED BY <2>3, <2>8, <3>1 DEF Write
  <2>9. CASE UNCHANGED channel
    BY <2>4, <2>9
  <2>10. \/ Acknowledge \/ Write \/ UNCHANGED channel
         \/ Send("movement", "flush") \/ Send("movement", "triggered")
         \/ \E t \in Sources \ {"movement"} : Send(t, t)
    BY <1>1 DEF Next, Frame, BeginFrame, Move, Trigger, EnterReplacement, PresentNothing, Present, Ask,
                AskLogout, ReceiveLogout, CreatePlayer, ReplaceWorld, vars
  <2>11. "movement" \in Sources
    BY DEF Sources
  <2> QED BY <2>6, <2>7, <2>8, <2>9, <2>10, <2>11
<1>2. OutboxInv /\ [Next]_vars =>
        [\A s \in {"movement", "death"} : \A r \in ToSet(outbox[s]) :
            Admits(r) /\ r.kind # "early" => r.world = world]_vars
  BY <1>1
<1> QED BY <1>2, OutboxInvariant, PTL DEF Spec, OfThisWorld
=============================================================================
