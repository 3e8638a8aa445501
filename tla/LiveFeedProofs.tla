---------------------------- MODULE LiveFeedProofs ----------------------------
(****************************************************************************)
(* The deltas of the live view arrive in order, once, and with no gap but   *)
(* what a full queue drops, whatever the threads, the server's coroutines   *)
(* and the connections do.                                                  *)
(*                                                                          *)
(* With one tool thread, moreover, a page that connected between two        *)
(* ingests shows the stored graph whenever the feed is quiet.               *)
(****************************************************************************)
EXTENDS LiveFeed, ListLemmas

------------------------------------------------------------------------------
(* Ordered lists of deltas.                                                 *)

\* An element that may follow all of an ordered sequence may be appended to it.
LEMMA OrderedAppend ==
    ASSUME NEW S, NEW s \in Seq(S), NEW x \in S, Ordered(s), Before(ToSet(s), {x})
    PROVE  Ordered(Append(s, x))
  <1>1. \A k \in DOMAIN s : Precedes(s[k], x)
    BY DEF Before, ToSet
  <1>2. ASSUME NEW j \in DOMAIN Append(s, x), NEW k \in DOMAIN Append(s, x), j < k
        PROVE  Precedes(Append(s, x)[j], Append(s, x)[k])
    <2>1. CASE k \in DOMAIN s
      <3>1. j \in DOMAIN s
        BY <1>2, <2>1, AppendAt
      <3>2. QED
        BY <1>2, <2>1, <3>1, AppendAt DEF Ordered
    <2>2. CASE k = Len(s) + 1
      <3>1. j \in DOMAIN s
        BY <1>2, <2>2, AppendAt
      <3>2. QED
        BY <1>1, <2>2, <3>1, AppendAt
    <2>3. QED
      BY <1>2, <2>1, <2>2, AppendAt
  <1>3. QED
    BY <1>2 DEF Ordered

LEMMA OrderedTail ==
    ASSUME NEW S, NEW s \in Seq(S), s # <<>>, Ordered(s)
    PROVE  Ordered(Tail(s)) /\ Before({Head(s)}, ToSet(Tail(s)))
  <1>1. \A k \in DOMAIN Tail(s) : Precedes(Head(s), Tail(s)[k])
    BY TailAt DEF Ordered
  <1>2. ASSUME NEW j \in DOMAIN Tail(s), NEW k \in DOMAIN Tail(s), j < k
        PROVE  Precedes(Tail(s)[j], Tail(s)[k])
    <2>1. j + 1 < k + 1
      BY <1>2, TailAt
    <2>2. QED
      BY <2>1, TailAt DEF Ordered
  <1>3. QED
    BY <1>1, <1>2 DEF Ordered, Before, ToSet

LEMMA OrderedConcat ==
    ASSUME NEW S, NEW s \in Seq(S), NEW t \in Seq(S), Ordered(s), Ordered(t),
           Before(ToSet(s), ToSet(t))
    PROVE  Ordered(s \o t)
  <1>1. \A j \in DOMAIN s : \A k \in DOMAIN t : Precedes(s[j], t[k])
    BY DEF Before, ToSet
  <1>2. Len(s) \in Nat /\ DOMAIN s = 1 .. Len(s) /\ DOMAIN t = 1 .. Len(t)
        /\ DOMAIN (s \o t) \subseteq Nat
    OBVIOUS
  <1>3. ASSUME NEW j \in DOMAIN (s \o t), NEW k \in DOMAIN (s \o t), j < k
        PROVE  Precedes((s \o t)[j], (s \o t)[k])
    <2>1. CASE j \in DOMAIN s /\ (s \o t)[j] = s[j] /\ k \in DOMAIN s /\ (s \o t)[k] = s[k]
      BY <1>3, <2>1 DEF Ordered
    <2>2. CASE /\ j \in DOMAIN s /\ (s \o t)[j] = s[j]
               /\ k - Len(s) \in DOMAIN t /\ (s \o t)[k] = t[k - Len(s)]
      BY <1>1, <2>2
    <2>3. CASE /\ j - Len(s) \in DOMAIN t /\ (s \o t)[j] = t[j - Len(s)]
               /\ k - Len(s) \in DOMAIN t /\ (s \o t)[k] = t[k - Len(s)]
      <3>1. j - Len(s) < k - Len(s)
        BY <1>2, <1>3
      <3>2. QED
        BY <2>3, <3>1 DEF Ordered
    <2>4. CASE j > Len(s) /\ k \in DOMAIN s
      BY <1>2, <1>3, <2>4
    <2>5. QED
      BY <2>1, <2>2, <2>3, <2>4, ConcatAt
  <1>4. QED
    BY <1>3 DEF Ordered

\* A group of deltas of one rank, listed.
LEMMA OrderedGroup ==
    ASSUME NEW D, IsFiniteSet(D), NEW r \in Nat, \A d \in D : Rank(d) = r
    PROVE  Ordered(SetToSeq(D))
  <1>1. \A k \in DOMAIN SetToSeq(D) : SetToSeq(D)[k] \in D /\ k \in Nat
    <2>1. SetToSeq(D) \in Seq(D)
      BY Lists
    <2>2. QED
      BY <2>1
  <1>2. \A j, k \in DOMAIN SetToSeq(D) : j < k => SetToSeq(D)[j] # SetToSeq(D)[k]
    BY <1>1, Lists
  <1>3. QED
    BY <1>1, <1>2 DEF Ordered, Precedes

------------------------------------------------------------------------------
(* The deltas of an ingest.                                                 *)

LEMMA PartsAre ==
    ASSUME NEW i \in Ingest, NEW known
    PROVE  LET p == Parts(i, known) IN
           /\ \A part \in {p.event, p.facts, p.links, p.edges, p.complete} :
                 /\ IsFiniteSet(part) /\ part \subseteq Deltas
                 /\ \A d \in part : d.ingest = i
           /\ \A d \in p.event : Rank(d) = 1
           /\ \A d \in p.facts : Rank(d) = 2
           /\ \A d \in p.links : Rank(d) = 3
           /\ \A d \in p.edges : Rank(d) = 4
           /\ \A d \in p.complete : Rank(d) = 5
  <1> DEFINE p == Parts(i, known)
             Linked == {FactElement(f) : f \in Touches[i]}
  <1>1. IsFiniteSet(Touches[i]) /\ Touches[i] \subseteq Facts
    BY LiveFeedAssumption DEF Facts
  <1>2. IsFiniteSet(Linked)
    <2> DEFINE g == [f \in Touches[i] |-> FactElement(f)]
    <2>1. IsFiniteSet({g[f] : f \in Touches[i]})
      BY <1>1, FiniteImage
    <2>2. Linked = {g[f] : f \in Touches[i]}
      OBVIOUS
    <2>3. QED
      BY <2>1, <2>2
  <1>3. \A S \in {Linked \ known, Linked \cap known} : IsFiniteSet(S)
    BY <1>2, FS_Subset
  <1>4. ASSUME NEW S, IsFiniteSet(S), NEW t PROVE IsFiniteSet({Delta(i, t, el) : el \in S})
    <2> DEFINE g == [el \in S |-> Delta(i, t, el)]
    <2>1. IsFiniteSet({g[el] : el \in S})
      BY <1>4, FiniteImage
    <2>2. {Delta(i, t, el) : el \in S} = {g[el] : el \in S}
      OBVIOUS
    <2>3. QED
      BY <2>1, <2>2
  <1>5. IsFiniteSet(p.facts) /\ IsFiniteSet(p.links)
    BY <1>3, <1>4 DEF Parts
  <1>6. IsFiniteSet(p.edges)
    <2> DEFINE g == [f \in Touches[i] |-> Delta(i, "edge_added", EdgeElement(i, f))]
    <2>1. IsFiniteSet({g[f] : f \in Touches[i]})
      BY <1>1, FiniteImage
    <2>2. p.edges = {g[f] : f \in Touches[i]}
      BY DEF Parts
    <2>3. QED
      BY <2>1, <2>2
  <1>7. IsFiniteSet(p.event) /\ IsFiniteSet(p.complete)
    BY FS_Singleton DEF Parts
  <1>8. /\ p.event \subseteq Deltas /\ p.facts \subseteq Deltas /\ p.links \subseteq Deltas
        /\ p.edges \subseteq Deltas /\ p.complete \subseteq Deltas
    BY <1>1 DEF Parts, Deltas, Delta, Elements
  <1>9. /\ \A d \in p.event : d.ingest = i /\ Rank(d) = 1
        /\ \A d \in p.links : d.ingest = i /\ Rank(d) = 3
        /\ \A d \in p.edges : d.ingest = i /\ Rank(d) = 4
        /\ \A d \in p.complete : d.ingest = i /\ Rank(d) = 5
    BY DEF Parts, Delta, Rank, EventElement
  <1>10. \A d \in p.facts : d.ingest = i /\ Rank(d) = 2
    BY DEF Parts, Delta, Rank, FactElement
  <1>11. QED
    BY <1>5, <1>6, <1>7, <1>8, <1>9, <1>10

\* They are all of the ingest, each once, and in order: its event before its
\* edges, and its completion last.
LEMMA DeltasOfIngest ==
    ASSUME NEW i \in Ingest, NEW known
    PROVE  /\ DeltasOf(i, known) \in Seq(Deltas) /\ Ordered(DeltasOf(i, known))
           /\ \A d \in ToSet(DeltasOf(i, known)) : d.ingest = i
           /\ EventDelta(i) \in ToSet(DeltasOf(i, known))
           /\ \A f \in Touches[i] : EdgeDelta(i, f) \in ToSet(DeltasOf(i, known))
           /\ LET p == Parts(i, known)
              IN ToSet(DeltasOf(i, known)) =
                    p.event \cup p.facts \cup p.links \cup p.edges \cup p.complete
  <1> DEFINE p == Parts(i, known)
             s1 == SetToSeq(p.event)
             s2 == s1 \o SetToSeq(p.facts)
             s3 == s2 \o SetToSeq(p.links)
             s4 == s3 \o SetToSeq(p.edges)
             s5 == s4 \o SetToSeq(p.complete)
  <1>1. /\ \A part \in {p.event, p.facts, p.links, p.edges, p.complete} :
              /\ IsFiniteSet(part) /\ part \subseteq Deltas
              /\ \A d \in part : d.ingest = i
        /\ \A d \in p.event : Rank(d) = 1
        /\ \A d \in p.facts : Rank(d) = 2
        /\ \A d \in p.links : Rank(d) = 3
        /\ \A d \in p.edges : Rank(d) = 4
        /\ \A d \in p.complete : Rank(d) = 5
    BY PartsAre
  <1>2. EventDelta(i) \in p.event /\ \A f \in Touches[i] : EdgeDelta(i, f) \in p.edges
    BY DEF Parts, EventDelta, EdgeDelta
  <1>3. DeltasOf(i, known) = s5
    BY DEF DeltasOf
  <1> HIDE DEF p
  <1>4. \A part \in {p.event, p.facts, p.links, p.edges, p.complete} :
           SetToSeq(part) \in Seq(Deltas) /\ ToSet(SetToSeq(part)) = part
    <2> SUFFICES ASSUME NEW part \in {p.event, p.facts, p.links, p.edges, p.complete}
                 PROVE  SetToSeq(part) \in Seq(Deltas) /\ ToSet(SetToSeq(part)) = part
      OBVIOUS
    <2>1. SetToSeq(part) \in Seq(part) /\ ToSet(SetToSeq(part)) = part /\ part \subseteq Deltas
      BY <1>1, Lists
    <2>2. QED
      BY <2>1
  <1>5. /\ Ordered(SetToSeq(p.event)) /\ Ordered(SetToSeq(p.facts)) /\ Ordered(SetToSeq(p.links))
        /\ Ordered(SetToSeq(p.edges)) /\ Ordered(SetToSeq(p.complete))
    BY <1>1, OrderedGroup
  <1>6. ASSUME NEW s \in Seq(Deltas), Ordered(s), NEW t \in Seq(Deltas), Ordered(t),
               NEW r \in Nat, \A d \in ToSet(t) : Rank(d) = r,
               \A d \in ToSet(s) : Rank(d) \in 0 .. (r - 1)
        PROVE  /\ s \o t \in Seq(Deltas) /\ Ordered(s \o t)
               /\ ToSet(s \o t) = ToSet(s) \cup ToSet(t)
    <2>1. Before(ToSet(s), ToSet(t))
      BY <1>6 DEF Before, Precedes
    <2>2. ToSet(s \o t) = ToSet(s) \cup ToSet(t) /\ s \o t \in Seq(Deltas)
      BY ConcatAt
    <2>3. QED
      BY <1>6, <2>1, <2>2, OrderedConcat
  <1>7. s1 \in Seq(Deltas) /\ Ordered(s1) /\ ToSet(s1) = p.event
        /\ \A d \in ToSet(s1) : Rank(d) \in 0 .. 1
    BY <1>1, <1>4, <1>5
  <1> HIDE DEF s1
  <1>8. s2 \in Seq(Deltas) /\ Ordered(s2) /\ ToSet(s2) = p.event \cup p.facts
        /\ \A d \in ToSet(s2) : Rank(d) \in 0 .. 2
    <2>1. \A d \in ToSet(s1) : Rank(d) \in 0 .. (2 - 1)
      BY <1>7
    <2>2. \A d \in ToSet(SetToSeq(p.facts)) : Rank(d) = 2
      BY <1>1, <1>4
    <2>3. SetToSeq(p.facts) \in Seq(Deltas) /\ Ordered(SetToSeq(p.facts)) /\ ToSet(SetToSeq(p.facts)) = p.facts
      BY <1>4, <1>5
    <2>4. s2 \in Seq(Deltas) /\ Ordered(s2) /\ ToSet(s2) = ToSet(s1) \cup p.facts
      BY <1>6, <1>7, <2>1, <2>2, <2>3
    <2>5. QED
      BY <1>1, <1>7, <2>4
  <1> HIDE DEF s2
  <1>9. s3 \in Seq(Deltas) /\ Ordered(s3) /\ ToSet(s3) = p.event \cup p.facts \cup p.links
        /\ \A d \in ToSet(s3) : Rank(d) \in 0 .. 3
    <2>1. \A d \in ToSet(s2) : Rank(d) \in 0 .. (3 - 1)
      BY <1>8
    <2>2. \A d \in ToSet(SetToSeq(p.links)) : Rank(d) = 3
      BY <1>1, <1>4
    <2>3. SetToSeq(p.links) \in Seq(Deltas) /\ Ordered(SetToSeq(p.links)) /\ ToSet(SetToSeq(p.links)) = p.links
      BY <1>4, <1>5
    <2>4. s3 \in Seq(Deltas) /\ Ordered(s3) /\ ToSet(s3) = ToSet(s2) \cup p.links
      BY <1>6, <1>8, <2>1, <2>2, <2>3
    <2>5. QED
      BY <1>1, <1>8, <2>4
  <1> HIDE DEF s3
  <1>10. /\ s4 \in Seq(Deltas) /\ Ordered(s4)
         /\ ToSet(s4) = p.event \cup p.facts \cup p.links \cup p.edges
         /\ \A d \in ToSet(s4) : Rank(d) \in 0 .. 4
    <2>1. \A d \in ToSet(s3) : Rank(d) \in 0 .. (4 - 1)
      BY <1>9
    <2>2. \A d \in ToSet(SetToSeq(p.edges)) : Rank(d) = 4
      BY <1>1, <1>4
    <2>3. SetToSeq(p.edges) \in Seq(Deltas) /\ Ordered(SetToSeq(p.edges)) /\ ToSet(SetToSeq(p.edges)) = p.edges
      BY <1>4, <1>5
    <2>4. s4 \in Seq(Deltas) /\ Ordered(s4) /\ ToSet(s4) = ToSet(s3) \cup p.edges
      BY <1>6, <1>9, <2>1, <2>2, <2>3
    <2>5. QED
      BY <1>1, <1>9, <2>4
  <1> HIDE DEF s4
  <1>11. /\ s5 \in Seq(Deltas) /\ Ordered(s5)
         /\ ToSet(s5) = p.event \cup p.facts \cup p.links \cup p.edges \cup p.complete
    <2>1. \A d \in ToSet(s4) : Rank(d) \in 0 .. (5 - 1)
      BY <1>10
    <2>2. \A d \in ToSet(SetToSeq(p.complete)) : Rank(d) = 5
      BY <1>1, <1>4
    <2>3. SetToSeq(p.complete) \in Seq(Deltas) /\ Ordered(SetToSeq(p.complete)) /\ ToSet(SetToSeq(p.complete)) = p.complete
      BY <1>4, <1>5
    <2>4. s5 \in Seq(Deltas) /\ Ordered(s5) /\ ToSet(s5) = ToSet(s4) \cup p.complete
      BY <1>6, <1>10, <2>1, <2>2, <2>3
    <2>5. QED
      BY <1>1, <1>10, <2>4
  <1>12. LET q == Parts(i, known)
         IN ToSet(DeltasOf(i, known)) = q.event \cup q.facts \cup q.links \cup q.edges \cup q.complete
    BY <1>3, <1>11 DEF p
  <1>13. QED
    BY <1>1, <1>2, <1>3, <1>11, <1>12

------------------------------------------------------------------------------
(* Type correctness.                                                        *)

LEMMA ShownType ==
    ASSUME NEW v \in SUBSET Elements, NEW d \in Deltas
    PROVE  Shown(v, d) \in SUBSET Elements
  BY DEF Shown, Deltas

LEMMA HandlerTypes ==
    ASSUME Inv, NEW i \in Ingest, Handle(i)
    PROVE  TypeOK'
  <1>0. TypeOK /\ deltas[i] \in Seq(Deltas) /\ (enq[i] # "put" => deltas[i] # <<>>)
    BY DEF Inv, TypeOK, HandlersOK
  <1>1. CASE Commit(i)
    <2>1. stored' \subseteq Elements
      <3>1. ElementsOf(i) \subseteq Elements
        BY DEF ElementsOf, Elements, Facts
      <3>2. QED
        BY <1>0, <1>1, <3>1 DEF Commit, TypeOK
    <2>2. DeltasOf(i, stored) \in Seq(Deltas)
      BY DeltasOfIngest
    <2>3. QED
      BY <1>0, <1>1, <2>1, <2>2 DEF Commit, TypeOK, round, history
  <1>2. CASE PutNowait(i)
    <2>1. deltas[i] # <<>> /\ Head(deltas[i]) \in Deltas /\ Tail(deltas[i]) \in Seq(Deltas)
      BY <1>0, <1>2, TailAt DEF PutNowait
    <2>2. \/ UNCHANGED <<queue, deltas>>
          \/ /\ Len(queue) < QueueMax /\ queue' = Append(queue, Head(deltas[i]))
             /\ deltas' = [deltas EXCEPT ![i] = Tail(deltas[i])]
      BY <1>2 DEF PutNowait, HasRoom, Next1
    <2>3. queue' \in Seq(Deltas) /\ Len(queue') <= QueueMax /\ deltas' \in [Ingest -> Seq(Deltas)]
      <3>1. CASE UNCHANGED <<queue, deltas>>
        BY <1>0, <3>1 DEF TypeOK
      <3>2. CASE /\ Len(queue) < QueueMax /\ queue' = Append(queue, Head(deltas[i]))
                 /\ deltas' = [deltas EXCEPT ![i] = Tail(deltas[i])]
        BY <1>0, <2>1, <3>2, LiveFeedAssumption DEF TypeOK
      <3>3. QED
        BY <2>2, <3>1, <3>2
    <2>4. enq' \in [Ingest -> {"put", "pop", "reput"}]
      BY <1>0, <1>2 DEF PutNowait, Next1, TypeOK
    <2>5. QED
      BY <1>0, <1>2, <2>3, <2>4 DEF PutNowait, TypeOK, round, history
  <1>3. CASE PopOldest(i) \/ Reput(i)
    <2>1. deltas[i] # <<>> /\ Head(deltas[i]) \in Deltas /\ Tail(deltas[i]) \in Seq(Deltas)
      BY <1>0, <1>3, TailAt DEF PopOldest, Reput
    <2>2. deltas' = deltas \/ deltas' = [deltas EXCEPT ![i] = Tail(deltas[i])]
      BY <1>3 DEF PopOldest, Reput, Next1
    <2>3. /\ queue' \in Seq(Deltas) /\ Len(queue') <= QueueMax
          /\ dropped' \subseteq Deltas
      <3>1. \/ queue # <<>> /\ queue' = Tail(queue) /\ dropped' = dropped \cup {Head(queue)}
            \/ queue' = queue /\ dropped' = dropped \cup {Head(deltas[i])}
            \/ /\ Len(queue) < QueueMax /\ queue' = Append(queue, Head(deltas[i]))
               /\ dropped' = dropped
        BY <1>3 DEF PopOldest, Reput, HasRoom
      <3>2. /\ queue # <<>> => Tail(queue) \in Seq(Deltas) /\ Head(queue) \in Deltas
            /\ queue # <<>> => Len(Tail(queue)) = Len(queue) - 1
        BY <1>0, TailAt DEF TypeOK
      <3>3. CASE queue # <<>> /\ queue' = Tail(queue) /\ dropped' = dropped \cup {Head(queue)}
        BY <1>0, <3>2, <3>3, LiveFeedAssumption DEF TypeOK
      <3>4. CASE queue' = queue /\ dropped' = dropped \cup {Head(deltas[i])}
        BY <1>0, <2>1, <3>4 DEF TypeOK
      <3>5. CASE /\ Len(queue) < QueueMax /\ queue' = Append(queue, Head(deltas[i]))
                 /\ dropped' = dropped
        BY <1>0, <2>1, <3>5, LiveFeedAssumption DEF TypeOK
      <3>6. QED
        BY <3>1, <3>3, <3>4, <3>5
    <2>4. enq' \in [Ingest -> {"put", "pop", "reput"}]
      BY <1>0, <1>3 DEF PopOldest, Reput, Next1, TypeOK
    <2>5. deltas' \in [Ingest -> Seq(Deltas)]
      BY <1>0, <2>1, <2>2 DEF TypeOK
    <2>6. QED
      BY <1>0, <1>3, <2>3, <2>4, <2>5 DEF PopOldest, Reput, TypeOK, round
  <1>4. CASE UpdateSnapshot(i)
    BY <1>0, <1>4 DEF UpdateSnapshot, KeepSnapshot, TypeOK, round, history
  <1>5. QED
    BY <1>1, <1>2, <1>3, <1>4 DEF Handle

LEMMA ServerTypes ==
    ASSUME Inv, Broadcast
    PROVE  TypeOK'
  <1>0. TypeOK /\ RoundOK /\ Len(batch) \in Nat
    BY DEF Inv, TypeOK
  <1>1. CASE DrainOne
    <2>1. Tail(queue) \in Seq(Deltas) /\ Head(queue) \in Deltas /\ Len(Tail(queue)) = Len(queue) - 1
      BY <1>0, <1>1, TailAt DEF DrainOne, TypeOK
    <2>2. /\ batch' \in Seq(Deltas) /\ Len(batch') = Len(batch) + 1
          /\ queue' \in Seq(Deltas) /\ Len(queue') <= QueueMax
      BY <1>0, <1>1, <2>1, LiveFeedAssumption DEF DrainOne, Pop, TypeOK
    <2>3. position \in 0 .. Len(batch') + 1
      BY <1>0, <2>2 DEF TypeOK
    <2>4. QED
      BY <1>0, <1>1, <2>2, <2>3 DEF DrainOne, TypeOK, handlers, history
  <1>2. CASE BeginRound
    <2>1. position = 0
      BY <1>0, <1>2 DEF BeginRound, RoundOK
    <2>2. batch' \in Seq(Deltas) /\ position \in 0 .. Len(batch') + 1
      <3>1. <<>> \in Seq(Deltas) /\ Len(<<>>) = 0
        OBVIOUS
      <3>2. batch' = batch \/ batch' = <<>>
        BY <1>2 DEF BeginRound
      <3>3. CASE batch' = batch
        BY <1>0, <3>3 DEF TypeOK
      <3>4. CASE batch' = <<>>
        BY <2>1, <3>1, <3>4
      <3>5. QED
        BY <3>2, <3>3, <3>4
    <2>3. QED
      BY <1>0, <1>2, <2>2 DEF BeginRound, TypeOK, handlers, history
  <1>3. CASE BroadcasterDies
    BY <1>0, <1>3 DEF BroadcasterDies, TypeOK, handlers, round, history
  <1>4. CASE NextClient
    BY <1>0, <1>4 DEF NextClient, TypeOK, handlers, history
  <1>5. CASE Send
    <2>1. /\ position \in DOMAIN batch /\ position + 1 \in 0 .. Len(batch) + 1
          /\ current \in Client
      BY <1>0, <1>5 DEF Send, SendDone, RoundOK, TypeOK
    <2>2. batch[position] \in Deltas
      BY <1>0, <2>1 DEF TypeOK
    <2>3. view' \in [Client -> SUBSET Elements]
      BY <1>0, <1>5, <2>1, <2>2, ShownType DEF Send, TypeOK
    <2>4. sent' \in [Client -> Seq(Deltas)]
      <3>1. Append(sent[current], batch[position]) \in Seq(Deltas)
        BY <1>0, <2>1, <2>2, AppendAt DEF TypeOK
      <3>2. QED
        BY <1>0, <1>5, <3>1 DEF Send, TypeOK
    <2>5. QED
      BY <1>0, <1>5, <2>1, <2>3, <2>4 DEF Send, TypeOK, handlers
  <1>6. CASE SendRaises
    <2>1. current \in Client
      BY <1>0, <1>6 DEF SendRaises, RoundOK, TypeOK
    <2>2. QED
      BY <1>0, <1>6, <2>1 DEF SendRaises, TypeOK, handlers, history
  <1>7. CASE ClientDone
    BY <1>0, <1>7 DEF ClientDone, TypeOK, handlers, round, history
  <1>8. CASE EndRound
    <2>1. <<>> \in Seq(Deltas) /\ Len(<<>>) = 0
      OBVIOUS
    <2>2. QED
      BY <1>0, <1>8, <2>1 DEF EndRound, TypeOK, handlers, history
  <1>9. QED
    BY <1>1, <1>2, <1>3, <1>4, <1>5, <1>6, <1>7, <1>8 DEF Broadcast

LEMMA TypeStep ==
    ASSUME Inv, [Next]_vars
    PROVE  TypeOK'
  <1>0. TypeOK
    BY DEF Inv
  <1>1. ASSUME NEW w \in Client, Connect(w) PROVE TypeOK'
    BY <1>0, <1>1 DEF Connect, TypeOK, handlers, round
  <1>2. ASSUME NEW w \in Client, PeerGone(w) \/ Leave(w) PROVE TypeOK'
    BY <1>0, <1>2 DEF PeerGone, Leave, TypeOK, handlers, round, history
  <1>3. CASE UNCHANGED vars
    BY <1>0, <1>3 DEF vars, TypeOK, handlers, round, history
  <1>4. QED
    BY <1>1, <1>2, <1>3, HandlerTypes, ServerTypes DEF Next, Idle

------------------------------------------------------------------------------
(* The handlers' steps.                                                     *)

\* What a step of an ingest's handler leaves alone.
ServerAlone ==
    UNCHANGED <<clients, conn, bpc, batch, started, visited, dead, current, position, sent>>

\* A step of _enqueue moves the delta at the head of the handler's list to the
\* queue or loses it, loses the oldest one queued, or moves nothing.
Queued(i) ==
    /\ deltas[i] # <<>> /\ queue' = Append(queue, Head(deltas[i]))
    /\ deltas' = [deltas EXCEPT ![i] = Tail(deltas[i])] /\ dropped' = dropped

LostOldest ==
    /\ queue # <<>> /\ queue' = Tail(queue) /\ dropped' = dropped \cup {Head(queue)}
    /\ deltas' = deltas

LostOwn(i) ==
    /\ deltas[i] # <<>> /\ dropped' = dropped \cup {Head(deltas[i])}
    /\ deltas' = [deltas EXCEPT ![i] = Tail(deltas[i])] /\ queue' = queue

LEMMA HandlerMoves ==
    ASSUME Inv, NEW i \in Ingest, PutNowait(i) \/ PopOldest(i) \/ Reput(i) \/ UpdateSnapshot(i)
    PROVE  /\ ServerAlone
           /\ \/ UNCHANGED <<queue, deltas, dropped>>
              \/ Queued(i) \/ LostOldest \/ LostOwn(i)
           /\ status[i] # "new"
           /\ status' = status \/ status' = [status EXCEPT ![i] = "done"]
  <1>0. TypeOK /\ HandlersOK
    BY DEF Inv
  <1>1. enq[i] # "put" => deltas[i] # <<>>
    BY <1>0 DEF HandlersOK
  <1>2. deltas[i] # <<>> => status[i] # "new"
    BY <1>0 DEF HandlersOK
  <1>3. CASE PutNowait(i)
    BY <1>2, <1>3 DEF PutNowait, ServerAlone, Queued, Next1, round, history
  <1>4. CASE PopOldest(i)
    BY <1>1, <1>2, <1>4 DEF PopOldest, ServerAlone, LostOldest, LostOwn, Next1, round
  <1>5. CASE Reput(i)
    BY <1>1, <1>2, <1>5 DEF Reput, ServerAlone, Queued, LostOwn, Next1, round
  <1>6. CASE UpdateSnapshot(i)
    BY <1>6 DEF UpdateSnapshot, Busy, ServerAlone, round, history
  <1>7. QED
    BY <1>3, <1>4, <1>5, <1>6

LEMMA ServerAloneKeeps ==
    ASSUME ServerAlone, RoundOK
    PROVE  /\ RoundOK' /\ \A w \in Client : Rest(w)' = Rest(w) /\ Delivered(w)' = Delivered(w)
           /\ ToSet(batch') = ToSet(batch)
  <1>1. RoundOK'
    BY DEF ServerAlone, RoundOK
  <1>2. QED
    BY <1>1 DEF ServerAlone, Rest, Delivered

\* What the batch still holds for a connection is in the batch.
LEMMA RestInBatch ==
    ASSUME TypeOK, RoundOK, NEW w \in Client
    PROVE  Rest(w) \subseteq ToSet(batch)
  <1>1. bpc = "send" => \A k \in position .. Len(batch) : k \in DOMAIN batch
    BY DEF TypeOK, RoundOK
  <1>2. QED
    BY <1>1 DEF Rest, ToSet

\* Nothing that waits for the server is lost unnoticed, and nothing comes up
\* but what an ingest's handler had.
WaitingKept ==
    /\ dropped \subseteq dropped'
    /\ \A j \in Ingest :
          /\ ToSet(queue) \cup ToSet(deltas[j]) \subseteq ToSet(queue') \cup ToSet(deltas'[j]) \cup dropped'
          /\ \A d \in ToSet(queue') \cup ToSet(deltas'[j]) :
                d \in ToSet(queue) \cup ToSet(deltas[j]) \/ d.ingest # j

LEMMA MoveFacts ==
    ASSUME Inv, NEW i \in Ingest, Queued(i) \/ LostOwn(i)
    PROVE  /\ Head(deltas[i]) \in Deltas /\ Head(deltas[i]).ingest = i
           /\ ToSet(deltas[i]) = {Head(deltas[i])} \cup ToSet(deltas'[i])
           /\ Before({Head(deltas[i])}, ToSet(deltas'[i])) /\ Ordered(deltas'[i])
           /\ \A j \in Ingest : j # i => deltas'[j] = deltas[j]
           /\ \A j \in Ingest : ToSet(deltas'[j]) \subseteq ToSet(deltas[j]) /\ Ordered(deltas'[j])
  <1>0. /\ deltas \in [Ingest -> Seq(Deltas)]
        /\ \A j \in Ingest : Ordered(deltas[j]) /\ \A d \in ToSet(deltas[j]) : d.ingest = j
    BY DEF Inv, TypeOK, OrderKept
  <1>1. deltas[i] # <<>> /\ deltas' = [deltas EXCEPT ![i] = Tail(deltas[i])]
    BY DEF Queued, LostOwn
  <1>2. /\ Head(deltas[i]) \in Deltas
        /\ ToSet(deltas[i]) = {Head(deltas[i])} \cup ToSet(Tail(deltas[i]))
    BY <1>0, <1>1, TailAt
  <1>3. Ordered(Tail(deltas[i])) /\ Before({Head(deltas[i])}, ToSet(Tail(deltas[i])))
    BY <1>0, <1>1, OrderedTail
  <1>4. deltas'[i] = Tail(deltas[i]) /\ \A j \in Ingest : j # i => deltas'[j] = deltas[j]
    BY <1>0, <1>1
  <1>5. QED
    BY <1>0, <1>2, <1>3, <1>4

LEMMA MovesOrder ==
    ASSUME Inv, ServerAlone, NEW i \in Ingest, Queued(i) \/ LostOldest \/ LostOwn(i)
    PROVE  OrderKept' /\ WaitingKept
  <1>0. TypeOK /\ OrderKept /\ RoundOK /\ queue \in Seq(Deltas)
    BY DEF Inv, TypeOK
  <1>1. /\ \A w \in Client : /\ Rest(w)' = Rest(w) /\ Delivered(w)' = Delivered(w)
                             /\ sent'[w] = sent[w]
        /\ ToSet(batch') = ToSet(batch) /\ batch' = batch
    BY <1>0, ServerAloneKeeps DEF ServerAlone
  <1>2. /\ Ordered(queue) /\ Ordered(batch) /\ Before(ToSet(batch), ToSet(queue))
        /\ \A j \in Ingest :
              /\ Ordered(deltas[j]) /\ \A d \in ToSet(deltas[j]) : d.ingest = j
              /\ Before(ToSet(batch) \cup ToSet(queue), ToSet(deltas[j]))
        /\ \A w \in Client :
              /\ Ordered(sent[w]) /\ Before(Delivered(w), Rest(w) \cup ToSet(queue))
              /\ \A j \in Ingest : Before(Delivered(w), ToSet(deltas[j]))
    BY <1>0 DEF OrderKept
  <1>3. CASE Queued(i)
    <2> DEFINE h == Head(deltas[i])
    <2>1. /\ h \in Deltas /\ h.ingest = i
          /\ ToSet(deltas[i]) = {h} \cup ToSet(deltas'[i])
          /\ Before({h}, ToSet(deltas'[i])) /\ Ordered(deltas'[i])
          /\ \A j \in Ingest : j # i => deltas'[j] = deltas[j]
          /\ \A j \in Ingest : ToSet(deltas'[j]) \subseteq ToSet(deltas[j]) /\ Ordered(deltas'[j])
      BY <1>3, MoveFacts
    <2>2. queue' = Append(queue, h) /\ dropped' = dropped
      BY <1>3 DEF Queued
    <2> HIDE DEF h
    <2>3. ToSet(queue') = ToSet(queue) \cup {h}
      BY <1>0, <2>1, <2>2, AppendAt
    <2>4. Before(ToSet(batch) \cup ToSet(queue), {h})
      BY <1>2, <2>1 DEF Before
    <2>5. Ordered(queue')
      <3>1. Before(ToSet(queue), {h})
        BY <2>4 DEF Before
      <3>2. QED
        BY <1>0, <1>2, <2>1, <2>2, <3>1, OrderedAppend
    <2>6. Before(ToSet(batch'), ToSet(queue'))
      BY <1>1, <1>2, <2>3, <2>4 DEF Before
    <2>7. ASSUME NEW j \in Ingest PROVE Before(ToSet(batch') \cup ToSet(queue'), ToSet(deltas'[j]))
      <3>1. Before({h}, ToSet(deltas'[j]))
        BY <1>2, <2>1 DEF Before, Precedes
      <3>2. QED
        BY <1>1, <1>2, <2>1, <2>3, <3>1 DEF Before
    <2>8. ASSUME NEW w \in Client
          PROVE  /\ Before(Delivered(w)', Rest(w)' \cup ToSet(queue'))
                 /\ \A j \in Ingest : Before(Delivered(w)', ToSet(deltas'[j]))
      <3>1. Before(Delivered(w), {h})
        BY <1>2, <2>1 DEF Before
      <3>2. QED
        BY <1>1, <1>2, <2>1, <2>3, <3>1 DEF Before
    <2>9. OrderKept'
      BY <1>1, <1>2, <2>1, <2>5, <2>6, <2>7, <2>8 DEF OrderKept
    <2>10. WaitingKept
      BY <2>1, <2>2, <2>3 DEF WaitingKept
    <2>11. QED
      BY <2>9, <2>10
  <1>4. CASE LostOldest
    <2>1. /\ ToSet(queue) = {Head(queue)} \cup ToSet(queue')
          /\ Ordered(queue')
      BY <1>0, <1>2, <1>4, TailAt, OrderedTail DEF LostOldest
    <2>2. deltas' = deltas /\ dropped' = dropped \cup {Head(queue)}
      BY <1>4 DEF LostOldest
    <2>3. OrderKept'
      BY <1>1, <1>2, <2>1, <2>2 DEF OrderKept, Before
    <2>4. WaitingKept
      BY <2>1, <2>2 DEF WaitingKept
    <2>5. QED
      BY <2>3, <2>4
  <1>5. CASE LostOwn(i)
    <2>1. /\ ToSet(deltas[i]) = {Head(deltas[i])} \cup ToSet(deltas'[i])
          /\ \A j \in Ingest : j # i => deltas'[j] = deltas[j]
          /\ \A j \in Ingest : ToSet(deltas'[j]) \subseteq ToSet(deltas[j]) /\ Ordered(deltas'[j])
      BY <1>5, MoveFacts
    <2>2. queue' = queue /\ dropped' = dropped \cup {Head(deltas[i])}
      BY <1>5 DEF LostOwn
    <2>3. OrderKept'
      BY <1>1, <1>2, <2>1, <2>2 DEF OrderKept, Before
    <2>4. WaitingKept
      BY <2>1, <2>2 DEF WaitingKept
    <2>5. QED
      BY <2>3, <2>4
  <1>6. QED
    BY <1>3, <1>4, <1>5

LEMMA EventOf ==
    ASSUME NEW i \in Ingest
    PROVE  /\ EventDelta(i).ingest = i /\ CompleteDelta(i).ingest = i
           /\ Rank(EventDelta(i)) = 1 /\ Rank(CompleteDelta(i)) = 5
           /\ \A f \in Touches[i] :
                 /\ EdgeDelta(i, f).ingest = i /\ Rank(EdgeDelta(i, f)) = 4
                 /\ ~Precedes(EdgeDelta(i, f), EventDelta(i))
                 /\ ~Precedes(CompleteDelta(i), EdgeDelta(i, f))
           /\ ~Precedes(CompleteDelta(i), EventDelta(i))
           /\ EventDelta(i) # CompleteDelta(i)
  <1>1. /\ EventDelta(i).ingest = i /\ CompleteDelta(i).ingest = i
        /\ Rank(EventDelta(i)) = 1 /\ Rank(CompleteDelta(i)) = 5
    BY DEF EventDelta, CompleteDelta, Delta, Rank, EventElement
  <1>2. \A f \in Touches[i] : EdgeDelta(i, f).ingest = i /\ Rank(EdgeDelta(i, f)) = 4
    BY DEF EdgeDelta, Delta, Rank
  <1>3. QED
    BY <1>1, <1>2 DEF Precedes

LEMMA WaitingFollows ==
    ASSUME Inv, ServerAlone, WaitingKept
    PROVE  EdgesFollow' /\ NoGaps'
  <1>1. TypeOK /\ RoundOK /\ EdgesFollow /\ NoGaps
    BY DEF Inv
  <1>2. /\ \A w \in Client : Rest(w)' = Rest(w) /\ Delivered(w)' = Delivered(w)
        /\ ToSet(batch') = ToSet(batch) /\ conn' = conn
    BY <1>1, ServerAloneKeeps DEF ServerAlone
  <1>3. NoGaps'
    BY <1>1, <1>2 DEF NoGaps, WaitingKept
  <1>4. ASSUME NEW i \in Ingest, NEW f \in Touches[i]
        PROVE  /\ EventDelta(i) \in ToSet(batch') \cup (ToSet(queue') \cup ToSet(deltas'[i])) =>
                     EdgeDelta(i, f) \in ToSet(batch') \cup (ToSet(queue') \cup ToSet(deltas'[i]))
                                             \cup dropped'
               /\ \A w \in Client : conn'[w] = "open" /\ EventDelta(i) \in Delivered(w)' =>
                     EdgeDelta(i, f) \in Delivered(w)' \cup dropped' \cup Rest(w)'
                                             \cup (ToSet(queue') \cup ToSet(deltas'[i]))
    <2>1. /\ EventDelta(i) \in ToSet(batch) \cup (ToSet(queue) \cup ToSet(deltas[i])) =>
                EdgeDelta(i, f) \in ToSet(batch) \cup (ToSet(queue) \cup ToSet(deltas[i]))
                                        \cup dropped
          /\ \A w \in Client : conn[w] = "open" /\ EventDelta(i) \in Delivered(w) =>
                EdgeDelta(i, f) \in Delivered(w) \cup dropped \cup Rest(w)
                                        \cup (ToSet(queue) \cup ToSet(deltas[i]))
      BY <1>1, <1>4 DEF EdgesFollow
    <2>2. /\ dropped \subseteq dropped'
          /\ ToSet(queue) \cup ToSet(deltas[i]) \subseteq ToSet(queue') \cup ToSet(deltas'[i]) \cup dropped'
          /\ \A d \in ToSet(queue') \cup ToSet(deltas'[i]) :
                d \in ToSet(queue) \cup ToSet(deltas[i]) \/ d.ingest # i
      BY DEF WaitingKept
    <2>3. EventDelta(i).ingest = i
      BY EventOf
    <2>4. QED
      BY <1>2, <2>1, <2>2, <2>3
  <1>5. QED
    BY <1>3, <1>4 DEF EdgesFollow

LEMMA MovesHandlers ==
    ASSUME Inv, NEW i \in Ingest, PutNowait(i) \/ PopOldest(i) \/ Reput(i) \/ UpdateSnapshot(i)
    PROVE  HandlersOK'
  <1>0. TypeOK /\ HandlersOK /\ OrderKept /\ queue \in Seq(Deltas)
    BY DEF Inv, TypeOK
  <1>1. /\ ServerAlone /\ status[i] # "new"
        /\ UNCHANGED <<queue, deltas, dropped>> \/ Queued(i) \/ LostOldest \/ LostOwn(i)
        /\ status' = status \/ status' = [status EXCEPT ![i] = "done"]
    BY HandlerMoves
  <1>2. /\ \A j \in Ingest : j # i => deltas'[j] = deltas[j]
        /\ \A d \in ToSet(queue') : d \in ToSet(queue) \/ d.ingest = i
    <2>1. CASE Queued(i)
      <3>1. /\ Head(deltas[i]) \in Deltas /\ Head(deltas[i]).ingest = i
            /\ \A j \in Ingest : j # i => deltas'[j] = deltas[j]
        BY <2>1, MoveFacts
      <3>2. queue' = Append(queue, Head(deltas[i]))
        BY <2>1 DEF Queued
      <3>3. ToSet(queue') = ToSet(queue) \cup {Head(deltas[i])}
        BY <1>0, <3>1, <3>2, AppendAt
      <3>4. QED
        BY <3>1, <3>3
    <2>2. CASE LostOldest
      BY <1>0, <2>2, TailAt DEF LostOldest
    <2>3. CASE LostOwn(i)
      BY <2>3, MoveFacts DEF LostOwn
    <2>4. QED
      BY <1>1, <2>1, <2>2, <2>3
  <1>3. ASSUME NEW j \in Ingest, status'[j] = "new"
        PROVE  /\ deltas'[j] = <<>>
               /\ \A d \in ToSet(queue') \cup ToSet(batch') : d.ingest # j
               /\ \A w \in Client : \A d \in Delivered(w)' : d.ingest # j
    <2>1. j # i /\ status[j] = "new"
      BY <1>0, <1>1, <1>3 DEF TypeOK
    <2>2. /\ deltas[j] = <<>>
          /\ \A d \in ToSet(queue) \cup ToSet(batch) : d.ingest # j
          /\ \A w \in Client : \A d \in Delivered(w) : d.ingest # j
      BY <1>0, <2>1 DEF HandlersOK
    <2>3. batch' = batch /\ sent' = sent
      BY <1>1 DEF ServerAlone
    <2>4. QED
      BY <1>2, <2>1, <2>2, <2>3 DEF Delivered
  <1>4. ASSUME NEW j \in Ingest, enq'[j] # "put" PROVE deltas'[j] # <<>>
    <2>1. CASE j # i
      <3>1. enq'[j] = enq[j]
        BY <1>0, <2>1 DEF PutNowait, PopOldest, Reput, UpdateSnapshot, Next1, TypeOK
      <3>2. QED
        BY <1>0, <1>2, <1>4, <2>1, <3>1 DEF HandlersOK
    <2>2. CASE j = i
      <3>1. deltas' = deltas /\ deltas[i] # <<>>
        BY <1>0, <1>4, <2>2
        DEF PutNowait, PopOldest, Reput, UpdateSnapshot, Next1, TypeOK, HandlersOK
      <3>2. QED
        BY <2>2, <3>1
    <2>3. QED
      BY <2>1, <2>2
  <1>5. QED
    BY <1>3, <1>4 DEF HandlersOK

\* A step of _enqueue, and the end of the handler.
LEMMA MovesStep ==
    ASSUME Inv, NEW i \in Ingest, PutNowait(i) \/ PopOldest(i) \/ Reput(i) \/ UpdateSnapshot(i)
    PROVE  OrderKept' /\ HandlersOK' /\ RoundOK' /\ EdgesFollow' /\ NoGaps'
  <1>0. TypeOK /\ RoundOK /\ OrderKept
    BY DEF Inv
  <1>1. ServerAlone /\ (UNCHANGED <<queue, deltas, dropped>> \/ Queued(i) \/ LostOldest \/ LostOwn(i))
    BY HandlerMoves
  <1>2. CASE UNCHANGED <<queue, deltas, dropped>>
    <2>1. WaitingKept
      BY <1>2 DEF WaitingKept
    <2>2. /\ \A w \in Client : Rest(w)' = Rest(w) /\ Delivered(w)' = Delivered(w)
          /\ ToSet(batch') = ToSet(batch) /\ batch' = batch /\ sent' = sent
      BY <1>0, <1>1, ServerAloneKeeps DEF ServerAlone
    <2>3. OrderKept'
      BY <1>0, <1>2, <2>2 DEF OrderKept
    <2>4. QED
      BY <1>0, <1>1, <2>1, <2>3, WaitingFollows, MovesHandlers, ServerAloneKeeps
  <1>3. CASE Queued(i) \/ LostOldest \/ LostOwn(i)
    BY <1>0, <1>1, <1>3, MovesOrder, WaitingFollows, MovesHandlers, ServerAloneKeeps
  <1>4. QED
    BY <1>1, <1>2, <1>3

LEMMA CommitStep ==
    ASSUME Inv, NEW i \in Ingest, Commit(i)
    PROVE  OrderKept' /\ HandlersOK' /\ RoundOK' /\ EdgesFollow' /\ NoGaps'
  <1>0. TypeOK /\ RoundOK /\ OrderKept /\ HandlersOK /\ EdgesFollow /\ NoGaps
    BY DEF Inv
  <1>1. /\ ServerAlone /\ queue' = queue /\ dropped' = dropped /\ enq' = enq
        /\ status[i] = "new" /\ status' = [status EXCEPT ![i] = "emit"]
        /\ deltas' = [deltas EXCEPT ![i] = DeltasOf(i, stored)]
    BY DEF Commit, ServerAlone, round, history
  <1>2. /\ Ordered(deltas'[i]) /\ \A d \in ToSet(deltas'[i]) : d.ingest = i
        /\ EventDelta(i) \in ToSet(deltas'[i])
        /\ \A f \in Touches[i] : EdgeDelta(i, f) \in ToSet(deltas'[i])
    <2>1. deltas'[i] = DeltasOf(i, stored)
      BY <1>0, <1>1 DEF TypeOK
    <2>2. QED
      BY <2>1, DeltasOfIngest
  <1>3. /\ deltas[i] = <<>> /\ enq[i] = "put"
        /\ \A d \in ToSet(queue) \cup ToSet(batch) : d.ingest # i
        /\ \A w \in Client : \A d \in Delivered(w) : d.ingest # i
        /\ \A j \in Ingest : j # i => deltas'[j] = deltas[j]
    BY <1>0, <1>1 DEF HandlersOK, TypeOK
  <1>4. /\ \A w \in Client : /\ Rest(w)' = Rest(w) /\ Delivered(w)' = Delivered(w)
                             /\ sent'[w] = sent[w] /\ Rest(w) \subseteq ToSet(batch)
        /\ ToSet(batch') = ToSet(batch) /\ batch' = batch /\ RoundOK' /\ conn' = conn
    BY <1>0, <1>1, ServerAloneKeeps, RestInBatch DEF ServerAlone
  <1>5. OrderKept'
    <2>1. ASSUME NEW j \in Ingest
          PROVE  /\ Ordered(deltas'[j]) /\ \A d \in ToSet(deltas'[j]) : d.ingest = j
                 /\ Before(ToSet(batch) \cup ToSet(queue), ToSet(deltas'[j]))
                 /\ \A w \in Client : Before(Delivered(w), ToSet(deltas'[j]))
      <3>1. CASE j = i
        BY <1>2, <1>3, <3>1 DEF Before, Precedes
      <3>2. CASE j # i
        BY <1>0, <1>3, <3>2 DEF OrderKept
      <3>3. QED
        BY <3>1, <3>2
    <2>2. /\ Ordered(queue) /\ Ordered(batch) /\ Before(ToSet(batch), ToSet(queue))
          /\ \A w \in Client : Ordered(sent[w]) /\ Before(Delivered(w), Rest(w) \cup ToSet(queue))
      BY <1>0 DEF OrderKept
    <2>3. QED
      BY <1>1, <1>4, <2>1, <2>2 DEF OrderKept
  <1>6. HandlersOK'
    <2>1. \A j \in Ingest : status'[j] = "new" => j # i /\ status[j] = "new"
      BY <1>0, <1>1 DEF TypeOK
    <2>2. QED
      BY <1>0, <1>1, <1>3, <1>4, <2>1 DEF HandlersOK
  <1>7. EdgesFollow'
    <2>1. ASSUME NEW j \in Ingest, NEW f \in Touches[j]
          PROVE  /\ EventDelta(j) \in ToSet(batch') \cup (ToSet(queue') \cup ToSet(deltas'[j])) =>
                       EdgeDelta(j, f) \in ToSet(batch') \cup (ToSet(queue') \cup ToSet(deltas'[j]))
                                               \cup dropped'
                 /\ \A w \in Client : conn'[w] = "open" /\ EventDelta(j) \in Delivered(w)' =>
                       EdgeDelta(j, f) \in Delivered(w)' \cup dropped' \cup Rest(w)'
                                               \cup (ToSet(queue') \cup ToSet(deltas'[j]))
      <3>1. CASE j = i
        <4>1. EventDelta(i).ingest = i
          BY EventOf
        <4>2. QED
          BY <1>2, <1>3, <1>4, <2>1, <3>1, <4>1
      <3>2. CASE j # i
        BY <1>0, <1>1, <1>3, <1>4, <2>1, <3>2 DEF EdgesFollow
      <3>3. QED
        BY <3>1, <3>2
    <2>2. QED
      BY <2>1 DEF EdgesFollow
  <1>8. NoGaps'
    BY <1>0, <1>1, <1>4 DEF NoGaps
  <1>9. QED
    BY <1>4, <1>5, <1>6, <1>7, <1>8

------------------------------------------------------------------------------
(* The server's steps.                                                      *)

LEMMA EmptyList == ToSet(<<>>) = {} /\ Ordered(<<>>) /\ Len(<<>>) = 0
  <1>1. DOMAIN <<>> = {} /\ Len(<<>>) = 0
    OBVIOUS
  <1>2. QED
    BY <1>1 DEF ToSet, Ordered

\* A step that sends nothing: the batch is kept, or thrown away when no live
\* connection that got something may still get some of it.
LEMMA NothingSent ==
    ASSUME Inv, UNCHANGED <<deltas, status, enq, queue, dropped, sent>>,
           batch' = batch \/ batch' = <<>>,
           \A w \in Client : Rest(w)' \subseteq Rest(w),
           \A w \in Client : conn'[w] = "open" =>
               sent[w] = <<>> \/ (conn[w] = "open" /\ Rest(w)' = Rest(w))
    PROVE  OrderKept' /\ HandlersOK' /\ EdgesFollow' /\ NoGaps'
  <1>0. TypeOK /\ OrderKept /\ HandlersOK /\ EdgesFollow /\ NoGaps
    BY DEF Inv
  <1>1. /\ \A w \in Client : Delivered(w)' = Delivered(w) /\ (sent[w] = <<>> => Delivered(w) = {})
        /\ ToSet(batch') \subseteq ToSet(batch) /\ Ordered(batch')
        /\ batch' # batch => ToSet(batch') = {}
    BY <1>0, EmptyList DEF Delivered, OrderKept
  <1>2. OrderKept'
    <2>1. /\ Ordered(queue') /\ Before(ToSet(batch'), ToSet(queue'))
          /\ \A i \in Ingest :
                /\ Ordered(deltas'[i]) /\ \A d \in ToSet(deltas'[i]) : d.ingest = i
                /\ Before(ToSet(batch') \cup ToSet(queue'), ToSet(deltas'[i]))
      BY <1>0, <1>1 DEF OrderKept, Before
    <2>2. ASSUME NEW w \in Client
          PROVE  /\ Ordered(sent'[w]) /\ Before(Delivered(w)', Rest(w)' \cup ToSet(queue'))
                 /\ \A i \in Ingest : Before(Delivered(w)', ToSet(deltas'[i]))
      <3>1. /\ Ordered(sent[w]) /\ Before(Delivered(w), Rest(w) \cup ToSet(queue))
            /\ \A i \in Ingest : Before(Delivered(w), ToSet(deltas[i]))
        BY <1>0 DEF OrderKept
      <3>2. Rest(w)' \subseteq Rest(w) /\ Delivered(w)' = Delivered(w)
        BY <1>1
      <3>3. QED
        BY <3>1, <3>2 DEF Before
    <2>3. QED
      BY <1>1, <2>1, <2>2 DEF OrderKept
  <1>3. HandlersOK'
    BY <1>0, <1>1 DEF HandlersOK
  <1>4. EdgesFollow'
    <2>1. ASSUME NEW i \in Ingest, NEW f \in Touches[i],
                 EventDelta(i) \in ToSet(batch') \cup (ToSet(queue') \cup ToSet(deltas'[i]))
          PROVE  EdgeDelta(i, f) \in ToSet(batch') \cup (ToSet(queue') \cup ToSet(deltas'[i]))
                                         \cup dropped'
      <3>1. EdgeDelta(i, f) \in ToSet(batch) \cup (ToSet(queue) \cup ToSet(deltas[i])) \cup dropped
        BY <1>0, <1>1, <2>1 DEF EdgesFollow
      <3>2. CASE batch' = batch
        BY <3>1, <3>2
      <3>3. CASE batch' # batch
        <4>1. EventDelta(i) \in ToSet(queue) \cup ToSet(deltas[i])
          BY <1>1, <2>1, <3>3
        <4>2. EdgeDelta(i, f) \notin ToSet(batch)
          BY <1>0, <4>1, EventOf DEF OrderKept, Before
        <4>3. QED
          BY <3>1, <4>2
      <3>4. QED
        BY <3>2, <3>3
    <2>2. ASSUME NEW i \in Ingest, NEW f \in Touches[i], NEW w \in Client,
                 conn'[w] = "open", EventDelta(i) \in Delivered(w)'
          PROVE  EdgeDelta(i, f) \in Delivered(w)' \cup dropped' \cup Rest(w)'
                                         \cup (ToSet(queue') \cup ToSet(deltas'[i]))
      <3>1. conn[w] = "open" /\ Rest(w)' = Rest(w) /\ Delivered(w)' = Delivered(w)
        BY <1>1, <2>2
      <3>2. QED
        BY <1>0, <2>2, <3>1 DEF EdgesFollow
    <2>3. QED
      BY <2>1, <2>2 DEF EdgesFollow
  <1>5. NoGaps'
    BY <1>0, <1>1 DEF NoGaps
  <1>6. QED
    BY <1>2, <1>3, <1>4, <1>5

LEMMA ConnectionStep ==
    ASSUME Inv, NEW w \in Client, Connect(w) \/ PeerGone(w) \/ Leave(w)
    PROVE  OrderKept' /\ HandlersOK' /\ RoundOK' /\ EdgesFollow' /\ NoGaps'
  <1>0. TypeOK /\ RoundOK /\ conn \in [Client -> {"new", "open", "gone", "left"}]
    BY DEF Inv, TypeOK
  <1>1. UNCHANGED <<deltas, status, enq, queue, dropped, sent, bpc, batch, started, visited, dead,
                    current, position>>
    BY DEF Connect, PeerGone, Leave, handlers, round, history
  <1>2. \A v \in Client : Rest(v)' = Rest(v)
    BY <1>1 DEF Rest
  <1>3. \/ /\ conn[w] = "new" /\ conn' = [conn EXCEPT ![w] = "open"] /\ clients' = clients \cup {w}
        \/ conn[w] = "open" /\ conn' = [conn EXCEPT ![w] = "gone"] /\ clients' = clients
        \/ conn[w] = "gone" /\ conn' = [conn EXCEPT ![w] = "left"] /\ clients' = clients \ {w}
    BY DEF Connect, PeerGone, Leave
  <1>4. \A v \in Client : conn'[v] = "open" => sent[v] = <<>> \/ conn[v] = "open"
    BY <1>0, <1>3 DEF RoundOK
  <1>5. ASSUME NEW v \in Client
        PROVE  /\ conn'[v] = "open" => v \in clients' /\ v \notin dead'
               /\ conn'[v] = "new" => v \notin clients' \cup visited' \cup dead' /\ sent'[v] = <<>>
               /\ conn'[v] = "open" /\ bpc' \in {"next", "send"} /\ v \notin started' \cup visited' =>
                     sent'[v] = <<>>
    <2>1. /\ conn[v] = "open" => v \in clients /\ v \notin dead
          /\ conn[v] = "new" => v \notin clients \cup visited \cup dead /\ sent[v] = <<>>
          /\ conn[v] = "open" /\ bpc \in {"next", "send"} /\ v \notin started \cup visited =>
                sent[v] = <<>>
      BY <1>0 DEF RoundOK
    <2>2. v # w => conn'[v] = conn[v] /\ (v \in clients' <=> v \in clients)
      BY <1>0, <1>3
    <2>3. v = w => \/ conn[v] = "new" /\ conn'[v] = "open" /\ v \in clients'
                   \/ conn'[v] \notin {"new", "open"}
      BY <1>0, <1>3
    <2>4. QED
      BY <1>1, <2>1, <2>2, <2>3
  <1>6. RoundOK'
    BY <1>0, <1>1, <1>5 DEF RoundOK
  <1>7. OrderKept' /\ HandlersOK' /\ EdgesFollow' /\ NoGaps'
    BY <1>1, <1>2, <1>4, NothingSent
  <1>8. QED
    BY <1>6, <1>7

LEMMA DrainStep ==
    ASSUME Inv, DrainOne
    PROVE  OrderKept' /\ HandlersOK' /\ RoundOK' /\ EdgesFollow' /\ NoGaps'
  <1> DEFINE h == Head(queue)
  <1>0. /\ TypeOK /\ RoundOK /\ OrderKept /\ HandlersOK /\ EdgesFollow /\ NoGaps
        /\ queue \in Seq(Deltas) /\ batch \in Seq(Deltas)
    BY DEF Inv, TypeOK
  <1>1. /\ queue # <<>> /\ queue' = Tail(queue) /\ batch' = Append(batch, h)
        /\ bpc \in {"sleep", "drain"} /\ bpc' = "drain"
        /\ UNCHANGED <<deltas, status, enq, dropped, sent, clients, conn, started, visited, dead,
                       current, position>>
    BY DEF DrainOne, Pop, handlers, history
  <1>2. visited = {} /\ dead = {} /\ position = 0
    BY <1>0, <1>1 DEF RoundOK
  <1>3. RoundOK'
    BY <1>0, <1>1, <1>2 DEF RoundOK
  <1>4. h \in Deltas /\ ToSet(queue) = {h} \cup ToSet(queue')
        /\ Ordered(queue') /\ Before({h}, ToSet(queue'))
    BY <1>0, <1>1, TailAt, OrderedTail DEF OrderKept
  <1> HIDE DEF h
  <1>5. ToSet(batch') = ToSet(batch) \cup {h}
    BY <1>0, <1>1, <1>4, AppendAt
  <1>6. \A w \in Client : /\ Rest(w) = ToSet(batch) /\ Rest(w)' = ToSet(batch')
                          /\ Delivered(w)' = Delivered(w)
    BY <1>1, <1>2 DEF Rest, Delivered
  <1>7. Ordered(batch')
    <2>1. Before(ToSet(batch), {h})
      BY <1>0, <1>4 DEF OrderKept, Before
    <2>2. QED
      BY <1>0, <1>1, <1>4, <2>1, OrderedAppend DEF OrderKept
  <1>8. OrderKept'
    <2>1. Before(ToSet(batch'), ToSet(queue'))
      BY <1>0, <1>4, <1>5 DEF OrderKept, Before
    <2>2. ASSUME NEW i \in Ingest
          PROVE  /\ Ordered(deltas'[i]) /\ \A d \in ToSet(deltas'[i]) : d.ingest = i
                 /\ Before(ToSet(batch') \cup ToSet(queue'), ToSet(deltas'[i]))
      BY <1>0, <1>1, <1>4, <1>5 DEF OrderKept, Before
    <2>3. ASSUME NEW w \in Client
          PROVE  /\ Ordered(sent'[w]) /\ Before(Delivered(w)', Rest(w)' \cup ToSet(queue'))
                 /\ \A i \in Ingest : Before(Delivered(w)', ToSet(deltas'[i]))
      <3>1. /\ Ordered(sent[w]) /\ Before(Delivered(w), Rest(w) \cup ToSet(queue))
            /\ \A i \in Ingest : Before(Delivered(w), ToSet(deltas[i]))
        BY <1>0 DEF OrderKept
      <3>2. Rest(w)' \cup ToSet(queue') = Rest(w) \cup ToSet(queue) /\ Delivered(w)' = Delivered(w)
        BY <1>4, <1>5, <1>6
      <3>3. QED
        BY <1>1, <3>1, <3>2
    <2>4. QED
      BY <1>4, <1>7, <2>1, <2>2, <2>3 DEF OrderKept
  <1>9. HandlersOK'
    BY <1>0, <1>1, <1>4, <1>5, <1>6 DEF HandlersOK
  <1>10. EdgesFollow'
    BY <1>0, <1>1, <1>4, <1>5, <1>6 DEF EdgesFollow
  <1>11. NoGaps'
    BY <1>0, <1>1, <1>6 DEF NoGaps
  <1>12. QED
    BY <1>3, <1>8, <1>9, <1>10, <1>11

\* The steps of a round that send nothing.
LEMMA RoundStep ==
    ASSUME Inv, BeginRound \/ BroadcasterDies \/ NextClient \/ SendRaises \/ ClientDone \/ EndRound
    PROVE  OrderKept' /\ HandlersOK' /\ RoundOK' /\ EdgesFollow' /\ NoGaps'
  <1>0. TypeOK /\ RoundOK /\ ToSet(batch) = {batch[k] : k \in 1 .. Len(batch)}
    <2>1. DOMAIN batch = 1 .. Len(batch)
      BY DEF Inv, TypeOK
    <2>2. QED
      BY <2>1 DEF Inv, ToSet
  <1>1. /\ UNCHANGED <<deltas, status, enq, queue, dropped, sent, conn>>
        /\ batch' = batch \/ batch' = <<>>
    BY DEF BeginRound, BroadcasterDies, NextClient, SendRaises, ClientDone, EndRound,
           handlers, round, history
  <1>2. SUFFICES /\ RoundOK'
                 /\ \A w \in Client : Rest(w)' \subseteq Rest(w)
                 /\ \A w \in Client : conn[w] = "open" => sent[w] = <<>> \/ Rest(w)' = Rest(w)
    BY <1>1, NothingSent
  <1>3. CASE BeginRound
    <2>1. visited = {} /\ dead = {} /\ position = 0 /\ visited' = {} /\ dead' = {} /\ position' = 0
      BY <1>0, <1>3 DEF BeginRound, RoundOK
    <2>2. ASSUME NEW w \in Client PROVE Rest(w) = ToSet(batch) /\ Rest(w)' = ToSet(batch')
      <3>1. w \notin visited /\ w \notin visited' /\ bpc = "drain" /\ bpc' # "send"
        BY <1>3, <2>1 DEF BeginRound
      <3>2. QED
        BY <3>1 DEF Rest
    <2>3. CASE clients = {}
      <3>1. bpc' = "sleep" /\ batch' = <<>> /\ clients' = {}
        BY <1>3, <2>3 DEF BeginRound
      <3>2. \A w \in Client : conn[w] # "open"
        BY <1>0, <2>3 DEF RoundOK
      <3>3. RoundOK'
        BY <1>0, <1>1, <2>1, <3>1, <3>2 DEF RoundOK
      <3>4. QED
        BY <2>2, <3>1, <3>2, <3>3, EmptyList
    <2>4. CASE clients # {}
      <3>1. bpc' = "next" /\ batch' = batch /\ clients' = clients /\ started' = clients
        BY <1>3, <2>4 DEF BeginRound
      <3>2. RoundOK'
        BY <1>0, <1>1, <2>1, <3>1 DEF RoundOK
      <3>3. QED
        BY <2>2, <3>1, <3>2
    <2>5. QED
      BY <2>3, <2>4
  <1>4. CASE BroadcasterDies
    <2>1. RoundOK'
      BY <1>0, <1>4 DEF BroadcasterDies, RoundOK, round, history
    <2>2. \A w \in Client : Rest(w)' = Rest(w)
      BY <1>4 DEF BroadcasterDies, Rest, round
    <2>3. QED
      BY <2>1, <2>2
  <1>5. CASE NextClient
    <2>1. PICK v \in clients \ visited : current' = v /\ visited' = visited \cup {v}
      BY <1>5 DEF NextClient
    <2>2. /\ bpc = "next" /\ bpc' = "send" /\ position' = 1
          /\ UNCHANGED <<clients, batch, started, dead>>
      BY <1>5 DEF NextClient
    <2>3. RoundOK'
      BY <1>0, <1>1, <2>1, <2>2 DEF RoundOK
    <2>4. \A w \in Client : Rest(w)' = Rest(w)
      BY <1>0, <2>1, <2>2 DEF Rest
    <2>5. QED
      BY <2>3, <2>4
  <1>6. CASE SendRaises
    <2>1. /\ bpc = "send" /\ bpc' = "next" /\ conn[current] # "open" /\ dead' = dead \cup {current}
          /\ UNCHANGED <<clients, batch, started, visited, current, position>>
      BY <1>6 DEF SendRaises
    <2>2. current \in visited /\ conn[current] # "new"
      BY <1>0, <2>1 DEF RoundOK, TypeOK
    <2>3. RoundOK'
      BY <1>0, <1>1, <2>1, <2>2 DEF RoundOK
    <2>4. /\ \A w \in Client : Rest(w)' \subseteq Rest(w)
          /\ \A w \in Client : w # current => Rest(w)' = Rest(w)
      BY <2>1 DEF Rest
    <2>5. QED
      BY <2>1, <2>3, <2>4
  <1>7. CASE ClientDone
    <2>1. /\ bpc = "send" /\ bpc' = "next" /\ position > Len(batch)
          /\ UNCHANGED <<clients, batch, started, visited, dead, current, position>>
      BY <1>7 DEF ClientDone, SendDone, round
    <2>2. RoundOK'
      BY <1>0, <1>1, <2>1 DEF RoundOK
    <2>3. position .. Len(batch) = {}
      BY <1>0, <2>1 DEF TypeOK
    <2>4. \A w \in Client : Rest(w)' = Rest(w)
      BY <2>1, <2>3 DEF Rest
    <2>5. QED
      BY <2>2, <2>4
  <1>8. CASE EndRound
    <2>1. /\ bpc = "next" /\ bpc' = "sleep" /\ clients \cap started \subseteq visited
          /\ clients' = clients \ dead /\ batch' = <<>> /\ visited' = {} /\ dead' = {}
          /\ started' = {} /\ position' = 0
      BY <1>8 DEF EndRound
    <2>2. RoundOK'
      BY <1>0, <1>1, <2>1 DEF RoundOK
    <2>3. \A w \in Client : Rest(w)' = {}
      BY <2>1, EmptyList DEF Rest
    <2>4. \A w \in Client : w \in visited => Rest(w) = {}
      BY <2>1 DEF Rest
    <2>5. \A w \in Client : conn[w] = "open" => sent[w] = <<>> \/ w \in visited
      BY <1>0, <2>1 DEF RoundOK
    <2>6. QED
      BY <2>2, <2>3, <2>4, <2>5
  <1>9. QED
    BY <1>3, <1>4, <1>5, <1>6, <1>7, <1>8

LEMMA SendStep ==
    ASSUME Inv, Send
    PROVE  OrderKept' /\ HandlersOK' /\ RoundOK' /\ EdgesFollow' /\ NoGaps'
  <1>0. /\ TypeOK /\ RoundOK /\ OrderKept /\ HandlersOK /\ EdgesFollow /\ NoGaps
        /\ sent \in [Client -> Seq(Deltas)] /\ position \in Nat /\ Len(batch) \in Nat
        /\ DOMAIN batch = 1 .. Len(batch)
    BY DEF Inv, TypeOK
  <1>a. PICK c \in Client, d \in Deltas : c = current /\ d = batch[position]
    <2>1. current \in Client /\ position \in DOMAIN batch
      BY <1>0 DEF Send, SendDone, RoundOK, TypeOK
    <2>2. batch[position] \in Deltas
      BY <1>0, <2>1 DEF TypeOK
    <2>3. QED
      BY <2>1, <2>2
  <1>1. /\ bpc = "send" /\ position <= Len(batch) /\ conn[c] = "open"
        /\ sent' = [sent EXCEPT ![c] = Append(@, d)] /\ position' = position + 1
        /\ UNCHANGED <<deltas, status, enq, queue, dropped, clients, conn, bpc, batch, started,
                       visited, dead, current>>
    BY <1>0, <1>a DEF Send, SendDone, handlers
  <1>2. /\ c \in visited /\ position \in DOMAIN batch /\ d \in ToSet(batch)
        /\ c = current /\ d = batch[position]
    <2>1. c \in visited /\ position \in DOMAIN batch
      BY <1>0, <1>1, <1>a DEF RoundOK
    <2>2. QED
      BY <1>a, <2>1 DEF ToSet
  <1>3. /\ \A w \in Client \ {c} : Rest(w)' = Rest(w) /\ sent'[w] = sent[w]
                                   /\ Delivered(w)' = Delivered(w)
        /\ sent'[c] = Append(sent[c], d)
    BY <1>0, <1>1, <1>2 DEF Rest, Delivered
  <1>4. Delivered(c)' = Delivered(c) \cup {d}
    BY <1>0, <1>2, <1>3, AppendAt DEF Delivered
  <1>5. /\ Rest(c) = {batch[k] : k \in position .. Len(batch)}
        /\ Rest(c)' = {batch[k] : k \in position + 1 .. Len(batch)}
    BY <1>1, <1>2 DEF Rest
  <1>6. position .. Len(batch) = {position} \cup (position + 1 .. Len(batch))
    BY <1>0, <1>1
  <1>7. Rest(c) = {d} \cup Rest(c)'
    BY <1>2, <1>5, <1>6
  <1>8. Before({d}, Rest(c)')
    <2>1. \A k \in position + 1 .. Len(batch) : k \in DOMAIN batch /\ position < k
      BY <1>0
    <2>2. \A k \in position + 1 .. Len(batch) : Precedes(d, batch[k])
      BY <1>0, <1>2, <2>1 DEF OrderKept, Ordered
    <2>3. QED
      BY <1>5, <2>2 DEF Before
  <1>9. ToSet(batch) = {batch[k] : k \in 1 .. Len(batch)}
    BY <1>0 DEF ToSet
  <1>10. \A e \in ToSet(batch) : Precedes(e, d) \/ e = d \/ e \in Rest(c)'
    <2>1. SUFFICES ASSUME NEW k \in 1 .. Len(batch)
                   PROVE  Precedes(batch[k], d) \/ batch[k] = d \/ batch[k] \in Rest(c)'
      BY <1>9
    <2>2. CASE k < position
      BY <1>0, <1>2, <2>2 DEF OrderKept, Ordered
    <2>3. CASE k > position
      <3>1. k \in position + 1 .. Len(batch)
        BY <1>0, <2>3
      <3>2. QED
        BY <1>5, <3>1
    <2>4. QED
      BY <1>0, <1>2, <2>2, <2>3
  <1>11. OrderKept'
    <2>1. Before(Delivered(c), {d})
      BY <1>0, <1>2, <1>7 DEF OrderKept, Before
    <2>2. Ordered(sent'[c])
      <3>1. Before(ToSet(sent[c]), {d}) /\ sent[c] \in Seq(Deltas)
        BY <1>0, <1>2, <2>1 DEF Delivered
      <3>2. Ordered(sent[c])
        BY <1>0 DEF OrderKept
      <3>3. QED
        BY <1>3, <3>1, <3>2, OrderedAppend
    <2>3. /\ Before({d}, ToSet(queue))
          /\ \A i \in Ingest : Before({d}, ToSet(deltas[i]))
      BY <1>0, <1>2 DEF OrderKept, Before
    <2>4. /\ Before(Delivered(c)', Rest(c)' \cup ToSet(queue'))
          /\ \A i \in Ingest : Before(Delivered(c)', ToSet(deltas'[i]))
      <3>1. /\ Before(Delivered(c), Rest(c) \cup ToSet(queue))
            /\ \A i \in Ingest : Before(Delivered(c), ToSet(deltas[i]))
        BY <1>0, <1>2 DEF OrderKept
      <3>2. QED
        BY <1>1, <1>4, <1>7, <1>8, <2>3, <3>1 DEF Before
    <2>5. ASSUME NEW w \in Client
          PROVE  /\ Ordered(sent'[w]) /\ Before(Delivered(w)', Rest(w)' \cup ToSet(queue'))
                 /\ \A i \in Ingest : Before(Delivered(w)', ToSet(deltas'[i]))
      <3>1. CASE w = c
        BY <2>2, <2>4, <3>1
      <3>2. CASE w # c
        <4>1. /\ Ordered(sent[w]) /\ Before(Delivered(w), Rest(w) \cup ToSet(queue))
              /\ \A i \in Ingest : Before(Delivered(w), ToSet(deltas[i]))
          BY <1>0 DEF OrderKept
        <4>2. QED
          BY <1>1, <1>3, <3>2, <4>1
      <3>3. QED
        BY <3>1, <3>2
    <2>6. QED
      BY <1>0, <1>1, <2>5 DEF OrderKept
  <1>12. HandlersOK'
    <2>1. \A w \in Client : Delivered(w)' \subseteq Delivered(w) \cup ToSet(batch)
      BY <1>2, <1>3, <1>4
    <2>2. QED
      BY <1>0, <1>1, <2>1 DEF HandlersOK
  <1>13. RoundOK'
    <2>1. current' = c /\ conn[c] # "new" /\ position' > 0
      BY <1>0, <1>1, <1>2
    <2>2. QED
      BY <1>0, <1>1, <1>2, <1>3, <2>1 DEF RoundOK
  <1>14. ASSUME NEW i \in Ingest, NEW f \in Touches[i]
         PROVE  /\ EventDelta(i) \in ToSet(batch') \cup (ToSet(queue') \cup ToSet(deltas'[i])) =>
                      EdgeDelta(i, f) \in ToSet(batch') \cup (ToSet(queue') \cup ToSet(deltas'[i]))
                                              \cup dropped'
                /\ \A w \in Client : conn'[w] = "open" /\ EventDelta(i) \in Delivered(w)' =>
                      EdgeDelta(i, f) \in Delivered(w)' \cup dropped' \cup Rest(w)'
                                              \cup (ToSet(queue') \cup ToSet(deltas'[i]))
    <2>1. /\ EventDelta(i) \in ToSet(batch) \cup (ToSet(queue) \cup ToSet(deltas[i])) =>
                EdgeDelta(i, f) \in ToSet(batch) \cup (ToSet(queue) \cup ToSet(deltas[i]))
                                        \cup dropped
          /\ \A w \in Client : conn[w] = "open" /\ EventDelta(i) \in Delivered(w) =>
                EdgeDelta(i, f) \in Delivered(w) \cup dropped \cup Rest(w)
                                        \cup (ToSet(queue) \cup ToSet(deltas[i]))
      BY <1>0, <1>14 DEF EdgesFollow
    <2>2. d = EventDelta(i) => EdgeDelta(i, f) \notin ToSet(batch) \/ EdgeDelta(i, f) \in Rest(c)'
      <3>1. EdgeDelta(i, f) # EventDelta(i) /\ ~Precedes(EdgeDelta(i, f), EventDelta(i))
        BY EventOf
      <3>2. QED
        BY <1>10, <3>1
    <2>3. ASSUME NEW w \in Client, conn[w] = "open", EventDelta(i) \in Delivered(w)'
          PROVE  EdgeDelta(i, f) \in Delivered(w)' \cup dropped \cup Rest(w)'
                                         \cup (ToSet(queue) \cup ToSet(deltas[i]))
      <3>1. CASE w # c
        BY <1>3, <2>1, <2>3, <3>1
      <3>2. CASE w = c /\ EventDelta(i) \in Delivered(c)
        BY <1>4, <1>7, <2>1, <2>3, <3>2
      <3>3. CASE w = c /\ EventDelta(i) = d
        BY <1>2, <2>1, <2>2, <3>3
      <3>4. QED
        BY <1>4, <2>3, <3>1, <3>2, <3>3
    <2>4. QED
      BY <1>1, <2>1, <2>3
  <1>15. NoGaps'
    <2>1. ASSUME NEW w \in Client, NEW i \in Ingest, NEW f \in Touches[i],
                 {EventDelta(i), CompleteDelta(i)} \subseteq Delivered(w)'
          PROVE  EdgeDelta(i, f) \in Delivered(w)' \cup dropped'
      <3>1. CASE w # c
        BY <1>0, <1>1, <1>3, <2>1, <3>1 DEF NoGaps
      <3>2. CASE w = c
        <4>1. EdgeDelta(i, f) \in Delivered(c)' \cup dropped' \cup Rest(c)'
                                      \cup (ToSet(queue') \cup ToSet(deltas'[i]))
          BY <1>1, <1>2, <1>14, <2>1, <3>2
        <4>2. ~Precedes(CompleteDelta(i), EdgeDelta(i, f))
          BY EventOf
        <4>3. EdgeDelta(i, f) \notin Rest(c)' \cup ToSet(queue') \cup ToSet(deltas'[i])
          <5>1. /\ Before(Delivered(c)', Rest(c)' \cup ToSet(queue'))
                /\ Before(Delivered(c)', ToSet(deltas'[i]))
            BY <1>2, <1>11 DEF OrderKept
          <5>2. QED
            BY <2>1, <3>2, <4>2, <5>1 DEF Before
        <4>4. QED
          BY <3>2, <4>1, <4>3
      <3>3. QED
        BY <3>1, <3>2
    <2>2. QED
      BY <2>1 DEF NoGaps
  <1>16. EdgesFollow'
    BY <1>14 DEF EdgesFollow
  <1>17. QED
    BY <1>11, <1>12, <1>13, <1>15, <1>16

------------------------------------------------------------------------------
(* The theorems.                                                            *)

LEMMA InvInit == Init => Inv
  <1> SUFFICES ASSUME Init PROVE Inv
    OBVIOUS
  <1>1. /\ queue = <<>> /\ batch = <<>> /\ deltas = [i \in Ingest |-> <<>>]
        /\ sent = [w \in Client |-> <<>>] /\ visited = {} /\ dead = {} /\ clients = {}
        /\ bpc = "sleep" /\ position = 0 /\ conn = [w \in Client |-> "new"]
        /\ enq = [i \in Ingest |-> "put"] /\ dropped = {}
    BY DEF Init
  <1>2. /\ ToSet(queue) = {} /\ ToSet(batch) = {} /\ \A i \in Ingest : ToSet(deltas[i]) = {}
        /\ \A w \in Client : Delivered(w) = {} /\ Rest(w) = {}
    BY <1>1, EmptyList DEF Delivered, Rest
  <1>3. TypeOK
    <2>1. <<>> \in Seq(Deltas)
      OBVIOUS
    <2>2. Len(queue) = 0 /\ Len(batch) = 0
      BY <1>1, EmptyList
    <2>3. Len(queue) <= QueueMax /\ position \in 0 .. Len(batch) + 1
      BY <1>1, <2>2, LiveFeedAssumption
    <2>4. QED
      BY <2>1, <2>3 DEF Init, TypeOK
  <1>4. OrderKept
    BY <1>1, <1>2, EmptyList DEF OrderKept, Before
  <1>5. HandlersOK
    BY <1>1, <1>2 DEF HandlersOK
  <1>6. RoundOK
    BY <1>1 DEF RoundOK
  <1>7. EdgesFollow /\ NoGaps
    BY <1>2 DEF EdgesFollow, NoGaps
  <1>8. QED
    BY <1>3, <1>4, <1>5, <1>6, <1>7 DEF Inv

LEMMA InvStep == Inv /\ [Next]_vars => Inv'
  <1> SUFFICES ASSUME Inv, [Next]_vars PROVE Inv'
    OBVIOUS
  <1>1. TypeOK'
    BY TypeStep
  <1>2. ASSUME NEW i \in Ingest, Handle(i)
        PROVE  OrderKept' /\ HandlersOK' /\ RoundOK' /\ EdgesFollow' /\ NoGaps'
    BY <1>2, CommitStep, MovesStep DEF Handle
  <1>3. ASSUME Broadcast
        PROVE  OrderKept' /\ HandlersOK' /\ RoundOK' /\ EdgesFollow' /\ NoGaps'
    <2>1. CASE DrainOne
      BY <2>1, DrainStep
    <2>2. CASE Send
      BY <2>2, SendStep
    <2>3. CASE BeginRound \/ BroadcasterDies \/ NextClient \/ SendRaises \/ ClientDone \/ EndRound
      BY <2>3, RoundStep
    <2>4. QED
      BY <1>3, <2>1, <2>2, <2>3 DEF Broadcast
  <1>4. ASSUME UNCHANGED vars
        PROVE  OrderKept' /\ HandlersOK' /\ RoundOK' /\ EdgesFollow' /\ NoGaps'
    <2>1. /\ UNCHANGED <<deltas, status, enq, queue, dropped, sent, batch, conn, clients, bpc>>
          /\ UNCHANGED <<started, visited, dead, current, position>>
      BY <1>4 DEF vars, handlers, round, history
    <2>2. \A w \in Client : Rest(w)' = Rest(w)
      BY <2>1 DEF Rest
    <2>3. RoundOK'
      BY <2>1 DEF Inv, RoundOK
    <2>4. /\ UNCHANGED <<deltas, status, enq, queue, dropped, sent>>
          /\ batch' = batch \/ batch' = <<>>
          /\ \A w \in Client : Rest(w)' \subseteq Rest(w)
          /\ \A w \in Client : conn'[w] = "open" =>
                sent[w] = <<>> \/ (conn[w] = "open" /\ Rest(w)' = Rest(w))
      BY <2>1, <2>2
    <2>5. OrderKept' /\ HandlersOK' /\ EdgesFollow' /\ NoGaps'
      BY <2>4, NothingSent
    <2>6. QED
      BY <2>3, <2>5
  <1>5. ASSUME NEW w \in Client, Connect(w) \/ PeerGone(w) \/ Leave(w)
        PROVE  OrderKept' /\ HandlersOK' /\ RoundOK' /\ EdgesFollow' /\ NoGaps'
    BY <1>5, ConnectionStep
  <1>6. OrderKept' /\ HandlersOK' /\ RoundOK' /\ EdgesFollow' /\ NoGaps'
    <2>1. CASE Next
      BY <1>2, <1>3, <1>4, <1>5, <2>1 DEF Next, Idle
    <2>2. QED
      BY <1>4, <2>1
  <1>7. QED
    BY <1>1, <1>6 DEF Inv

\* The invariant of the feed, for any number of ingests, threads, facts and
\* connections and any bound of the queue.
THEOREM FeedInvHolds == Spec => []Inv
  BY InvInit, InvStep, PTL DEF Spec

\* A connection gets the deltas of one ingest once each and in the order of
\* _handle_ingest, whatever is put, dropped, drained and sent meanwhile.
THEOREM FeedDeliversInOrder == Spec => []DeliveredInOrder
  <1>1. Inv => DeliveredInOrder
    BY DEF Inv, OrderKept, DeliveredInOrder
  <1>2. QED
    BY <1>1, FeedInvHolds, PTL

\* A connection that got an ingest's event and its "ingest_complete" got the
\* edges in between, those the full queue lost aside.
THEOREM FeedHasNoGaps == Spec => []NoGaps
  <1>1. Inv => NoGaps
    BY DEF Inv
  <1>2. QED
    BY <1>1, FeedInvHolds, PTL

------------------------------------------------------------------------------
(* Lists in which ends come before edges.                                   *)

LEMMA NodesUnion ==
    ASSUME NEW D, NEW E
    PROVE  Nodes(D \cup E) = Nodes(D) \cup Nodes(E) /\ (D \subseteq E => Nodes(D) \subseteq Nodes(E))
  BY DEF Nodes

LEMMA EndsMore ==
    ASSUME NEW s, NEW p, NEW N, NEW M, EndsFirst(s, p, N), N \subseteq M
    PROVE  EndsFirst(s, p, M)
  <1>1. \A k \in p .. Len(s) : s[k].type = "edge_added" =>
           Ends(s[k]) \subseteq N \cup Nodes({s[j] : j \in p .. k - 1})
    BY DEF EndsFirst
  <1>2. \A k \in p .. Len(s) : s[k].type = "edge_added" =>
           Ends(s[k]) \subseteq M \cup Nodes({s[j] : j \in p .. k - 1})
    BY <1>1
  <1>3. QED
    BY <1>2 DEF EndsFirst

LEMMA EndsAppend ==
    ASSUME NEW s \in Seq(Deltas), NEW x \in Deltas, NEW p \in Nat, p > 0, NEW N, EndsFirst(s, p, N),
           x.type = "edge_added" => Ends(x) \subseteq N \cup Nodes({s[j] : j \in p .. Len(s)})
    PROVE  EndsFirst(Append(s, x), p, N)
  <1> DEFINE t == Append(s, x)
  <1>1. /\ Len(s) \in Nat /\ Len(t) = Len(s) + 1 /\ t[Len(s) + 1] = x
        /\ \A k \in 1 .. Len(s) : t[k] = s[k]
    OBVIOUS
  <1>2. ASSUME NEW k \in p .. Len(t), t[k].type = "edge_added"
        PROVE  Ends(t[k]) \subseteq N \cup Nodes({t[j] : j \in p .. k - 1})
    <2>1. k - 1 \in 0 .. Len(s) /\ \A j \in p .. k - 1 : t[j] = s[j]
      BY <1>1, <1>2
    <2> HIDE DEF t
    <2>2. {t[j] : j \in p .. k - 1} = {s[j] : j \in p .. k - 1}
      BY <2>1
    <2>3. CASE k = Len(s) + 1
      <3>1. t[k] = x /\ k - 1 = Len(s)
        BY <1>1, <2>3
      <3>2. QED
        BY <1>2, <2>2, <3>1
    <2>4. CASE k # Len(s) + 1
      <3>1. k \in p .. Len(s) /\ t[k] = s[k]
        BY <1>1, <1>2, <2>4
      <3>2. Ends(s[k]) \subseteq N \cup Nodes({s[j] : j \in p .. k - 1})
        BY <1>2, <3>1 DEF EndsFirst
      <3>3. QED
        BY <2>2, <3>1, <3>2
    <2>5. QED
      BY <2>3, <2>4
  <1>3. QED
    BY <1>2 DEF EndsFirst

LEMMA EndsNext ==
    ASSUME NEW s \in Seq(Deltas), NEW p \in 1 .. Len(s), NEW N, EndsFirst(s, p, N)
    PROVE  /\ EndsFirst(s, p + 1, N \cup Nodes({s[p]}))
           /\ s[p].type = "edge_added" => Ends(s[p]) \subseteq N
  <1>0. Len(s) \in Nat /\ p \in Nat
    OBVIOUS
  <1>1. ASSUME NEW k \in p + 1 .. Len(s), s[k].type = "edge_added"
        PROVE  Ends(s[k]) \subseteq N \cup Nodes({s[p]}) \cup Nodes({s[j] : j \in p + 1 .. k - 1})
    <2>1. k \in p .. Len(s) /\ p .. k - 1 = {p} \cup (p + 1 .. k - 1)
      BY <1>0, <1>1
    <2>2. {s[j] : j \in p .. k - 1} = {s[p]} \cup {s[j] : j \in p + 1 .. k - 1}
      BY <2>1
    <2>3. Ends(s[k]) \subseteq N \cup Nodes({s[j] : j \in p .. k - 1})
      BY <1>1, <2>1 DEF EndsFirst
    <2>4. Nodes({s[j] : j \in p .. k - 1}) = Nodes({s[p]}) \cup Nodes({s[j] : j \in p + 1 .. k - 1})
      BY <2>2, NodesUnion
    <2>5. QED
      BY <2>3, <2>4
  <1>2. ASSUME s[p].type = "edge_added" PROVE Ends(s[p]) \subseteq N
    <2>1. p \in p .. Len(s) /\ p .. p - 1 = {}
      BY <1>0
    <2>2. {s[j] : j \in p .. p - 1} = {}
      BY <2>1
    <2>3. Nodes({}) = {}
      BY DEF Nodes
    <2>4. QED
      BY <1>2, <2>1, <2>2, <2>3 DEF EndsFirst
  <1>3. QED
    BY <1>1, <1>2 DEF EndsFirst

LEMMA EndsTail ==
    ASSUME NEW s \in Seq(Deltas), s # <<>>, NEW N, EndsFirst(s, 1, N)
    PROVE  /\ EndsFirst(Tail(s), 1, N \cup Nodes({Head(s)}))
           /\ Head(s).type = "edge_added" => Ends(Head(s)) \subseteq N
  <1> DEFINE t == Tail(s)
  <1>0. /\ Len(s) \in Nat \ {0} /\ Len(t) = Len(s) - 1 /\ Head(s) = s[1]
        /\ \A k \in 1 .. Len(t) : t[k] = s[k + 1]
    OBVIOUS
  <1>1. /\ EndsFirst(s, 2, N \cup Nodes({Head(s)}))
        /\ Head(s).type = "edge_added" => Ends(Head(s)) \subseteq N
    <2>1. 1 \in 1 .. Len(s) /\ 1 + 1 = 2
      BY <1>0
    <2>2. /\ EndsFirst(s, 1 + 1, N \cup Nodes({s[1]}))
          /\ s[1].type = "edge_added" => Ends(s[1]) \subseteq N
      BY <2>1, EndsNext
    <2>3. QED
      BY <1>0, <2>1, <2>2
  <1> HIDE DEF t
  <1>2. ASSUME NEW k \in 1 .. Len(t), t[k].type = "edge_added"
        PROVE  Ends(t[k]) \subseteq N \cup Nodes({Head(s)}) \cup Nodes({t[j] : j \in 1 .. k - 1})
    <2>1. k + 1 \in 2 .. Len(s) /\ t[k] = s[k + 1] /\ \A j \in 1 .. k - 1 : t[j] = s[j + 1]
      BY <1>0
    <2>2. Ends(s[k + 1]) \subseteq N \cup Nodes({Head(s)}) \cup Nodes({s[j] : j \in 2 .. (k + 1) - 1})
      BY <1>1, <1>2, <2>1 DEF EndsFirst
    <2>3. {s[j] : j \in 2 .. (k + 1) - 1} \subseteq {t[j] : j \in 1 .. k - 1}
      <3> SUFFICES ASSUME NEW j \in 2 .. (k + 1) - 1 PROVE s[j] \in {t[m] : m \in 1 .. k - 1}
        OBVIOUS
      <3>1. j - 1 \in 1 .. k - 1 /\ (j - 1) + 1 = j
        BY <1>2
      <3>2. QED
        BY <2>1, <3>1
    <2>4. Nodes({s[j] : j \in 2 .. (k + 1) - 1}) \subseteq Nodes({t[j] : j \in 1 .. k - 1})
      BY <2>3 DEF Nodes
    <2>5. QED
      BY <2>1, <2>2, <2>4
  <1>3. QED
    BY <1>1, <1>2 DEF EndsFirst, t

LEMMA EndsOfNone ==
    ASSUME NEW N
    PROVE  EndsFirst(<<>>, 1, N)
  <1>1. 1 .. Len(<<>>) = {}
    OBVIOUS
  <1>2. QED
    BY <1>1 DEF EndsFirst

------------------------------------------------------------------------------
(* The deltas of an ingest add all of its elements that are not stored.     *)

LEMMA IngestAdds ==
    ASSUME NEW i \in Ingest, NEW known
    PROVE  LET D == ToSet(DeltasOf(i, known)) IN
           /\ \A d \in D : d.element \in ElementsOf(i)
           /\ \A d \in D : d.type = "edge_added" =>
                 /\ Ends(d) \subseteq ElementsOf(i)
                 /\ Ends(d) \subseteq Nodes(D) \cup {el \in known : TypeOf(el) = "node_added"}
           /\ \A el \in ElementsOf(i) \ known : \E d \in D : d.element = el /\ d.type = TypeOf(el)
  <1> DEFINE p == Parts(i, known)
             D == ToSet(DeltasOf(i, known))
  <1>1. D = p.event \cup p.facts \cup p.links \cup p.edges \cup p.complete
    BY DeltasOfIngest
  <1>2. /\ p.event = {Delta(i, "node_added", EventElement(i))}
        /\ p.facts = {Delta(i, "node_added", el) : el \in {FactElement(f) : f \in Touches[i]} \ known}
        /\ p.links = {Delta(i, "link_found", el) : el \in {FactElement(f) : f \in Touches[i]} \cap known}
        /\ p.edges = {Delta(i, "edge_added", EdgeElement(i, f)) : f \in Touches[i]}
        /\ p.complete = {Delta(i, "ingest_complete", EventElement(i))}
    BY DEF Parts
  <1> HIDE DEF p, D
  <1>3. \A t, el : Delta(i, t, el).type = t /\ Delta(i, t, el).element = el
    BY DEF Delta
  <1>4. /\ TypeOf(EventElement(i)) = "node_added"
        /\ \A f : TypeOf(FactElement(f)) = "node_added" /\ TypeOf(EdgeElement(i, f)) = "edge_added"
        /\ \A f : EdgeElement(i, f)[2] = i /\ EdgeElement(i, f)[3] = f
    BY DEF TypeOf, EventElement, FactElement, EdgeElement
  <1>5. \A d \in D : d.element \in ElementsOf(i)
    BY <1>1, <1>2, <1>3 DEF ElementsOf
  <1>6. ASSUME NEW d \in D, d.type = "edge_added"
        PROVE  /\ Ends(d) \subseteq ElementsOf(i)
               /\ Ends(d) \subseteq Nodes(D) \cup {el \in known : TypeOf(el) = "node_added"}
    <2>1. PICK f \in Touches[i] : d.element = EdgeElement(i, f)
      BY <1>1, <1>2, <1>3, <1>6
    <2>2. Ends(d) = {EventElement(i), FactElement(f)}
      BY <1>4, <2>1 DEF Ends
    <2>3. EventElement(i) \in Nodes(D)
      <3>1. Delta(i, "node_added", EventElement(i)) \in D
        BY <1>1, <1>2
      <3>2. QED
        BY <1>3, <3>1 DEF Nodes
    <2>4. FactElement(f) \notin known => FactElement(f) \in Nodes(D)
      <3>1. FactElement(f) \notin known => Delta(i, "node_added", FactElement(f)) \in D
        BY <1>1, <1>2
      <3>2. QED
        BY <1>3, <3>1 DEF Nodes
    <2>5. QED
      BY <1>4, <2>2, <2>3, <2>4 DEF ElementsOf
  <1>7. ASSUME NEW el \in ElementsOf(i) \ known
        PROVE  \E d \in D : d.element = el /\ d.type = TypeOf(el)
    <2>1. CASE el = EventElement(i)
      <3>1. Delta(i, "node_added", el) \in D
        BY <1>1, <1>2, <2>1
      <3>2. QED
        BY <1>3, <1>4, <2>1, <3>1
    <2>2. CASE el \in {FactElement(f) : f \in Touches[i]}
      <3>1. Delta(i, "node_added", el) \in D
        BY <1>1, <1>2, <1>7, <2>2
      <3>2. QED
        BY <1>3, <1>4, <2>2, <3>1
    <2>3. CASE el \in {EdgeElement(i, f) : f \in Touches[i]}
      <3>1. Delta(i, "edge_added", el) \in D
        BY <1>1, <1>2, <2>3
      <3>2. QED
        BY <1>3, <1>4, <2>3, <3>1
    <2>4. QED
      BY <1>7, <2>1, <2>2, <2>3 DEF ElementsOf
  <1>8. QED
    BY <1>5, <1>6, <1>7 DEF D

------------------------------------------------------------------------------
(* The snapshots.                                                           *)

AllDeltas == ToSet(batch) \cup ToSet(queue) \cup UNION {ToSet(deltas[i]) : i \in Ingest}

LEMMA CommitSnapshots ==
    ASSUME SingleThread, SerialInv, NEW i \in Ingest, Commit(i)
    PROVE  SnapshotsOK'
  <1>0. TypeOK /\ SnapshotsOK /\ stored \subseteq Elements
    BY DEF SerialInv, Inv, TypeOK
  <1>1. /\ \A j \in Ingest : ~Busy(j)
        /\ stored' = stored \cup ElementsOf(i) /\ graph' = [graph EXCEPT ![i] = stored']
        /\ deltas' = [deltas EXCEPT ![i] = DeltasOf(i, stored)]
        /\ status' = [status EXCEPT ![i] = "emit"]
        /\ UNCHANGED <<batch, queue, settled, conn, latest>>
    BY DEF Commit, SingleThread, round, history
  <1>2. \A j \in Ingest : deltas[j] = <<>>
    BY <1>0, <1>1 DEF SnapshotsOK
  <1>3. /\ deltas'[i] = DeltasOf(i, stored) /\ graph'[i] = stored' /\ Busy(i)'
        /\ \A j \in Ingest : j # i => deltas'[j] = <<>> /\ ~Busy(j)'
    BY <1>0, <1>1, <1>2 DEF TypeOK, Busy
  <1>4. \A d \in AllDeltas' : d \in ToSet(batch) \cup ToSet(queue) \cup ToSet(DeltasOf(i, stored))
    BY <1>1, <1>3, EmptyList DEF AllDeltas
  <1>5. \A d \in ToSet(batch) \cup ToSet(queue) :
           d.element \in stored /\ (d.type = "edge_added" => Ends(d) \subseteq stored)
    BY <1>0 DEF SnapshotsOK
  <1>6. \A d \in ToSet(DeltasOf(i, stored)) :
           d.element \in ElementsOf(i) /\ (d.type = "edge_added" => Ends(d) \subseteq ElementsOf(i))
    BY IngestAdds
  <1>7. \A d \in AllDeltas' :
           d.element \in stored' /\ (d.type = "edge_added" => Ends(d) \subseteq stored')
    BY <1>1, <1>4, <1>5, <1>6
  <1>8. \A w \in settled' : conn'[w] # "new"
    BY <1>0, <1>1 DEF SnapshotsOK
  <1>9. QED
    BY <1>3, <1>7, <1>8 DEF SnapshotsOK, AllDeltas

\* Any other step says less than there was to say, and keeps the store.
LEMMA OtherSnapshots ==
    ASSUME SnapshotsOK, UNCHANGED <<stored, graph>>, AllDeltas' \subseteq AllDeltas,
           \A i \in Ingest : deltas'[i] # <<>> => Busy(i)',
           \A i \in Ingest : Busy(i)' => Busy(i),
           \/ UNCHANGED <<status, latest>>
           \/ \E i \in Ingest : Busy(i) /\ latest' = graph[i],
           \A w \in settled' : conn'[w] # "new"
    PROVE  SnapshotsOK'
  <1>1. \A d \in AllDeltas' :
           d.element \in stored' /\ (d.type = "edge_added" => Ends(d) \subseteq stored')
    BY DEF SnapshotsOK, AllDeltas
  <1>2. \A i \in Ingest : Busy(i)' => graph'[i] = stored'
    BY DEF SnapshotsOK
  <1>3. (\A i \in Ingest : ~Busy(i)') => latest' = stored' \/ (latest' = None /\ stored' = {})
    <2>1. CASE UNCHANGED <<status, latest>>
      BY <2>1 DEF SnapshotsOK, Busy
    <2>2. CASE \E i \in Ingest : Busy(i) /\ latest' = graph[i]
      BY <2>2 DEF SnapshotsOK
    <2>3. QED
      BY <2>1, <2>2
  <1>4. QED
    BY <1>1, <1>2, <1>3 DEF SnapshotsOK, AllDeltas

LEMMA MovesSnapshots ==
    ASSUME SerialInv, NEW i \in Ingest, PutNowait(i) \/ PopOldest(i) \/ Reput(i) \/ UpdateSnapshot(i)
    PROVE  SnapshotsOK' /\ UNCHANGED <<stored, view, settled>>
  <1>0. Inv /\ TypeOK /\ SnapshotsOK /\ queue \in Seq(Deltas)
    BY DEF SerialInv, Inv, TypeOK
  <1>1. UNCHANGED <<stored, graph, settled, conn, batch, view>>
    BY DEF PutNowait, PopOldest, Reput, UpdateSnapshot, round, history
  <1>2. /\ ServerAlone
        /\ UNCHANGED <<queue, deltas, dropped>> \/ Queued(i) \/ LostOldest \/ LostOwn(i)
    BY <1>0, HandlerMoves
  <1>3. /\ AllDeltas' \subseteq AllDeltas
        /\ \A j \in Ingest : deltas'[j] # <<>> => deltas[j] # <<>>
    <2>1. CASE UNCHANGED <<queue, deltas, dropped>>
      BY <1>1, <2>1 DEF AllDeltas
    <2>2. CASE Queued(i)
      <3>1. /\ Head(deltas[i]) \in Deltas /\ Head(deltas[i]) \in ToSet(deltas[i])
            /\ \A j \in Ingest : j # i => deltas'[j] = deltas[j]
            /\ \A j \in Ingest : ToSet(deltas'[j]) \subseteq ToSet(deltas[j])
        BY <1>0, <2>2, MoveFacts
      <3>2. ToSet(queue') = ToSet(queue) \cup {Head(deltas[i])} /\ deltas[i] # <<>>
        BY <1>0, <2>2, <3>1, AppendAt DEF Queued
      <3>3. QED
        BY <1>1, <3>1, <3>2 DEF AllDeltas
    <2>3. CASE LostOldest
      <3>1. ToSet(queue') \subseteq ToSet(queue) /\ deltas' = deltas
        BY <1>0, <2>3, TailAt DEF LostOldest
      <3>2. QED
        BY <1>1, <3>1 DEF AllDeltas
    <2>4. CASE LostOwn(i)
      <3>1. /\ \A j \in Ingest : j # i => deltas'[j] = deltas[j]
            /\ \A j \in Ingest : ToSet(deltas'[j]) \subseteq ToSet(deltas[j])
            /\ queue' = queue /\ deltas[i] # <<>>
        BY <1>0, <2>4, MoveFacts DEF LostOwn
      <3>2. QED
        BY <1>1, <3>1 DEF AllDeltas
    <2>5. QED
      BY <1>2, <2>1, <2>2, <2>3, <2>4
  <1>4. \/ UNCHANGED <<status, latest>>
        \/ /\ Busy(i) /\ latest' = graph[i] /\ status' = [status EXCEPT ![i] = "done"]
           /\ deltas' = deltas /\ deltas[i] = <<>>
    BY DEF PutNowait, PopOldest, Reput, UpdateSnapshot, KeepSnapshot
  <1>5. /\ \A j \in Ingest : deltas'[j] # <<>> => Busy(j)'
        /\ \A j \in Ingest : Busy(j)' => Busy(j)
    BY <1>0, <1>3, <1>4 DEF SnapshotsOK, Busy, TypeOK
  <1>6. \A w \in settled' : conn'[w] # "new"
    BY <1>0, <1>1 DEF SnapshotsOK
  <1>7. \/ UNCHANGED <<status, latest>>
        \/ \E j \in Ingest : Busy(j) /\ latest' = graph[j]
    BY <1>4
  <1>8. SnapshotsOK'
    BY <1>0, <1>1, <1>3, <1>5, <1>6, <1>7, OtherSnapshots
  <1>9. QED
    BY <1>1, <1>8

LEMMA ServerSnapshots ==
    ASSUME SerialInv,
           Broadcast \/ UNCHANGED vars \/ \E v \in Client : Connect(v) \/ PeerGone(v) \/ Leave(v)
    PROVE  SnapshotsOK'
  <1>0. TypeOK /\ SnapshotsOK /\ queue \in Seq(Deltas) /\ batch \in Seq(Deltas)
    BY DEF SerialInv, Inv, TypeOK
  <1>1. UNCHANGED <<stored, graph, deltas, status, latest>>
    BY DEF Broadcast, DrainOne, BeginRound, BroadcasterDies, NextClient, Send, SendRaises,
           ClientDone, EndRound, Connect, PeerGone, Leave, vars, handlers
  <1>2. AllDeltas' \subseteq AllDeltas
    <2>1. CASE DrainOne
      <3>1. /\ ToSet(queue) = {Head(queue)} \cup ToSet(queue')
            /\ ToSet(batch') = ToSet(batch) \cup {Head(queue)}
        BY <1>0, <2>1, TailAt, AppendAt DEF DrainOne, Pop
      <3>2. QED
        BY <1>1, <3>1 DEF AllDeltas
    <2>2. CASE queue' = queue /\ (batch' = batch \/ batch' = <<>>)
      BY <1>1, <2>2, EmptyList DEF AllDeltas
    <2>3. DrainOne \/ (queue' = queue /\ (batch' = batch \/ batch' = <<>>))
      BY DEF Broadcast, BeginRound, BroadcasterDies, NextClient, Send, SendRaises,
             ClientDone, EndRound, Connect, PeerGone, Leave, vars, round
    <2>4. QED
      BY <2>1, <2>2, <2>3
  <1>3. \A w \in settled' : conn'[w] # "new"
    <2>1. CASE UNCHANGED <<settled, conn>>
      BY <1>0, <2>1 DEF SnapshotsOK
    <2>2. ASSUME NEW v \in Client, conn' = [conn EXCEPT ![v] = "open"] \/
                                   conn' = [conn EXCEPT ![v] = "gone"] \/
                                   conn' = [conn EXCEPT ![v] = "left"],
                 settled' \subseteq settled \cup {v}
          PROVE  \A w \in settled' : conn'[w] # "new"
      <3>1. settled \subseteq Client /\ \A w \in settled : conn[w] # "new"
        BY <1>0 DEF SnapshotsOK, TypeOK
      <3>2. /\ \A w \in Client \ {v} : conn'[w] = conn[w]
            /\ conn'[v] # "new"
        BY <1>0, <2>2 DEF TypeOK
      <3>3. QED
        BY <2>2, <3>1, <3>2
    <2>3. ASSUME NEW v \in Client, Connect(v) \/ PeerGone(v) \/ Leave(v)
          PROVE  /\ \/ conn' = [conn EXCEPT ![v] = "open"]
                    \/ conn' = [conn EXCEPT ![v] = "gone"]
                    \/ conn' = [conn EXCEPT ![v] = "left"]
                 /\ settled' \subseteq settled \cup {v}
      BY <2>3 DEF Connect, PeerGone, Leave, history
    <2>4. Broadcast \/ UNCHANGED vars => UNCHANGED <<settled, conn>>
      BY DEF Broadcast, DrainOne, BeginRound, BroadcasterDies, NextClient, Send, SendRaises,
             ClientDone, EndRound, vars, history
    <2>5. QED
      BY <2>1, <2>2, <2>3, <2>4
  <1>4. /\ \A i \in Ingest : deltas'[i] # <<>> => Busy(i)'
        /\ \A i \in Ingest : Busy(i)' => Busy(i)
    BY <1>0, <1>1 DEF SnapshotsOK, Busy
  <1>5. QED
    BY <1>0, <1>1, <1>2, <1>3, <1>4, OtherSnapshots

------------------------------------------------------------------------------
(* The pages, step by step of a handler.                                    *)

LEMMA CommitPage ==
    ASSUME SingleThread, SerialInv, NEW i \in Ingest, Commit(i), NEW w \in Client, PageOK(w)
    PROVE  PageOK(w)'
  <1> DEFINE D == ToSet(DeltasOf(i, stored))
  <1>0. Inv /\ TypeOK /\ RoundOK /\ SnapshotsOK
    BY DEF SerialInv, Inv
  <1>1. /\ \A j \in Ingest : ~Busy(j)
        /\ stored' = stored \cup ElementsOf(i)
        /\ deltas' = [deltas EXCEPT ![i] = DeltasOf(i, stored)]
        /\ UNCHANGED <<batch, queue, view, bpc, visited, current, position, started>> /\ ServerAlone
    BY DEF Commit, SingleThread, round, history, ServerAlone
  <1>2. \A j \in Ingest : deltas[j] = <<>>
    BY <1>0, <1>1 DEF SnapshotsOK
  <1>3. ToSet(deltas'[i]) = D /\ \A j \in Ingest : j # i => ToSet(deltas'[j]) = {}
    BY <1>0, <1>1, <1>2, EmptyList DEF TypeOK
  <1>4. Rest(w)' = Rest(w)
    BY <1>0, <1>1, ServerAloneKeeps
  <1>5. Coming(w) = Rest(w) \cup ToSet(queue) /\ Coming(w)' = Coming(w) \cup D
    BY <1>1, <1>2, <1>3, <1>4, EmptyList DEF Coming
  <1>6. /\ \A d \in D : d.type = "edge_added" =>
              Ends(d) \subseteq Nodes(D) \cup {el \in stored : TypeOf(el) = "node_added"}
        /\ \A el \in ElementsOf(i) \ stored : \E d \in D : d.element = el /\ d.type = TypeOf(el)
    BY IngestAdds
  <1> HIDE DEF D
  <1>7. \A el \in stored \ view[w] : \E d \in Coming(w) : d.element = el /\ d.type = TypeOf(el)
    BY DEF PageOK
  <1>8. {el \in stored : TypeOf(el) = "node_added"} \subseteq view[w] \cup Nodes(Coming(w))
    BY <1>7 DEF Nodes
  <1>9. view'[w] \subseteq stored'
    BY <1>1 DEF PageOK
  <1>10. \A el \in stored' \ view'[w] : \E d \in Coming(w)' : d.element = el /\ d.type = TypeOf(el)
    BY <1>1, <1>5, <1>6, <1>7
  <1>11. ASSUME NEW j \in Ingest, NEW d \in ToSet(deltas'[j]), d.type = "edge_added"
         PROVE  Ends(d) \subseteq view'[w] \cup Nodes(Rest(w)' \cup ToSet(queue') \cup ToSet(deltas'[j]))
    <2>1. j = i /\ d \in D
      BY <1>3, <1>11
    <2>2. Nodes(Rest(w)' \cup ToSet(queue') \cup ToSet(deltas'[j])) = Nodes(Coming(w)) \cup Nodes(D)
      <3>1. Rest(w)' \cup ToSet(queue') \cup ToSet(deltas'[j]) = Coming(w) \cup D
        BY <1>1, <1>3, <1>4, <1>5, <2>1
      <3>2. QED
        BY <3>1, NodesUnion
    <2>3. QED
      BY <1>1, <1>6, <1>8, <1>11, <2>1, <2>2
  <1>12. /\ w \notin visited' => EndsFirst(batch', 1, view'[w])
         /\ bpc' = "send" /\ w = current' => EndsFirst(batch', position', view'[w])
         /\ EndsFirst(queue', 1, view'[w] \cup Nodes(Rest(w)'))
         /\ bpc' \in {"next", "send"} /\ w \notin started' \cup visited' =>
               \A d \in ToSet(batch') : d.element \in view'[w]
    BY <1>1, <1>4 DEF PageOK
  <1>13. Nodes(Rest(w))' = Nodes(Rest(w)')
    BY DEF Nodes
  <1>14. QED
    BY <1>9, <1>10, <1>11, <1>12 DEF PageOK

LEMMA MovesPage ==
    ASSUME SerialInv, NEW i \in Ingest, PutNowait(i) \/ PopOldest(i) \/ Reput(i) \/ UpdateSnapshot(i),
           NEW w \in Client, PageOK(w), dropped' = {}
    PROVE  PageOK(w)'
  <1>0. Inv /\ TypeOK /\ RoundOK /\ OrderKept /\ queue \in Seq(Deltas)
    BY DEF SerialInv, Inv, TypeOK
  <1>1. /\ ServerAlone /\ UNCHANGED <<stored, view>>
        /\ UNCHANGED <<queue, deltas, dropped>> \/ Queued(i) \/ LostOldest \/ LostOwn(i)
    BY <1>0, HandlerMoves, MovesSnapshots
  <1>2. ~LostOldest /\ ~LostOwn(i)
    BY DEF LostOldest, LostOwn
  <1>3. Rest(w)' = Rest(w) /\ UNCHANGED <<batch, bpc, visited, current, position, started>>
    BY <1>0, <1>1, ServerAloneKeeps DEF ServerAlone
  <1>4. /\ view'[w] \subseteq stored'
        /\ w \notin visited' => EndsFirst(batch', 1, view'[w])
        /\ bpc' = "send" /\ w = current' => EndsFirst(batch', position', view'[w])
        /\ bpc' \in {"next", "send"} /\ w \notin started' \cup visited' =>
              \A d \in ToSet(batch') : d.element \in view'[w]
    BY <1>1, <1>3 DEF PageOK
  <1>5. CASE UNCHANGED <<queue, deltas, dropped>>
    <2>1. Coming(w)' = Coming(w)
      BY <1>3, <1>5 DEF Coming
    <2>2. QED
      BY <1>1, <1>3, <1>4, <1>5, <2>1 DEF PageOK
  <1>6. CASE Queued(i)
    <2> DEFINE h == Head(deltas[i])
               N == view[w] \cup Nodes(Rest(w))
    <2>1. /\ h \in Deltas /\ h.ingest = i
          /\ ToSet(deltas[i]) = {h} \cup ToSet(deltas'[i])
          /\ Before({h}, ToSet(deltas'[i]))
          /\ \A j \in Ingest : j # i => deltas'[j] = deltas[j]
          /\ \A j \in Ingest : \A d \in ToSet(deltas[j]) : d.ingest = j
          /\ ToSet(deltas[i]) \subseteq Deltas
      <3>1. /\ deltas[i] \in Seq(Deltas)
            /\ \A j \in Ingest : \A d \in ToSet(deltas[j]) : d.ingest = j
        BY <1>0 DEF TypeOK, OrderKept
      <3>2. ToSet(deltas[i]) \subseteq Deltas
        BY <3>1 DEF ToSet
      <3>3. QED
        BY <1>0, <1>6, <3>1, <3>2, MoveFacts
    <2>2. queue' = Append(queue, h)
      BY <1>6 DEF Queued
    <2> HIDE DEF h
    <2>3. ToSet(queue') = ToSet(queue) \cup {h}
      BY <1>0, <2>1, <2>2, AppendAt
    <2>4. Coming(w)' = Coming(w)
      BY <1>3, <2>1, <2>3 DEF Coming
    <2>5. \A j \in Ingest : /\ ToSet(deltas'[j]) \subseteq ToSet(deltas[j])
                            /\ ToSet(queue) \cup ToSet(deltas[j]) \subseteq ToSet(queue') \cup ToSet(deltas'[j])
      BY <2>1, <2>3
    <2>6. ASSUME NEW j \in Ingest, NEW d \in ToSet(deltas'[j]), d.type = "edge_added"
          PROVE  Ends(d) \subseteq view'[w] \cup Nodes(Rest(w)' \cup ToSet(queue') \cup ToSet(deltas'[j]))
      <3>1. Ends(d) \subseteq view[w] \cup Nodes(Rest(w) \cup ToSet(queue) \cup ToSet(deltas[j]))
        BY <2>5, <2>6 DEF PageOK
      <3>2. Nodes(Rest(w) \cup ToSet(queue) \cup ToSet(deltas[j]))
               \subseteq Nodes(Rest(w)' \cup ToSet(queue') \cup ToSet(deltas'[j]))
        <4>1. Rest(w) \cup ToSet(queue) \cup ToSet(deltas[j])
                 \subseteq Rest(w)' \cup ToSet(queue') \cup ToSet(deltas'[j])
          BY <1>3, <2>5
        <4>2. QED
          BY <4>1, NodesUnion
      <3>3. QED
        BY <1>1, <3>1, <3>2
    <2>7. EndsFirst(queue', 1, view'[w] \cup Nodes(Rest(w)'))
      <3>1. ASSUME h.type = "edge_added" PROVE Nodes(ToSet(deltas[i])) = {}
        <4>1. Rank(h) = 4
          BY <3>1 DEF Rank
        <4>2. ASSUME NEW d \in ToSet(deltas[i]), d.type = "node_added" PROVE FALSE
          <5>1. d # h
            BY <3>1, <4>2
          <5>2. Precedes(h, d) /\ d.ingest = h.ingest
            BY <2>1, <4>2, <5>1 DEF Before
          <5>3. Rank(d) \in {1, 2}
            BY <4>2 DEF Rank
          <5>4. QED
            BY <4>1, <5>2, <5>3 DEF Precedes
        <4>3. QED
          BY <4>2 DEF Nodes
      <3>2. ASSUME h.type = "edge_added" PROVE Ends(h) \subseteq N \cup Nodes(ToSet(queue))
        <4>1. Ends(h) \subseteq view[w] \cup Nodes(Rest(w) \cup ToSet(queue) \cup ToSet(deltas[i]))
          BY <2>1, <3>2 DEF PageOK
        <4>2. Nodes(Rest(w) \cup ToSet(queue) \cup ToSet(deltas[i])) = Nodes(Rest(w)) \cup Nodes(ToSet(queue))
          <5>1. Nodes(Rest(w) \cup ToSet(queue) \cup ToSet(deltas[i]))
                   = Nodes(Rest(w) \cup ToSet(queue)) \cup Nodes(ToSet(deltas[i]))
            BY NodesUnion
          <5>2. Nodes(Rest(w) \cup ToSet(queue)) = Nodes(Rest(w)) \cup Nodes(ToSet(queue))
            BY NodesUnion
          <5>3. QED
            BY <3>1, <3>2, <5>1, <5>2
        <4>3. QED
          BY <4>1, <4>2
      <3>3. {queue[j] : j \in 1 .. Len(queue)} = ToSet(queue)
        BY <1>0 DEF ToSet
      <3>4. EndsFirst(queue, 1, N)
        BY DEF PageOK
      <3> HIDE DEF N
      <3>5. EndsFirst(Append(queue, h), 1, N)
        <4>1. 1 \in Nat /\ 1 > 0
          OBVIOUS
        <4>2. h.type = "edge_added" => Ends(h) \subseteq N \cup Nodes({queue[j] : j \in 1 .. Len(queue)})
          BY <3>2, <3>3
        <4>3. QED
          BY <1>0, <2>1, <3>4, <4>1, <4>2, EndsAppend
      <3>6. QED
        BY <1>1, <1>3, <2>2, <3>5 DEF N
    <2>8. \A el \in stored' \ view'[w] : \E d \in Coming(w)' : d.element = el /\ d.type = TypeOf(el)
      BY <1>1, <2>4 DEF PageOK
    <2>9. QED
      BY <1>4, <2>6, <2>7, <2>8 DEF PageOK
  <1>7. QED
    BY <1>1, <1>2, <1>5, <1>6

------------------------------------------------------------------------------
(* The pages, step by step of the server and the connections.               *)

LEMMA NewPage ==
    ASSUME SerialInv, NEW w \in Client, Connect(w), w \in settled'
    PROVE  PageOK(w)'
  <1>0. Inv /\ TypeOK /\ SnapshotsOK /\ stored \subseteq Elements
    BY DEF SerialInv, Inv, TypeOK
  <1>1. /\ conn[w] = "new" /\ w \notin settled
        /\ view' = [view EXCEPT ![w] = IF latest = None THEN {} ELSE latest]
        /\ UNCHANGED <<stored, deltas, queue, batch, bpc, visited, current, position, started>>
    BY <1>0 DEF Connect, handlers, round, SnapshotsOK
  <1>2. \A i \in Ingest : ~Busy(i)
    BY <1>1 DEF Connect
  <1>3. latest = stored \/ (latest = None /\ stored = {})
    BY <1>0, <1>2 DEF SnapshotsOK
  <1>4. view'[w] = stored
    BY <1>0, <1>1, <1>3, LiveFeedAssumption DEF TypeOK
  <1>5. \A d \in ToSet(batch) \cup ToSet(queue) \cup UNION {ToSet(deltas[i]) : i \in Ingest} :
           d.element \in stored /\ (d.type = "edge_added" => Ends(d) \subseteq stored)
    BY <1>0 DEF SnapshotsOK
  <1>6. /\ DOMAIN batch = 1 .. Len(batch) /\ DOMAIN queue = 1 .. Len(queue)
        /\ Len(batch) \in Nat /\ (bpc = "send" => position > 0 /\ position \in Nat)
    BY <1>0 DEF TypeOK, RoundOK, Inv
  <1>7. \A p \in Nat \ {0} : EndsFirst(batch, p, stored)
    <2>1. \A p \in Nat \ {0} : \A k \in p .. Len(batch) : k \in DOMAIN batch
      BY <1>6
    <2>2. \A k \in DOMAIN batch : batch[k].type = "edge_added" => Ends(batch[k]) \subseteq stored
      BY <1>5 DEF ToSet
    <2>3. QED
      BY <2>1, <2>2 DEF EndsFirst
  <1>8. EndsFirst(queue, 1, stored)
    <2>1. \A k \in DOMAIN queue : queue[k].type = "edge_added" => Ends(queue[k]) \subseteq stored
      BY <1>5 DEF ToSet
    <2>2. QED
      BY <1>6, <2>1 DEF EndsFirst
  <1>9. \A i \in Ingest : \A d \in ToSet(deltas[i]) : d.type = "edge_added" => Ends(d) \subseteq stored
    BY <1>5
  <1>10. \A d \in ToSet(batch) : d.element \in stored
    BY <1>5
  <1>11. /\ w \notin visited' => EndsFirst(batch', 1, view'[w])
         /\ bpc' = "send" /\ w = current' => EndsFirst(batch', position', view'[w])
         /\ EndsFirst(queue', 1, view'[w] \cup Nodes(Rest(w))')
    <2>1. EndsFirst(batch', 1, view'[w])
      <3>1. 1 \in Nat \ {0}
        OBVIOUS
      <3>2. EndsFirst(batch, 1, stored)
        BY <1>7, <3>1
      <3>3. QED
        BY <1>1, <1>4, <3>2
    <2>2. ASSUME bpc' = "send" PROVE EndsFirst(batch', position', view'[w])
      <3>1. position \in Nat \ {0}
        BY <1>1, <1>6, <2>2
      <3>2. EndsFirst(batch, position, stored)
        BY <1>7, <3>1
      <3>3. QED
        BY <1>1, <1>4, <3>2
    <2>3. EndsFirst(queue', 1, view'[w] \cup Nodes(Rest(w))')
      <3>1. EndsFirst(queue, 1, stored \cup (Nodes(Rest(w))'))
        BY <1>8, EndsMore
      <3>2. QED
        BY <1>1, <1>4, <3>1
    <2>4. QED
      BY <2>1, <2>2, <2>3
  <1>12. /\ view'[w] = stored' /\ deltas' = deltas
         /\ \A i \in Ingest : \A d \in ToSet(deltas'[i]) : d.type = "edge_added" => Ends(d) \subseteq view'[w]
         /\ \A d \in ToSet(batch') : d.element \in view'[w]
    BY <1>1, <1>4, <1>9, <1>10
  <1>13. QED
    BY <1>11, <1>12 DEF PageOK

\* A step that leaves the page, the store and all that comes as they are.
LEMMA SamePage ==
    ASSUME NEW w \in Client, PageOK(w), Rest(w)' = Rest(w), view'[w] = view[w],
           UNCHANGED <<stored, deltas, queue>>,
           w \notin visited' => EndsFirst(batch', 1, view[w]),
           bpc' = "send" /\ w = current' => EndsFirst(batch', position', view[w]),
           bpc' \in {"next", "send"} /\ w \notin started' \cup visited' =>
               \A d \in ToSet(batch') : d.element \in view[w]
    PROVE  PageOK(w)'
  <1>1. Coming(w)' = Coming(w)
    BY DEF Coming
  <1>2. QED
    BY <1>1 DEF PageOK

LEMMA ConnectionPage ==
    ASSUME SerialInv, NEW v \in Client, Connect(v) \/ PeerGone(v) \/ Leave(v),
           NEW w \in Client, PageOK(w), Followed(w)
    PROVE  PageOK(w)'
  <1>0. TypeOK
    BY DEF SerialInv, Inv
  <1>1. UNCHANGED <<stored, deltas, queue, bpc, batch, started, visited, current, position>>
    BY DEF Connect, PeerGone, Leave, handlers, round
  <1>2. view'[w] = view[w]
    BY <1>0 DEF Connect, PeerGone, Leave, Followed, TypeOK
  <1>3. Rest(w)' = Rest(w)
    BY <1>1 DEF Rest
  <1>4. QED
    BY <1>1, <1>2, <1>3, SamePage DEF PageOK

LEMMA DrainPage ==
    ASSUME SerialInv, DrainOne, NEW w \in Client, PageOK(w)
    PROVE  PageOK(w)'
  <1> DEFINE h == Head(queue)
  <1>0. /\ TypeOK /\ RoundOK /\ queue \in Seq(Deltas) /\ batch \in Seq(Deltas)
    BY DEF SerialInv, Inv, TypeOK
  <1>1. /\ queue # <<>> /\ queue' = Tail(queue) /\ batch' = Append(batch, h)
        /\ bpc \in {"sleep", "drain"} /\ bpc' = "drain"
        /\ UNCHANGED <<stored, view, deltas, started, visited, current, position>>
    BY DEF DrainOne, Pop, handlers
  <1>2. visited = {} /\ visited' = {}
    BY <1>0, <1>1 DEF RoundOK
  <1>3. h \in Deltas /\ ToSet(queue) = {h} \cup ToSet(queue')
    BY <1>0, <1>1, TailAt
  <1>4. EndsFirst(queue, 1, view[w] \cup Nodes(Rest(w))) /\ EndsFirst(batch, 1, view[w])
    BY <1>2 DEF PageOK
  <1>5. /\ EndsFirst(queue', 1, (view[w] \cup Nodes(Rest(w))) \cup Nodes({h}))
        /\ h.type = "edge_added" => Ends(h) \subseteq view[w] \cup Nodes(Rest(w))
    BY <1>0, <1>1, <1>4, EndsTail
  <1> HIDE DEF h
  <1>6. ToSet(batch') = ToSet(batch) \cup {h}
    BY <1>0, <1>1, <1>3, AppendAt
  <1>7. Rest(w) = ToSet(batch) /\ Rest(w)' = ToSet(batch')
    BY <1>1, <1>2 DEF Rest
  <1>8. Coming(w)' = Coming(w)
    BY <1>1, <1>3, <1>6, <1>7 DEF Coming
  <1>9. EndsFirst(batch', 1, view[w])
    <2>1. {batch[j] : j \in 1 .. Len(batch)} = Rest(w)
      BY <1>0, <1>7 DEF ToSet
    <2>2. h.type = "edge_added" => Ends(h) \subseteq view[w] \cup Nodes({batch[j] : j \in 1 .. Len(batch)})
      BY <1>5, <2>1
    <2>3. 1 \in Nat /\ 1 > 0
      OBVIOUS
    <2>4. QED
      BY <1>0, <1>1, <1>3, <1>4, <2>2, <2>3, EndsAppend
  <1>10. Nodes(Rest(w))' = Nodes(Rest(w)) \cup Nodes({h})
    <2>1. Rest(w)' = Rest(w) \cup {h}
      BY <1>6, <1>7
    <2>2. Nodes(Rest(w)') = Nodes(Rest(w)) \cup Nodes({h})
      BY <2>1, NodesUnion
    <2>3. QED
      BY <2>2 DEF Nodes
  <1>11. EndsFirst(queue', 1, view'[w] \cup Nodes(Rest(w))')
    <2>1. (view[w] \cup Nodes(Rest(w))) \cup Nodes({h}) = view'[w] \cup Nodes(Rest(w))'
      BY <1>1, <1>10
    <2>2. QED
      BY <1>5, <2>1
  <1>12. \A i \in Ingest : Rest(w)' \cup ToSet(queue') \cup ToSet(deltas'[i])
                              = Rest(w) \cup ToSet(queue) \cup ToSet(deltas[i])
    BY <1>1, <1>3, <1>6, <1>7
  <1>13. ASSUME NEW i \in Ingest, NEW d \in ToSet(deltas'[i]), d.type = "edge_added"
         PROVE  Ends(d) \subseteq view'[w] \cup Nodes(Rest(w)' \cup ToSet(queue') \cup ToSet(deltas'[i]))
    BY <1>1, <1>12, <1>13 DEF PageOK
  <1>14. QED
    BY <1>1, <1>2, <1>8, <1>9, <1>11, <1>13 DEF PageOK

LEMMA SendPage ==
    ASSUME SerialInv, Send, NEW w \in Client, PageOK(w)
    PROVE  PageOK(w)'
  <1>0. /\ TypeOK /\ RoundOK /\ SnapshotsOK
        /\ batch \in Seq(Deltas) /\ DOMAIN batch = 1 .. Len(batch)
    BY DEF SerialInv, Inv, TypeOK
  <1>1. /\ bpc = "send" /\ position <= Len(batch) /\ position' = position + 1
        /\ view' = [view EXCEPT ![current] = Shown(@, batch[position])]
        /\ current \in visited /\ position \in 1 .. Len(batch) /\ current \in Client
        /\ UNCHANGED <<stored, deltas, queue, bpc, batch, started, visited, current>>
    BY <1>0 DEF Send, SendDone, handlers, RoundOK, TypeOK
  <1>2. CASE w # current
    <2>1. view'[w] = view[w] /\ Rest(w)' = Rest(w)
      BY <1>0, <1>1, <1>2 DEF TypeOK, Rest
    <2>2. QED
      BY <1>1, <1>2, <2>1, SamePage DEF PageOK
  <1>3. CASE w = current
    <2>1. PICK d : d = batch[position] /\ d \in ToSet(batch)
      BY <1>0, <1>1 DEF ToSet
    <2>2. view'[w] = Shown(view[w], d)
      BY <1>0, <1>1, <1>3, <2>1 DEF TypeOK
    <2>3. /\ EndsFirst(batch, position + 1, view[w] \cup Nodes({d}))
          /\ d.type = "edge_added" => Ends(d) \subseteq view[w]
      <3>1. EndsFirst(batch, position, view[w])
        BY <1>1, <1>3 DEF PageOK
      <3>2. QED
        BY <1>0, <1>1, <2>1, <3>1, EndsNext
    <2>4. /\ view[w] \cup Nodes({d}) \subseteq view'[w]
          /\ view'[w] \subseteq view[w] \cup {d.element}
          /\ d.type \in {"node_added", "edge_added"} => d.element \in view'[w]
      BY <2>2, <2>3 DEF Shown, Nodes, Ends
    <2>5. Rest(w) = {d} \cup Rest(w)'
      <3>1. /\ Rest(w) = {batch[k] : k \in position .. Len(batch)}
            /\ Rest(w)' = {batch[k] : k \in position + 1 .. Len(batch)}
        BY <1>1, <1>3 DEF Rest
      <3>2. position .. Len(batch) = {position} \cup (position + 1 .. Len(batch))
        BY <1>0, <1>1
      <3>3. QED
        BY <2>1, <3>1, <3>2
    <2>6. view'[w] \subseteq stored'
      <3>1. d.element \in stored
        BY <1>0, <2>1 DEF SnapshotsOK
      <3>2. QED
        BY <1>1, <2>4, <3>1 DEF PageOK
    <2>7. ASSUME NEW el \in stored' \ view'[w]
          PROVE  \E e \in Coming(w)' : e.element = el /\ e.type = TypeOf(el)
      <3>1. el \in stored \ view[w]
        BY <1>1, <2>4, <2>7
      <3>2. PICK e \in Coming(w) : e.element = el /\ e.type = TypeOf(el)
        BY <3>1 DEF PageOK
      <3>3. e # d
        BY <2>4, <2>7, <3>2 DEF TypeOf
      <3>4. Coming(w) = Coming(w)' \cup {d}
        BY <1>1, <2>5 DEF Coming
      <3>5. QED
        BY <3>2, <3>3, <3>4
    <2>8. ASSUME NEW D
          PROVE  view[w] \cup Nodes(Rest(w) \cup D) \subseteq view'[w] \cup Nodes(Rest(w)' \cup D)
      <3>1. Nodes(Rest(w) \cup D) = Nodes({d}) \cup Nodes(Rest(w)' \cup D)
        <4>1. Rest(w) \cup D = {d} \cup (Rest(w)' \cup D)
          BY <2>5
        <4>2. QED
          BY <4>1, NodesUnion
      <3>2. QED
        BY <2>4, <3>1
    <2>9. EndsFirst(batch', position', view'[w])
      BY <1>1, <2>3, <2>4, EndsMore
    <2>10. EndsFirst(queue', 1, view'[w] \cup Nodes(Rest(w)'))
      <3>1. view[w] \cup Nodes(Rest(w)) \subseteq view'[w] \cup Nodes(Rest(w)')
        <4>1. Rest(w) \cup {} = Rest(w) /\ Rest(w)' \cup {} = Rest(w)'
          OBVIOUS
        <4>2. QED
          BY <2>8, <4>1
      <3>2. EndsFirst(queue, 1, view[w] \cup Nodes(Rest(w)))
        BY DEF PageOK
      <3>3. EndsFirst(queue, 1, view'[w] \cup Nodes(Rest(w)'))
        BY <3>1, <3>2, EndsMore
      <3>4. QED
        BY <1>1, <3>3
    <2>11. ASSUME NEW i \in Ingest, NEW e \in ToSet(deltas'[i]), e.type = "edge_added"
           PROVE  Ends(e) \subseteq view'[w] \cup Nodes(Rest(w)' \cup ToSet(queue') \cup ToSet(deltas'[i]))
      <3>1. Ends(e) \subseteq view[w] \cup Nodes(Rest(w) \cup ToSet(queue) \cup ToSet(deltas[i]))
        BY <1>1, <2>11 DEF PageOK
      <3>2. view[w] \cup Nodes(Rest(w) \cup (ToSet(queue) \cup ToSet(deltas[i])))
               \subseteq view'[w] \cup Nodes(Rest(w)' \cup (ToSet(queue) \cup ToSet(deltas[i])))
        BY <2>8
      <3>3. /\ Rest(w) \cup ToSet(queue) \cup ToSet(deltas[i])
                  = Rest(w) \cup (ToSet(queue) \cup ToSet(deltas[i]))
            /\ Rest(w)' \cup ToSet(queue') \cup ToSet(deltas'[i])
                  = Rest(w)' \cup (ToSet(queue) \cup ToSet(deltas[i]))
        BY <1>1
      <3>4. QED
        BY <3>1, <3>2, <3>3
    <2>12. Nodes(Rest(w))' = Nodes(Rest(w)')
      BY DEF Nodes
    <2>13. QED
      BY <1>1, <1>3, <2>6, <2>7, <2>9, <2>10, <2>11 DEF PageOK
  <1>4. QED
    BY <1>2, <1>3

\* The steps of a round that send nothing: a round ends with what it did not
\* send to a connection on that connection's page.
LEMMA RoundPage ==
    ASSUME SerialInv, NEW w \in Client, PageOK(w), Followed(w),
           BeginRound \/ BroadcasterDies \/ NextClient \/ SendRaises \/ ClientDone \/ EndRound
    PROVE  PageOK(w)'
  <1>0. TypeOK /\ RoundOK /\ ToSet(batch) = {batch[k] : k \in 1 .. Len(batch)}
    <2>1. DOMAIN batch = 1 .. Len(batch)
      BY DEF SerialInv, Inv, TypeOK
    <2>2. QED
      BY <2>1 DEF SerialInv, Inv, ToSet
  <1>1. /\ UNCHANGED <<stored, deltas, queue, view>> /\ conn[w] = "open" /\ w \in clients
        /\ view'[w] = view[w]
    BY <1>0 DEF BeginRound, BroadcasterDies, NextClient, SendRaises, ClientDone, EndRound,
                handlers, RoundOK, Followed
  <1>2. CASE BeginRound
    <2>1. /\ visited = {} /\ visited' = {} /\ bpc = "drain"
          /\ bpc' = "next" /\ started' = clients /\ batch' = batch
      BY <1>0, <1>1, <1>2 DEF BeginRound, RoundOK
    <2>2. Rest(w)' = Rest(w)
      BY <2>1 DEF Rest
    <2>3. QED
      BY <1>1, <2>1, <2>2, SamePage DEF PageOK
  <1>3. CASE BroadcasterDies
    <2>1. /\ bpc = "next" /\ bpc' = "dead"
          /\ UNCHANGED <<batch, started, visited, current, position>>
      BY <1>3 DEF BroadcasterDies, round
    <2>2. Rest(w)' = Rest(w)
      BY <2>1 DEF Rest
    <2>3. QED
      BY <1>1, <2>1, <2>2, SamePage DEF PageOK
  <1>4. CASE NextClient
    <2>1. PICK v \in clients \ visited : current' = v /\ visited' = visited \cup {v}
      BY <1>4 DEF NextClient
    <2>2. bpc = "next" /\ bpc' = "send" /\ position' = 1 /\ batch' = batch /\ started' = started
      BY <1>4 DEF NextClient
    <2>3. Rest(w)' = Rest(w)
      BY <1>0, <2>1, <2>2 DEF Rest
    <2>4. QED
      BY <1>1, <2>1, <2>2, <2>3, SamePage DEF PageOK
  <1>5. CASE SendRaises \/ ClientDone
    <2>1. /\ bpc = "send" /\ bpc' = "next"
          /\ UNCHANGED <<batch, started, visited, current, position>>
          /\ w # current \/ position > Len(batch)
      BY <1>1, <1>5 DEF SendRaises, ClientDone, SendDone, round
    <2>2. current \in visited /\ (position > Len(batch) => position .. Len(batch) = {})
      BY <1>0, <2>1 DEF RoundOK, TypeOK
    <2>3. Rest(w)' = Rest(w)
      <3>1. CASE w # current
        BY <2>1, <3>1 DEF Rest
      <3>2. CASE w = current
        <4>1. Rest(w) = {batch[k] : k \in position .. Len(batch)} /\ Rest(w)' = {}
          BY <2>1, <2>2, <3>2 DEF Rest
        <4>2. QED
          BY <2>1, <2>2, <3>2, <4>1
      <3>3. QED
        BY <3>1, <3>2
    <2>4. QED
      BY <1>1, <2>1, <2>3, SamePage DEF PageOK
  <1>6. CASE EndRound
    <2>1. /\ bpc = "next" /\ bpc' = "sleep" /\ clients \cap started \subseteq visited
          /\ batch' = <<>> /\ visited' = {}
      BY <1>6 DEF EndRound
    <2>2. Rest(w)' = {}
      BY <2>1, EmptyList DEF Rest
    <2>3. CASE w \in visited
      <3>1. Rest(w) = {}
        BY <2>1, <2>3 DEF Rest
      <3>2. QED
        BY <1>1, <2>1, <2>2, <3>1, SamePage, EndsOfNone
    <2>4. CASE w \notin visited
      <3>1. Rest(w) = ToSet(batch) /\ w \notin started \cup visited
        BY <1>1, <2>1, <2>4 DEF Rest
      <3>2. \A d \in Rest(w) : d.element \in view[w]
        BY <2>1, <3>1 DEF PageOK
      <3>3. Nodes(Rest(w)) \subseteq view[w]
        BY <3>2 DEF Nodes
      <3>4. ASSUME NEW D PROVE Nodes(Rest(w) \cup D) \subseteq view[w] \cup Nodes(Rest(w)' \cup D)
        <4>1. Nodes(Rest(w) \cup D) = Nodes(Rest(w)) \cup Nodes(D)
          BY NodesUnion
        <4>2. Rest(w)' \cup D = D
          BY <2>2
        <4>3. QED
          BY <3>3, <4>1, <4>2
      <3>5. \A el \in stored \ view[w] : \E d \in Coming(w)' : d.element = el /\ d.type = TypeOf(el)
        <4>1. Coming(w) = Rest(w) \cup Coming(w)'
          BY <1>1, <2>2 DEF Coming
        <4>2. QED
          BY <3>2, <4>1 DEF PageOK
      <3>6. EndsFirst(queue', 1, view'[w] \cup Nodes(Rest(w)'))
        <4>1. EndsFirst(queue, 1, view[w] \cup Nodes(Rest(w)))
          BY DEF PageOK
        <4>2. view[w] \cup Nodes(Rest(w)) \subseteq view[w] \cup Nodes(Rest(w)')
          BY <3>3
        <4>3. EndsFirst(queue, 1, view[w] \cup Nodes(Rest(w)'))
          BY <4>1, <4>2, EndsMore
        <4>4. QED
          BY <1>1, <4>3
      <3>7. ASSUME NEW i \in Ingest, NEW d \in ToSet(deltas'[i]), d.type = "edge_added"
            PROVE  Ends(d) \subseteq view'[w] \cup Nodes(Rest(w)' \cup ToSet(queue') \cup ToSet(deltas'[i]))
        <4>1. Ends(d) \subseteq view[w] \cup Nodes(Rest(w) \cup ToSet(queue) \cup ToSet(deltas[i]))
          BY <1>1, <3>7 DEF PageOK
        <4>2. Nodes(Rest(w) \cup (ToSet(queue) \cup ToSet(deltas[i])))
                 \subseteq view[w] \cup Nodes(Rest(w)' \cup (ToSet(queue) \cup ToSet(deltas[i])))
          BY <3>4
        <4>3. /\ Rest(w) \cup ToSet(queue) \cup ToSet(deltas[i])
                    = Rest(w) \cup (ToSet(queue) \cup ToSet(deltas[i]))
              /\ Rest(w)' \cup ToSet(queue') \cup ToSet(deltas'[i])
                    = Rest(w)' \cup (ToSet(queue) \cup ToSet(deltas[i]))
          BY <1>1
        <4>4. QED
          BY <1>1, <4>1, <4>2, <4>3
      <3>8. EndsFirst(batch', 1, view'[w]) /\ view'[w] \subseteq stored' /\ stored' = stored
        BY <1>1, <2>1, EndsOfNone DEF PageOK
      <3>9. Nodes(Rest(w))' = Nodes(Rest(w)')
        BY DEF Nodes
      <3>10. QED
        BY <1>1, <2>1, <3>5, <3>6, <3>7, <3>8 DEF PageOK
    <2>5. QED
      BY <2>3, <2>4
  <1>7. QED
    BY <1>2, <1>3, <1>4, <1>5, <1>6

------------------------------------------------------------------------------
(* The theorem.                                                             *)

LEMMA SerialInit == Init => SerialInv
  <1> SUFFICES ASSUME Init PROVE SerialInv
    OBVIOUS
  <1>1. Inv
    BY InvInit
  <1>2. /\ ToSet(batch) = {} /\ ToSet(queue) = {} /\ settled = {} /\ stored = {} /\ latest = None
        /\ \A i \in Ingest : deltas[i] = <<>> /\ ToSet(deltas[i]) = {} /\ ~Busy(i)
    BY EmptyList DEF Init, Busy
  <1>3. SnapshotsOK
    BY <1>2 DEF SnapshotsOK
  <1>4. \A w \in Client : ~Followed(w)
    BY <1>2 DEF Followed
  <1>5. QED
    BY <1>1, <1>3, <1>4 DEF SerialInv

LEMMA SerialStep ==
    ASSUME SingleThread
    PROVE  SerialInv /\ [Next]_vars => SerialInv'
  <1> SUFFICES ASSUME SerialInv, [Next]_vars PROVE SerialInv'
    OBVIOUS
  <1>1. Inv'
    BY InvStep DEF SerialInv
  <1>2. \/ \E i \in Ingest : Commit(i)
        \/ \E i \in Ingest : PutNowait(i) \/ PopOldest(i) \/ Reput(i) \/ UpdateSnapshot(i)
        \/ \E v \in Client : Connect(v) \/ PeerGone(v) \/ Leave(v)
        \/ Broadcast
        \/ UNCHANGED vars
    BY DEF Next, Handle, Idle
  <1>3. SnapshotsOK'
    <2>1. ASSUME NEW i \in Ingest, Commit(i) PROVE SnapshotsOK'
      BY <2>1, CommitSnapshots
    <2>2. ASSUME NEW i \in Ingest, PutNowait(i) \/ PopOldest(i) \/ Reput(i) \/ UpdateSnapshot(i)
          PROVE  SnapshotsOK'
      BY <2>2, MovesSnapshots
    <2>3. QED
      BY <1>2, <2>1, <2>2, ServerSnapshots
  <1>4. ASSUME NEW w \in Client, Followed(w)' PROVE PageOK(w)'
    <2>1. ASSUME NEW i \in Ingest, Commit(i) PROVE PageOK(w)'
      <3>1. Followed(w)
        BY <1>4, <2>1 DEF Commit, Followed, history
      <3>2. PageOK(w)
        BY <3>1 DEF SerialInv
      <3>3. QED
        BY <2>1, <3>2, CommitPage
    <2>2. ASSUME NEW i \in Ingest, PutNowait(i) \/ PopOldest(i) \/ Reput(i) \/ UpdateSnapshot(i)
          PROVE  PageOK(w)'
      <3>1. dropped' = {}
        BY <1>4 DEF Followed
      <3>2. dropped = {} /\ UNCHANGED <<settled, conn>>
        BY <2>2, <3>1 DEF PutNowait, PopOldest, Reput, UpdateSnapshot, history
      <3>3. Followed(w)
        BY <1>4, <3>2 DEF Followed
      <3>4. PageOK(w)
        BY <3>3 DEF SerialInv
      <3>5. QED
        BY <2>2, <3>1, <3>4, MovesPage
    <2>3. ASSUME NEW v \in Client, Connect(v) \/ PeerGone(v) \/ Leave(v) PROVE PageOK(w)'
      <3>1. CASE v = w /\ Connect(v)
        BY <1>4, <3>1, NewPage DEF Followed
      <3>2. CASE ~(v = w /\ Connect(v))
        <4>1. Followed(w)
          BY <1>4, <2>3, <3>2 DEF Connect, PeerGone, Leave, Followed, history, SerialInv, Inv, TypeOK
        <4>2. PageOK(w)
          BY <4>1 DEF SerialInv
        <4>3. QED
          BY <2>3, <4>1, <4>2, ConnectionPage
      <3>3. QED
        BY <3>1, <3>2
    <2>4. ASSUME Broadcast PROVE PageOK(w)'
      <3>1. Followed(w)
        BY <1>4, <2>4 DEF Broadcast, DrainOne, BeginRound, BroadcasterDies, NextClient, Send,
                          SendRaises, ClientDone, EndRound, Followed, history
      <3>2. PageOK(w)
        BY <3>1 DEF SerialInv
      <3>3. CASE DrainOne
        BY <3>2, <3>3, DrainPage
      <3>4. CASE Send
        BY <3>2, <3>4, SendPage
      <3>5. CASE BeginRound \/ BroadcasterDies \/ NextClient \/ SendRaises \/ ClientDone \/ EndRound
        BY <3>1, <3>2, <3>5, RoundPage
      <3>6. QED
        BY <2>4, <3>3, <3>4, <3>5 DEF Broadcast
    <2>5. ASSUME UNCHANGED vars PROVE PageOK(w)'
      <3>1. /\ UNCHANGED <<stored, deltas, queue, view, bpc, batch, started, visited, current, position>>
            /\ Followed(w)
        BY <1>4, <2>5 DEF vars, handlers, round, history, Followed
      <3>2. PageOK(w) /\ Rest(w)' = Rest(w)
        BY <3>1 DEF SerialInv, Rest
      <3>3. QED
        BY <3>1, <3>2, SamePage DEF PageOK
    <2>6. QED
      BY <1>2, <2>1, <2>2, <2>3, <2>4, <2>5
  <1>5. QED
    BY <1>1, <1>3, <1>4 DEF SerialInv

\* The invariant of a feed of one tool thread.
THEOREM SerialInvHolds ==
    ASSUME SingleThread
    PROVE  Spec => []SerialInv
  <1>1. SerialInv /\ [Next]_vars => SerialInv'
    BY SerialStep
  <1>2. QED
    BY <1>1, SerialInit, PTL DEF Spec

\* With one tool thread, the page of a client that connected between two
\* ingests and lost nothing to a full queue shows the stored graph whenever
\* nothing is under way.
THEOREM PagesAreCurrent ==
    ASSUME SingleThread
    PROVE  Spec => []QuietPageIsCurrent
  <1>1. SerialInv => QuietPageIsCurrent
    <2> SUFFICES ASSUME SerialInv, Quiet, NEW w \in Client, Followed(w) PROVE view[w] = stored
      BY DEF QuietPageIsCurrent
    <2>1. PageOK(w) /\ SnapshotsOK /\ RoundOK
      BY DEF SerialInv, Inv
    <2>2. batch = <<>> /\ visited = {} /\ queue = <<>> /\ bpc = "sleep"
      BY <2>1 DEF Quiet, RoundOK
    <2>3. Rest(w) = {} /\ ToSet(queue) = {}
      BY <2>2, EmptyList DEF Rest
    <2>4. \A i \in Ingest : ToSet(deltas[i]) = {}
      BY <2>1, EmptyList DEF Quiet, SnapshotsOK
    <2>5. Coming(w) = {}
      BY <2>3, <2>4 DEF Coming
    <2>6. QED
      BY <2>1, <2>5 DEF PageOK
  <1>2. QED
    BY <1>1, SerialInvHolds, PTL

===============================================================================
