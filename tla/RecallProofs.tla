------------------------------ MODULE RecallProofs ------------------------------
(****************************************************************************)
(* Proofs that the graph, the log and the raw returns are at any time what  *)
(* the history of results makes of them, and that what the read tools and   *)
(* the overviews say of the session is what that history says.              *)
(****************************************************************************)
EXTENDS Report, ListLemmas, WellFoundedInduction

\* Induction over the natural numbers, for a property given as a set.
LEMMA Induct ==
    ASSUME NEW P, 0 \in P, \A n \in Nat : n \in P => n + 1 \in P
    PROVE  \A n \in Nat : n \in P
  <1> DEFINE Out == Nat \ P
             R == OpToRel(<, Nat)
  <1> SUFFICES ASSUME Out # {} PROVE FALSE
    OBVIOUS
  <1>1. IsWellFoundedOn(R, Nat)
    BY NatLessThanWellFounded
  <1>2. \A m, n \in Nat : m < n => <<m, n>> \in R
    BY DEF OpToRel
  <1> HIDE DEF R
  <1>3. PICK n \in Out : \A m \in Out : ~ (<<m, n>> \in R)
    BY <1>1, WFMin
  <1>4. n \in Nat /\ n # 0 /\ ~ (n \in P)
    OBVIOUS
  <1>5. n - 1 \in Nat /\ n - 1 < n /\ (n - 1) + 1 = n
    BY <1>4
  <1>6. <<n - 1, n>> \in R
    BY <1>2, <1>4, <1>5
  <1>7. ~ (n - 1 \in Out)
    BY <1>3, <1>6
  <1>8. n - 1 \in P
    BY <1>5, <1>7
  <1>9. QED
    BY <1>4, <1>5, <1>8

------------------------------------------------------------------------------
(* The two walks are defined by recursion over positions: a function that   *)
(* satisfies the recursion exists, by induction on how far it goes.         *)

EmitsFrom(s, ev) == [s EXCEPT !.graph = AddEvent(@, ev), !.linked = {}]

\* w is the walk of Emits over the first n occurrences of an item.
IsWalk(w, n, s, ev, item) ==
    w = [k \in 0 .. n |-> IF k = 0 THEN EmitsFrom(s, ev) ELSE EmitOne(w[k - 1], ev, item[k])]

LEMMA WalkExists ==
    ASSUME NEW s, NEW ev, NEW item
    PROVE  \A n \in Nat : \E w : IsWalk(w, n, s, ev, item)
  <1> DEFINE P == {n \in Nat : \E w : IsWalk(w, n, s, ev, item)}
  <1>1. 0 \in P
    <2> DEFINE w == [k \in 0 .. 0 |-> EmitsFrom(s, ev)]
    <2>1. IsWalk(w, 0, s, ev, item)
      <3>1. 0 .. 0 = {0}
        OBVIOUS
      <3>2. \A k \in 0 .. 0 : k = 0
        BY <3>1
      <3> HIDE DEF w
      <3>3. QED
        BY <3>2 DEF IsWalk, w
    <2>2. QED
      BY <2>1
  <1>2. ASSUME NEW n \in Nat, n \in P PROVE n + 1 \in P
    <2>1. PICK w : IsWalk(w, n, s, ev, item)
      BY <1>2
    <2> DEFINE x == [k \in 0 .. (n + 1) |-> IF k <= n THEN w[k] ELSE EmitOne(w[n], ev, item[n + 1])]
               y == [k \in 0 .. (n + 1) |-> IF k = 0 THEN EmitsFrom(s, ev)
                                            ELSE EmitOne(x[k - 1], ev, item[k])]
    <2>2. ASSUME NEW k \in 0 .. (n + 1) PROVE x[k] = y[k]
      <3>1. CASE k = 0
        <4>1. k \in 0 .. n /\ k <= n
          BY <3>1
        <4>2. w[k] = EmitsFrom(s, ev)
          BY <2>1, <3>1, <4>1 DEF IsWalk
        <4>3. QED
          BY <3>1, <4>1, <4>2
      <3>2. CASE k # 0 /\ k <= n
        <4>1. k \in 0 .. n /\ k - 1 \in 0 .. (n + 1) /\ k - 1 <= n
          BY <3>2
        <4>2. w[k] = EmitOne(w[k - 1], ev, item[k])
          BY <2>1, <3>2, <4>1 DEF IsWalk
        <4>3. x[k] = w[k] /\ x[k - 1] = w[k - 1]
          BY <3>2, <4>1
        <4>4. QED
          BY <3>2, <4>2, <4>3
      <3>3. CASE ~ (k <= n)
        <4>1. k = n + 1 /\ k - 1 = n /\ n \in 0 .. (n + 1) /\ n <= n /\ k # 0
          BY <3>3
        <4>2. x[n] = w[n] /\ x[k] = EmitOne(w[n], ev, item[n + 1])
          BY <3>3, <4>1
        <4>3. QED
          BY <4>1, <4>2
      <3>4. QED
        BY <3>1, <3>2, <3>3
    <2>3. x = y
      BY <2>2
    <2>4. IsWalk(x, n + 1, s, ev, item)
      <3> HIDE DEF x
      <3>1. QED
        BY <2>3 DEF IsWalk
    <2>5. QED
      BY <2>4
  <1>3. \A n \in Nat : n \in P
    <2> HIDE DEF P
    <2>1. QED
      BY <1>1, <1>2, Induct
  <1>4. QED
    BY <1>3

\* Where a walk begins, and what each step of it does.
LEMMA EmitsAre ==
    ASSUME NEW s, NEW ev, NEW item, Len(item) \in Nat
    PROVE  /\ Emits(s, ev, item)[0] = EmitsFrom(s, ev)
           /\ \A k \in 0 .. Len(item) : k # 0 =>
                 Emits(s, ev, item)[k] = EmitOne(Emits(s, ev, item)[k - 1], ev, item[k])
  <1> DEFINE w == Emits(s, ev, item)
  <1>1. \E x : IsWalk(x, Len(item), s, ev, item)
    BY WalkExists
  <1>2. w = CHOOSE x : IsWalk(x, Len(item), s, ev, item)
    BY DEF Emits, IsWalk, EmitsFrom
  <1>3. IsWalk(w, Len(item), s, ev, item)
    BY <1>1, <1>2
  <1> HIDE DEF w
  <1>4. 0 \in 0 .. Len(item)
    OBVIOUS
  <1>5. QED
    BY <1>3, <1>4 DEF IsWalk, w

\* The same of the items of a call.
IsBuild(w, n, g, c, items) ==
    w = [k \in 0 .. n |-> IF k = 0 THEN Progress(g) ELSE ExtractItem(w[k - 1], <<c, k>>, items[k])]

LEMMA BuildExists ==
    ASSUME NEW g, NEW c, NEW items
    PROVE  \A n \in Nat : \E w : IsBuild(w, n, g, c, items)
  <1> DEFINE P == {n \in Nat : \E w : IsBuild(w, n, g, c, items)}
  <1>1. 0 \in P
    <2> DEFINE w == [k \in 0 .. 0 |-> Progress(g)]
    <2>1. IsBuild(w, 0, g, c, items)
      <3>1. 0 .. 0 = {0}
        OBVIOUS
      <3>2. \A k \in 0 .. 0 : k = 0
        BY <3>1
      <3> HIDE DEF w
      <3>3. QED
        BY <3>2 DEF IsBuild, w
    <2>2. QED
      BY <2>1
  <1>2. ASSUME NEW n \in Nat, n \in P PROVE n + 1 \in P
    <2>1. PICK w : IsBuild(w, n, g, c, items)
      BY <1>2
    <2> DEFINE x == [k \in 0 .. (n + 1) |-> IF k <= n THEN w[k] ELSE ExtractItem(w[n], <<c, n + 1>>, items[n + 1])]
               y == [k \in 0 .. (n + 1) |-> IF k = 0 THEN Progress(g)
                                            ELSE ExtractItem(x[k - 1], <<c, k>>, items[k])]
    <2>2. ASSUME NEW k \in 0 .. (n + 1) PROVE x[k] = y[k]
      <3>1. CASE k = 0
        <4>1. k \in 0 .. n /\ k <= n
          BY <3>1
        <4>2. w[k] = Progress(g)
          BY <2>1, <3>1, <4>1 DEF IsBuild
        <4>3. QED
          BY <3>1, <4>1, <4>2
      <3>2. CASE k # 0 /\ k <= n
        <4>1. k \in 0 .. n /\ k - 1 \in 0 .. (n + 1) /\ k - 1 <= n
          BY <3>2
        <4>2. w[k] = ExtractItem(w[k - 1], <<c, k>>, items[k])
          BY <2>1, <3>2, <4>1 DEF IsBuild
        <4>3. x[k] = w[k] /\ x[k - 1] = w[k - 1]
          BY <3>2, <4>1
        <4>4. QED
          BY <3>2, <4>2, <4>3
      <3>3. CASE ~ (k <= n)
        <4>1. k = n + 1 /\ k - 1 = n /\ n \in 0 .. (n + 1) /\ n <= n /\ k # 0
          BY <3>3
        <4>2. x[n] = w[n] /\ x[k] = ExtractItem(w[n], <<c, n + 1>>, items[n + 1])
          BY <3>3, <4>1
        <4>3. QED
          BY <4>1, <4>2
      <3>4. QED
        BY <3>1, <3>2, <3>3
    <2>3. x = y
      BY <2>2
    <2>4. IsBuild(x, n + 1, g, c, items)
      <3> HIDE DEF x
      <3>1. QED
        BY <2>3 DEF IsBuild
    <2>5. QED
      BY <2>4
  <1>3. \A n \in Nat : n \in P
    <2> HIDE DEF P
    <2>1. QED
      BY <1>1, <1>2, Induct
  <1>4. QED
    BY <1>3

LEMMA BuildsAre ==
    ASSUME NEW g, NEW c, NEW items, Len(items) \in Nat
    PROVE  /\ Builds(g, c, items)[0] = Progress(g)
           /\ \A k \in 0 .. Len(items) : k # 0 =>
                 Builds(g, c, items)[k] = ExtractItem(Builds(g, c, items)[k - 1], <<c, k>>, items[k])
  <1> DEFINE w == Builds(g, c, items)
  <1>1. \E x : IsBuild(x, Len(items), g, c, items)
    BY BuildExists
  <1>2. w = CHOOSE x : IsBuild(x, Len(items), g, c, items)
    BY DEF Builds, IsBuild
  <1>3. IsBuild(w, Len(items), g, c, items)
    BY <1>1, <1>2
  <1> HIDE DEF w
  <1>4. 0 \in 0 .. Len(items)
    OBVIOUS
  <1>5. QED
    BY <1>3, <1>4 DEF IsBuild, w

------------------------------------------------------------------------------
(* What a step of the walk does to the graph and to the counts.  The done   *)
(* occurrences of a call are a set of positions <<item, place in it>>.      *)

Named(items, D) == {f \in Fact : \E p \in D : FactAt(items, p) = f}

EdgeAt(c, items, p) == EdgeTo(<<c, p[1]>>, At(items, p))

EdgesAt(c, items, D) ==
    {EdgeAt(c, items, p) : p \in {q \in D : FactAt(items, q) \in Fact}}

\* At position p the fact is named first.
FirstAt(items, D, f, p) ==
    FactAt(items, p) = f /\ \A q \in D : FactAt(items, q) = f => q = p \/ Before(p, q)

\* g is graph b with what occurrences D of call c say, and the first i events.
GraphSo(b, g, c, items, D, i) ==
    /\ g \in Graph
    /\ g.events = b.events \cup {<<c, a>> : a \in 1 .. i}
    /\ g.edges = b.edges \cup EdgesAt(c, items, D)
    /\ \A f \in Fact : Knows(b, f) => g.facts[f] = b.facts[f]
    /\ \A f \in Fact : ~Knows(b, f) /\ f \notin Named(items, D) => ~Knows(g, f)
    /\ \A f \in Named(items, D) : Knows(g, f)
    /\ \A f \in Named(items, D) : ~Knows(b, f) =>
          \E p \in D : FirstAt(items, D, f, p) /\ At(items, p).value = g.facts[f]

\* The facts among them that graph b did not have.
Fresh(b, items, D) == {f \in Named(items, D) : ~Knows(b, f)}

\* The others, and the positions that name a fact.
Old(b, items, D) == {f \in Named(items, D) : Knows(b, f)}

NamingAt(items, D) == {p \in D : FactAt(items, p) \in Fact}

\* No fact is named twice, but one of graph b by the same item.
OnceIn(b, items, D) ==
    \A p, q \in NamingAt(items, D) :
        FactAt(items, p) = FactAt(items, q) =>
            p = q \/ (p[1] = q[1] /\ Knows(b, FactAt(items, p)))

\* The counts of progress s in item i, which has linked n times in earlier items.
CountsSo(s, n, b, items, D, i) ==
    /\ IsFiniteSet(Named(items, D)) /\ IsFiniteSet(NamingAt(items, D))
    /\ s.linked \in SUBSET Named(items, D)
    /\ s.new = Cardinality(Fresh(b, items, D))
    /\ s.edges = Cardinality(NamingAt(items, D))
    /\ s.new + n + Cardinality(s.linked) <= s.edges
    /\ Cardinality(Old(b, items, D)) <= n + Cardinality(s.linked)
    /\ OnceIn(b, items, D) => n + Cardinality(s.linked) = Cardinality(Old(b, items, D))
    /\ \A q \in NamingAt(items, D) :
          q[1] = i /\ Knows(b, FactAt(items, q)) => FactAt(items, q) \in s.linked

IsProgress(s) == s = [graph |-> s.graph, new |-> s.new, linked |-> s.linked, edges |-> s.edges]

\* An occurrence the walk may meet in a result.
Proper(o) == o \in Occurrence /\ Canonical[o.value] \in Fact \cup {Dropped}

LEMMA ValueNotMissing == \A v \in Value : v # Missing
  BY FactGraphAssumption

LEMMA UpsertAt ==
    ASSUME NEW g \in Graph, NEW v \in Value, NEW ev \in EventId, Canonical[v] \in Fact
    PROVE  LET h == UpsertFact(g, v, ev) IN
           /\ h \in Graph /\ h.events = g.events /\ h.edges = g.edges
           /\ \A f \in Fact : h.facts[f] = IF f = Canonical[v] /\ ~Knows(g, f) THEN v ELSE g.facts[f]
  <1> DEFINE f == Canonical[v]
             h == UpsertFact(g, v, ev)
  <1>1. CASE ~Knows(g, f)
    <2>1. h = [g EXCEPT !.facts[f] = v]
      BY <1>1 DEF UpsertFact
    <2>2. h \in Graph /\ h.events = g.events /\ h.edges = g.edges /\ h.facts = [g.facts EXCEPT ![f] = v]
      BY <2>1 DEF Graph
    <2>3. g.facts \in [Fact -> Value \cup {Missing}]
      BY DEF Graph
    <2>4. \A x \in Fact : h.facts[x] = IF x = f THEN v ELSE g.facts[x]
      BY <2>2, <2>3
    <2>5. QED
      BY <1>1, <2>2, <2>4
  <1>2. CASE Knows(g, f)
    <2>1. h = g \/ h = [g EXCEPT !.repeats = @ \cup {<<f, ev>>}]
      BY <1>2 DEF UpsertFact
    <2>2. h \in Graph /\ h.events = g.events /\ h.edges = g.edges /\ h.facts = g.facts
      BY <2>1 DEF Graph
    <2>3. QED
      BY <1>2, <2>2
  <1>3. QED
    BY <1>1, <1>2

LEMMA EdgeAdded ==
    ASSUME NEW g \in Graph, NEW e \in Edge
    PROVE  LET h == AddEdge(g, e) IN
           h \in Graph /\ h.events = g.events /\ h.edges = g.edges \cup {e} /\ h.facts = g.facts
  BY DEF AddEdge, Graph

LEMMA EventAdded ==
    ASSUME NEW g \in Graph, NEW ev \in EventId
    PROVE  LET h == AddEvent(g, ev) IN
           h \in Graph /\ h.events = g.events \cup {ev} /\ h.edges = g.edges /\ h.facts = g.facts
  BY DEF AddEvent, Graph

\* What one more occurrence adds to the facts and to the edges.
LEMMA OneMoreFact ==
    ASSUME NEW items, NEW D, NEW p
    PROVE  \A f : f \in Named(items, D \cup {p}) <=>
               f \in Named(items, D) \/ (FactAt(items, p) \in Fact /\ f = FactAt(items, p))
  BY DEF Named

LEMMA OneMoreEdge ==
    ASSUME NEW c, NEW items, NEW D, NEW p
    PROVE  \A e : e \in EdgesAt(c, items, D \cup {p}) <=>
               e \in EdgesAt(c, items, D) \/ (FactAt(items, p) \in Fact /\ e = EdgeAt(c, items, p))
  BY DEF EdgesAt

LEMMA OneMoreNaming ==
    ASSUME NEW items, NEW D, NEW p
    PROVE  \A q : q \in NamingAt(items, D \cup {p}) <=>
               q \in NamingAt(items, D) \/ (FactAt(items, p) \in Fact /\ q = p)
  BY DEF NamingAt

LEMMA EmitDropped ==
    ASSUME NEW s, NEW ev, NEW o, Canonical[o.value] = Dropped
    PROVE  EmitOne(s, ev, o) = s
  BY DEF EmitOne

\* The fields of what _emit_one leaves of an occurrence that names a fact.
Emitted(s, t, ev, o) ==
    LET f == Canonical[o.value] IN
    /\ t.graph \in Graph
    /\ t.graph.events = s.graph.events
    /\ \A e : e \in t.graph.edges <=> e \in s.graph.edges \/ e = EdgeTo(ev, o)
    /\ \A x \in Fact : t.graph.facts[x] =
          IF x = f /\ ~Knows(s.graph, x) THEN o.value ELSE s.graph.facts[x]
    /\ t.new = IF Knows(s.graph, f) THEN s.new ELSE s.new + 1
    /\ t.linked = IF Knows(s.graph, f) THEN s.linked \cup {f} ELSE s.linked
    /\ t.edges = s.edges + 1
    /\ IsProgress(t)

LEMMA EmitAt ==
    ASSUME NEW s, s.graph \in Graph, NEW ev \in EventId, NEW o \in Occurrence,
           Canonical[o.value] \in Fact
    PROVE  Emitted(s, EmitOne(s, ev, o), ev, o)
  <1> DEFINE f == Canonical[o.value]
             t == EmitOne(s, ev, o)
             u == UpsertFact(s.graph, o.value, ev)
  <1>1. f # Dropped
    BY FactGraphAssumption
  <1>2. /\ t.graph = AddEdge(u, EdgeTo(ev, o))
        /\ t.new = IF Knows(s.graph, f) THEN s.new ELSE s.new + 1
        /\ t.linked = IF Knows(s.graph, f) THEN s.linked \cup {f} ELSE s.linked
        /\ t.edges = s.edges + 1
        /\ IsProgress(t)
    BY <1>1 DEF EmitOne, Linked, IsProgress
  <1>3. o.value \in Value /\ EdgeTo(ev, o) \in Edge
    BY DEF Occurrence, EdgeTo, Edge
  <1>4. /\ u \in Graph /\ u.events = s.graph.events /\ u.edges = s.graph.edges
        /\ \A x \in Fact : u.facts[x] =
              IF x = f /\ ~Knows(s.graph, f) THEN o.value ELSE s.graph.facts[x]
    BY <1>3, UpsertAt
  <1>5. LET h == AddEdge(u, EdgeTo(ev, o)) IN
        /\ h \in Graph /\ h.events = u.events
        /\ h.edges = u.edges \cup {EdgeTo(ev, o)} /\ h.facts = u.facts
    BY <1>3, <1>4, EdgeAdded
  <1> HIDE DEF u, t
  <1>6. t.graph \in Graph /\ t.graph.events = s.graph.events
    BY <1>2, <1>4, <1>5
  <1>7. \A e : e \in t.graph.edges <=> e \in s.graph.edges \/ e = EdgeTo(ev, o)
    BY <1>2, <1>4, <1>5
  <1>8. \A x \in Fact : t.graph.facts[x] =
            IF x = f /\ ~Knows(s.graph, x) THEN o.value ELSE s.graph.facts[x]
    BY <1>2, <1>4, <1>5
  <1>9. QED
    BY <1>2, <1>6, <1>7, <1>8 DEF t, Emitted

\* Before is a strict total order on pairs of numbers.
LEMMA BeforeOrders ==
    /\ \A a \in Nat \X Nat : ~Before(a, a)
    /\ \A a, b \in Nat \X Nat : a = b \/ Before(a, b) \/ Before(b, a)
    /\ \A a, b \in Nat \X Nat : Before(a, b) => ~Before(b, a)
    /\ \A a, b, d \in Nat \X Nat : Before(a, b) /\ Before(b, d) => Before(a, d)
  BY DEF Before

\* The step on the graph.
LEMMA GraphGoesOn ==
    ASSUME NEW b \in Graph, NEW s, NEW c \in Call, NEW items, NEW i \in Nat,
           NEW D \in SUBSET (Nat \X Nat), NEW p \in Nat \X Nat, p[1] # 0,
           \A q \in D : Before(q, p),
           Proper(At(items, p)),
           GraphSo(b, s.graph, c, items, D, i)
    PROVE  GraphSo(b, EmitOne(s, <<c, p[1]>>, At(items, p)).graph, c, items, D \cup {p}, i)
  <1> DEFINE o == At(items, p)
             ev == <<c, p[1]>>
             f == Canonical[o.value]
             t == EmitOne(s, ev, o)
             E == D \cup {p}
  <1>1. f = FactAt(items, p) /\ o \in Occurrence /\ o.value \in Value
    BY DEF FactAt, Proper, Occurrence
  <1>2. ~ (p \in D)
    BY BeforeOrders
  <1>3. CASE f = Dropped
    <2>1. t = s /\ f \notin Fact
      BY <1>3, EmitDropped, FactGraphAssumption
    <2>2. Named(items, E) = Named(items, D) /\ EdgesAt(c, items, E) = EdgesAt(c, items, D)
      <3>1. FactAt(items, p) \notin Fact
        BY <1>1, <2>1
      <3>2. \A x : x \in Named(items, E) <=> x \in Named(items, D)
        BY <3>1, OneMoreFact
      <3>3. \A x : x \in EdgesAt(c, items, E) <=> x \in EdgesAt(c, items, D)
        BY <3>1, OneMoreEdge
      <3> HIDE DEF E
      <3>4. QED
        BY <3>2, <3>3
    <2>3. \A x \in Fact, q \in D : FirstAt(items, D, x, q) => FirstAt(items, E, x, q)
      BY <1>1, <2>1 DEF FirstAt
    <2> HIDE DEF t, E
    <2>4. \A x \in Named(items, E) : ~Knows(b, x) =>
             \E q \in E : FirstAt(items, E, x, q) /\ At(items, q).value = t.graph.facts[x]
      <3> SUFFICES ASSUME NEW x \in Named(items, E), ~Knows(b, x)
                   PROVE  \E q \in E : FirstAt(items, E, x, q) /\ At(items, q).value = t.graph.facts[x]
        OBVIOUS
      <3>1. PICK q \in D : FirstAt(items, D, x, q) /\ At(items, q).value = s.graph.facts[x]
        BY <2>2 DEF GraphSo
      <3>2. q \in E /\ x \in Fact
        BY DEF E, Named
      <3>3. QED
        BY <2>1, <2>3, <3>1, <3>2
    <2>5. GraphSo(b, t.graph, c, items, E, i)
      BY <2>1, <2>2, <2>4 DEF GraphSo
    <2>6. QED
      BY <2>5 DEF t, E
  <1>4. CASE f \in Fact
    <2>1. s.graph \in Graph /\ ev \in EventId
      BY DEF GraphSo, EventId
    <2>2. /\ t.graph \in Graph
          /\ t.graph.events = s.graph.events
          /\ \A e : e \in t.graph.edges <=> e \in s.graph.edges \/ e = EdgeTo(ev, o)
          /\ \A x \in Fact : t.graph.facts[x] =
                IF x = f /\ ~Knows(s.graph, x) THEN o.value ELSE s.graph.facts[x]
      <3> HIDE DEF ev, o
      <3>1. Emitted(s, t, ev, o)
        BY <1>1, <1>4, <2>1, EmitAt
      <3> HIDE DEF t
      <3>2. QED
        BY <3>1 DEF Emitted
    <2>3. /\ Named(items, E) = Named(items, D) \cup {f}
          /\ EdgesAt(c, items, E) = EdgesAt(c, items, D) \cup {EdgeTo(ev, o)}
      <3>1. FactAt(items, p) \in Fact /\ EdgeAt(c, items, p) = EdgeTo(ev, o)
        BY <1>1, <1>4 DEF EdgeAt
      <3>2. \A x : x \in Named(items, E) <=> x \in Named(items, D) \/ x = FactAt(items, p)
        BY <3>1, OneMoreFact
      <3>3. \A x : x \in EdgesAt(c, items, E) <=>
                x \in EdgesAt(c, items, D) \/ x = EdgeAt(c, items, p)
        BY <3>1, OneMoreEdge
      <3> HIDE DEF E
      <3>4. QED
        BY <1>1, <3>1, <3>2, <3>3
    <2> HIDE DEF t, E
    <2>4. \A x \in Fact : Knows(b, x) => t.graph.facts[x] = b.facts[x] /\ Knows(s.graph, x)
      BY <2>2 DEF GraphSo, Knows
    <2>5. \A x \in Fact : ~Knows(b, x) /\ x \notin Named(items, E) => ~Knows(t.graph, x)
      BY <2>2, <2>3 DEF GraphSo, Knows
    <2>6. ASSUME NEW x \in Named(items, E), ~Knows(b, x)
          PROVE  \E q \in E : FirstAt(items, E, x, q) /\ At(items, q).value = t.graph.facts[x]
      <3>1. CASE x \in Named(items, D)
        <4>1. PICK q \in D : FirstAt(items, D, x, q) /\ At(items, q).value = s.graph.facts[x]
          BY <2>6, <3>1 DEF GraphSo
        <4>2. x \in Fact /\ q \in E /\ Before(q, p)
          BY <3>1 DEF Named, E
        <4>3. FirstAt(items, E, x, q)
          BY <4>1, <4>2 DEF FirstAt, E
        <4>4. q \in Nat \X Nat /\ FactAt(items, q) = x
          BY <4>1 DEF FirstAt
        <4>5. Knows(s.graph, x)
          BY <3>1 DEF GraphSo
        <4>6. t.graph.facts[x] = s.graph.facts[x]
          BY <2>2, <4>2, <4>5
        <4>7. QED
          BY <4>1, <4>2, <4>3, <4>6
      <3>2. CASE x \notin Named(items, D)
        <4>1. x = f
          BY <2>3, <3>2
        <4>2. ~Knows(s.graph, x)
          BY <1>4, <2>6, <3>2, <4>1 DEF GraphSo
        <4>3. t.graph.facts[x] = o.value
          BY <1>4, <2>2, <4>1, <4>2
        <4>4. FirstAt(items, E, x, p)
          <5>1. \A q \in D : FactAt(items, q) # x
            BY <1>4, <3>2, <4>1 DEF Named
          <5>2. QED
            BY <1>1, <4>1, <5>1 DEF FirstAt, E
        <4>5. p \in E
          BY DEF E
        <4>6. QED
          BY <4>3, <4>4, <4>5
      <3>3. QED
        BY <3>1, <3>2
    <2>7. t.graph.events = b.events \cup {<<c, a>> : a \in 1 .. i}
      BY <2>2 DEF GraphSo
    <2>8. t.graph.edges = b.edges \cup EdgesAt(c, items, E)
      BY <2>2, <2>3 DEF GraphSo
    <2>9. \A x \in Named(items, E) : Knows(t.graph, x)
      <3>1. \A x \in Named(items, E) : x \in Fact
        BY DEF Named
      <3>2. o.value # Missing
        BY <1>1, ValueNotMissing
      <3>3. \A x \in Named(items, D) : Knows(s.graph, x)
        BY DEF GraphSo
      <3>4. QED
        BY <2>2, <2>3, <3>1, <3>2, <3>3 DEF Knows
    <2>10. GraphSo(b, t.graph, c, items, E, i)
      BY <2>2, <2>4, <2>5, <2>6, <2>7, <2>8, <2>9 DEF GraphSo
    <2>11. QED
      BY <2>10 DEF t, E
  <1>5. QED
    BY <1>3, <1>4 DEF Proper

\* One element more at most.
LEMMA CardAdds ==
    ASSUME NEW S, NEW T, NEW x, IsFiniteSet(S), \A y : y \in T <=> y \in S \/ y = x
    PROVE  /\ IsFiniteSet(T) /\ Cardinality(S) \in Nat /\ Cardinality(T) \in Nat
           /\ Cardinality(T) = IF x \in S THEN Cardinality(S) ELSE Cardinality(S) + 1
  <1>1. T = S \cup {x}
    OBVIOUS
  <1>2. IsFiniteSet(S \cup {x}) /\ Cardinality(S \cup {x}) =
            IF x \in S THEN Cardinality(S) ELSE Cardinality(S) + 1
    BY FS_AddElement, Zenon
  <1>3. Cardinality(S) \in Nat
    BY FS_CardinalityType
  <1>4. IsFiniteSet(T) /\ Cardinality(T) = IF x \in S THEN Cardinality(S) ELSE Cardinality(S) + 1
    BY <1>1, <1>2, Zenon
  <1>5. QED
    BY <1>3, <1>4

\* The step on the counts.
LEMMA CountsGoOn ==
    ASSUME NEW b \in Graph, NEW s, NEW c \in Call, NEW items, NEW i \in Nat, i # 0, NEW n \in Nat,
           NEW D \in SUBSET (Nat \X Nat), NEW p \in Nat \X Nat, p[1] = i,
           \A q \in D : Before(q, p),
           Proper(At(items, p)),
           GraphSo(b, s.graph, c, items, D, i), CountsSo(s, n, b, items, D, i)
    PROVE  CountsSo(EmitOne(s, <<c, i>>, At(items, p)), n, b, items, D \cup {p}, i)
  <1> DEFINE o == At(items, p)
             ev == <<c, i>>
             f == Canonical[o.value]
             t == EmitOne(s, ev, o)
             E == D \cup {p}
             N == NamingAt(items, D)
             M == NamingAt(items, E)
  <1>1. f = FactAt(items, p) /\ o \in Occurrence
    BY DEF FactAt, Proper
  <1>2. /\ \A x : x \in Named(items, E) <=>
              x \in Named(items, D) \/ (FactAt(items, p) \in Fact /\ x = FactAt(items, p))
        /\ \A q : q \in M <=> q \in N \/ (FactAt(items, p) \in Fact /\ q = p)
    BY OneMoreFact, OneMoreNaming
  <1>3. CASE f = Dropped
    <2>1. t = s /\ f \notin Fact
      BY <1>3, EmitDropped, FactGraphAssumption
    <2> HIDE DEF t, E
    <2>2. Named(items, E) = Named(items, D) /\ M = N
      BY <1>1, <1>2, <2>1
    <2>3. Fresh(b, items, E) = Fresh(b, items, D) /\ Old(b, items, E) = Old(b, items, D)
      BY <2>2, Zenon DEF Fresh, Old
    <2>4. OnceIn(b, items, E) <=> OnceIn(b, items, D)
      BY <2>2, Zenon DEF OnceIn
    <2>5. CountsSo(t, n, b, items, E, i)
      BY <2>1, <2>2, <2>3, <2>4, Zenon DEF CountsSo
    <2>6. QED
      BY <2>5 DEF t, E
  <1>4. CASE f \in Fact
    <2>1. s.graph \in Graph /\ ev \in EventId
      BY DEF GraphSo, EventId
    <2>2. /\ t.new = IF Knows(s.graph, f) THEN s.new ELSE s.new + 1
          /\ t.linked = IF Knows(s.graph, f) THEN s.linked \cup {f} ELSE s.linked
          /\ t.edges = s.edges + 1
      <3> HIDE DEF ev, o
      <3>1. Emitted(s, t, ev, o)
        BY <1>1, <1>4, <2>1, EmitAt
      <3> HIDE DEF t
      <3>2. QED
        BY <3>1 DEF Emitted
    <2>3. p \notin N
      BY BeforeOrders DEF NamingAt
    <2> HIDE DEF t, E
    <2>4. /\ \A x : x \in Named(items, E) <=> x \in Named(items, D) \/ x = f
          /\ \A q : q \in M <=> q \in N \/ q = p
          /\ f = FactAt(items, p)
      BY <1>1, <1>2, <1>4
    <2> HIDE DEF f, ev, o
    <2>5. /\ IsFiniteSet(Named(items, D)) /\ IsFiniteSet(N)
          /\ s.linked \in SUBSET Named(items, D)
          /\ s.new = Cardinality(Fresh(b, items, D))
          /\ s.edges = Cardinality(N)
          /\ s.new + n + Cardinality(s.linked) <= s.edges
          /\ Cardinality(Old(b, items, D)) <= n + Cardinality(s.linked)
          /\ OnceIn(b, items, D) => n + Cardinality(s.linked) = Cardinality(Old(b, items, D))
          /\ \A q \in N : q[1] = i /\ Knows(b, FactAt(items, q)) => FactAt(items, q) \in s.linked
      BY DEF CountsSo
    <2>6. IsFiniteSet(Named(items, E))
      <3>1. IsFiniteSet(Named(items, D)) /\ \A x : x \in Named(items, E) <=> x \in Named(items, D) \/ x = f
        BY <2>4, <2>5
      <3>2. QED
        BY <3>1, CardAdds
    <2>7. /\ IsFiniteSet(M) /\ Cardinality(N) \in Nat /\ Cardinality(M) = Cardinality(N) + 1
      <3> HIDE DEF N, M
      <3>1. IsFiniteSet(N) /\ \A q : q \in M <=> q \in N \/ q = p
        BY <2>4, <2>5
      <3>2. QED
        BY <2>3, <3>1, CardAdds
    <2>8. Knows(s.graph, f) <=> Knows(b, f) \/ f \in Named(items, D)
      BY <1>4 DEF GraphSo, Knows
    <2>9. /\ IsFiniteSet(Fresh(b, items, D)) /\ Cardinality(Fresh(b, items, D)) \in Nat
          /\ IsFiniteSet(Old(b, items, D)) /\ Cardinality(Old(b, items, D)) \in Nat
          /\ IsFiniteSet(s.linked) /\ Cardinality(s.linked) \in Nat
      <3>1. /\ Fresh(b, items, D) \in SUBSET Named(items, D)
            /\ Old(b, items, D) \in SUBSET Named(items, D)
        BY DEF Fresh, Old
      <3>2. IsFiniteSet(Fresh(b, items, D)) /\ IsFiniteSet(Old(b, items, D)) /\ IsFiniteSet(s.linked)
        BY <2>5, <3>1, FS_Subset
      <3>3. QED
        BY <3>2, FS_CardinalityType
    <2>10. OnceIn(b, items, E) => OnceIn(b, items, D)
      BY <2>4 DEF OnceIn
    <2>11. f \in Named(items, D) => \E q \in N : FactAt(items, q) = f
      BY <1>4 DEF Named, NamingAt
    <2>12. OnceIn(b, items, E) => \A q \in N : FactAt(items, q) = f => q[1] = i /\ Knows(b, f)
      BY <2>3, <2>4 DEF OnceIn
    <2> DEFINE linked == Cardinality(s.linked)
               fresh == Cardinality(Fresh(b, items, D))
               old == Cardinality(Old(b, items, D))
    <2>13. CASE ~Knows(s.graph, f)
      <3>1. /\ f \notin Fresh(b, items, D)
            /\ \A x : x \in Fresh(b, items, E) <=> x \in Fresh(b, items, D) \/ x = f
            /\ \A x : x \in Old(b, items, E) <=> x \in Old(b, items, D)
            /\ f \notin Named(items, D) /\ ~Knows(b, f)
        BY <2>4, <2>8, <2>13 DEF Fresh, Old
      <3>2. Cardinality(Fresh(b, items, E)) = fresh + 1
        BY <2>9, <3>1, CardAdds
      <3>3. Old(b, items, E) = Old(b, items, D)
        BY <3>1
      <3>4. t.new = s.new + 1 /\ t.linked = s.linked /\ t.edges = s.edges + 1
        BY <2>2, <2>13
      <3>5. \A q \in M : q[1] = i /\ Knows(b, FactAt(items, q)) => FactAt(items, q) \in t.linked
        BY <2>4, <2>5, <3>1, <3>4
      <3>6. t.new = Cardinality(Fresh(b, items, E)) /\ t.edges = Cardinality(M)
        BY <2>5, <2>7, <3>2, <3>4
      <3>7. /\ t.new + n + Cardinality(t.linked) <= t.edges
            /\ Cardinality(Old(b, items, E)) <= n + Cardinality(t.linked)
            /\ OnceIn(b, items, E) => n + Cardinality(t.linked) = Cardinality(Old(b, items, E))
        <4> HIDE DEF N, M
        <4>1. s.new + 1 + n + Cardinality(s.linked) <= s.edges + 1
          BY <2>5, <2>7, <2>9
        <4>2. QED
          BY <2>5, <2>10, <3>3, <3>4, <4>1
      <3>8. t.linked \in SUBSET Named(items, E)
        BY <2>4, <2>5, <3>4
      <3>9. CountsSo(t, n, b, items, E, i)
        BY <2>6, <2>7, <3>5, <3>6, <3>7, <3>8 DEF CountsSo
      <3>10. QED
        BY <3>9 DEF t, E, ev, o
    <2>14. CASE Knows(s.graph, f)
      <3>1. /\ \A x : x \in Fresh(b, items, E) <=> x \in Fresh(b, items, D)
            /\ Knows(b, f) => \A x : x \in Old(b, items, E) <=> x \in Old(b, items, D) \/ x = f
            /\ ~Knows(b, f) => \A x : x \in Old(b, items, E) <=> x \in Old(b, items, D)
            /\ f \in Old(b, items, D) <=> Knows(b, f) /\ f \in Named(items, D)
        BY <2>4, <2>8, <2>14 DEF Fresh, Old
      <3>2. t.new = s.new /\ t.linked = s.linked \cup {f} /\ t.edges = s.edges + 1
        BY <2>2, <2>14
      <3>3. Cardinality(t.linked) = IF f \in s.linked THEN linked ELSE linked + 1
        <4>1. \A x : x \in t.linked <=> x \in s.linked \/ x = f
          BY <3>2
        <4>2. QED
          BY <2>9, <4>1, CardAdds, SMTT(30)
      <3>4. Cardinality(Old(b, items, E)) =
                IF Knows(b, f) /\ f \notin Named(items, D) THEN old + 1 ELSE old
        <4>1. CASE Knows(b, f)
          BY <2>9, <3>1, <4>1, CardAdds
        <4>2. CASE ~Knows(b, f)
          <5>1. Old(b, items, E) = Old(b, items, D)
            BY <3>1, <4>2
          <5>2. QED
            BY <4>2, <5>1
        <4>3. QED
          BY <4>1, <4>2
      <3>5. f \in s.linked => f \in Named(items, D)
        BY <2>5
      <3>6. OnceIn(b, items, E) => Knows(b, f) /\ (f \in Named(items, D) => f \in s.linked)
        BY <2>4, <2>5, <2>8, <2>11, <2>12, <2>14
      <3>7. \A q \in M : q[1] = i /\ Knows(b, FactAt(items, q)) => FactAt(items, q) \in t.linked
        BY <2>4, <2>5, <3>2
      <3>8. t.new = Cardinality(Fresh(b, items, E)) /\ t.edges = Cardinality(M)
        <4>1. Fresh(b, items, E) = Fresh(b, items, D)
          BY <3>1
        <4>2. QED
          BY <2>5, <2>7, <3>2, <4>1
      <3>9. /\ t.new + n + Cardinality(t.linked) <= t.edges
            /\ Cardinality(Old(b, items, E)) <= n + Cardinality(t.linked)
            /\ OnceIn(b, items, E) => n + Cardinality(t.linked) = Cardinality(Old(b, items, E))
        <4>1. s.new + n + linked <= s.edges /\ old <= n + linked /\ s.edges \in Nat
              /\ s.new \in Nat /\ linked \in Nat /\ old \in Nat
              /\ (OnceIn(b, items, D) => n + linked = old)
          BY <2>5, <2>7, <2>9
        <4> HIDE DEF linked, old, N, M
        <4>2. t.new + n + Cardinality(t.linked) <= t.edges
          BY <3>2, <3>3, <4>1
        <4>3. Cardinality(Old(b, items, E)) <= n + Cardinality(t.linked)
          BY <3>3, <3>4, <3>5, <4>1
        <4>4. OnceIn(b, items, E) => n + Cardinality(t.linked) = Cardinality(Old(b, items, E))
          BY <2>10, <3>3, <3>4, <3>5, <3>6, <4>1
        <4>5. QED
          BY <4>2, <4>3, <4>4
      <3>10. t.linked \in SUBSET Named(items, E)
        BY <2>4, <2>5, <3>2
      <3>11. CountsSo(t, n, b, items, E, i)
        BY <2>6, <2>7, <3>7, <3>8, <3>9, <3>10 DEF CountsSo
      <3>12. QED
        BY <3>11 DEF t, E, ev, o
    <2>15. QED
      BY <2>13, <2>14
  <1>5. QED
    BY <1>3, <1>4 DEF Proper

------------------------------------------------------------------------------
(* The walks, by induction over the positions.                              *)

\* The occurrences of the items before the i-th, and the first k of that.
Done(items, i, k) ==
    {p \in Nat \X Nat : /\ p[1] # 0 /\ p[2] # 0
                        /\ \/ p[1] < i /\ p[1] \in DOMAIN items /\ p[2] \in DOMAIN items[p[1]]
                           \/ p[1] = i /\ p[2] <= k}

AllProper(items) ==
    /\ items \in Seq(Seq(Occurrence))
    /\ \A i \in DOMAIN items : \A k \in DOMAIN items[i] : Proper(items[i][k])

\* How things stand within an item, n facts having been linked to before it.
WithinSo(s, n, b, c, items, i, k) ==
    /\ IsProgress(s)
    /\ GraphSo(b, s.graph, c, items, Done(items, i, k), i)
    /\ CountsSo(s, n, b, items, Done(items, i, k), i)

\* How things stand after item i, before the next: "linked" is a number there.
AfterSo(s, b, c, items, D, i) ==
    /\ IsProgress(s)
    /\ s.linked \in Nat
    /\ GraphSo(b, s.graph, c, items, D, i)
    /\ CountsSo([s EXCEPT !.linked = {}], s.linked, b, items, D, i + 1)

LEMMA DoneGrows ==
    ASSUME NEW items, NEW i \in Nat, NEW k \in Nat, i # 0
    PROVE  /\ Done(items, i, k + 1) = Done(items, i, k) \cup {<<i, k + 1>>}
           /\ Done(items, i, k) \in SUBSET (Nat \X Nat)
           /\ \A q \in Done(items, i, k) : Before(q, <<i, k + 1>>)
  BY DEF Done, Before

LEMMA EmitKeepsShape ==
    ASSUME NEW s, NEW ev, NEW o, IsProgress(s)
    PROVE  IsProgress(EmitOne(s, ev, o))
  BY DEF EmitOne, IsProgress

LEMMA WithinGoesOn ==
    ASSUME NEW b \in Graph, NEW s, NEW c \in Call, NEW items, AllProper(items), NEW n \in Nat,
           NEW i \in DOMAIN items, NEW k \in Nat, k + 1 \in DOMAIN items[i],
           WithinSo(s, n, b, c, items, i, k)
    PROVE  WithinSo(EmitOne(s, <<c, i>>, items[i][k + 1]), n, b, c, items, i, k + 1)
  <1> DEFINE p == <<i, k + 1>>
             D == Done(items, i, k)
  <1>1. i \in Nat /\ i # 0
    BY DEF AllProper
  <1>2. p \in Nat \X Nat /\ p[1] = i /\ At(items, p) = items[i][k + 1]
    BY <1>1 DEF At
  <1>3. Proper(At(items, p))
    BY <1>2 DEF AllProper
  <1>4. /\ Done(items, i, k + 1) = D \cup {p} /\ D \in SUBSET (Nat \X Nat)
        /\ \A q \in D : Before(q, p)
    BY <1>1, DoneGrows
  <1>5. /\ IsProgress(s) /\ GraphSo(b, s.graph, c, items, D, i) /\ CountsSo(s, n, b, items, D, i)
    BY DEF WithinSo
  <1>6. p[1] # 0 /\ p[1] = i
    BY <1>1, <1>2
  <1> HIDE DEF p, D
  <1> DEFINE t == EmitOne(s, <<c, i>>, At(items, p))
  <1>7. GraphSo(b, t.graph, c, items, D \cup {p}, i)
    BY <1>1, <1>2, <1>3, <1>4, <1>5, <1>6, GraphGoesOn
  <1>8. CountsSo(t, n, b, items, D \cup {p}, i)
    BY <1>1, <1>2, <1>3, <1>4, <1>5, <1>6, CountsGoOn
  <1>9. IsProgress(t)
    BY <1>5, EmitKeepsShape
  <1>10. t = EmitOne(s, <<c, i>>, items[i][k + 1])
    BY <1>2
  <1> HIDE DEF t
  <1>11. QED
    BY <1>4, <1>7, <1>8, <1>9, <1>10, Zenon DEF WithinSo

\* At the beginning of item i.
LEMMA WithinBegins ==
    ASSUME NEW b \in Graph, NEW s, NEW c \in Call, NEW items, AllProper(items),
           NEW i \in DOMAIN items, AfterSo(s, b, c, items, Done(items, i, 0), i - 1)
    PROVE  WithinSo(EmitsFrom(s, <<c, i>>), s.linked, b, c, items, i, 0)
  <1> DEFINE t == EmitsFrom(s, <<c, i>>)
             D == Done(items, i, 0)
  <1>1. i \in Nat /\ i # 0 /\ <<c, i>> \in EventId
    BY DEF AllProper, EventId
  <1>2. /\ IsProgress(t) /\ t.graph = AddEvent(s.graph, <<c, i>>) /\ t.new = s.new
        /\ t.linked = {} /\ t.edges = s.edges
        /\ LET r == [s EXCEPT !.linked = {}] IN
           r.new = s.new /\ r.linked = {} /\ r.edges = s.edges
    <2> DEFINE g == AddEvent(s.graph, <<c, i>>)
               r == [s EXCEPT !.linked = {}]
    <2>1. IsProgress(s)
      BY DEF AfterSo
    <2>2. t = [s EXCEPT !.graph = g, !.linked = {}]
      BY DEF EmitsFrom
    <2> HIDE DEF g, t
    <2>3. t = [graph |-> g, new |-> s.new, linked |-> {}, edges |-> s.edges]
      BY <2>1, <2>2 DEF IsProgress
    <2>4. r.new = s.new /\ r.linked = {} /\ r.edges = s.edges
      BY <2>1 DEF IsProgress
    <2>5. QED
      BY <2>3, <2>4 DEF IsProgress, g
  <1> HIDE DEF t, D
  <1>3. GraphSo(b, s.graph, c, items, D, i - 1)
    BY DEF AfterSo, D
  <1>4. /\ t.graph \in Graph /\ t.graph.edges = s.graph.edges /\ t.graph.facts = s.graph.facts
        /\ t.graph.events = s.graph.events \cup {<<c, i>>}
    BY <1>1, <1>2, <1>3, EventAdded DEF GraphSo
  <1>5. t.graph.events = b.events \cup {<<c, a>> : a \in 1 .. i}
    <2>1. s.graph.events = b.events \cup {<<c, a>> : a \in 1 .. (i - 1)}
      BY <1>3 DEF GraphSo
    <2>2. 1 .. i = (1 .. (i - 1)) \cup {i}
      BY <1>1
    <2>3. {<<c, a>> : a \in 1 .. i} = {<<c, a>> : a \in 1 .. (i - 1)} \cup {<<c, i>>}
      BY <2>2, Zenon
    <2>4. QED
      BY <1>4, <2>1, <2>3
  <1>6. GraphSo(b, t.graph, c, items, D, i)
    BY <1>3, <1>4, <1>5 DEF GraphSo, Knows
  <1>7. CountsSo(t, s.linked, b, items, D, i)
    <2>1. (i - 1) + 1 = i
      BY <1>1
    <2>2. CountsSo([s EXCEPT !.linked = {}], s.linked, b, items, D, i)
      BY <2>1 DEF AfterSo, D
    <2>3. QED
      BY <1>2, <2>2 DEF CountsSo
  <1>8. QED
    BY <1>2, <1>6, <1>7 DEF WithinSo, t, D

LEMMA WithinHolds ==
    ASSUME NEW b \in Graph, NEW s, NEW c \in Call, NEW items, AllProper(items),
           NEW i \in DOMAIN items, AfterSo(s, b, c, items, Done(items, i, 0), i - 1)
    PROVE  \A k \in 0 .. Len(items[i]) :
              WithinSo(Emits(s, <<c, i>>, items[i])[k], s.linked, b, c, items, i, k)
  <1> DEFINE w == Emits(s, <<c, i>>, items[i])
             P == {k \in Nat : k \in 0 .. Len(items[i]) => WithinSo(w[k], s.linked, b, c, items, i, k)}
  <1>1. Len(items[i]) \in Nat /\ DOMAIN items[i] = 1 .. Len(items[i])
    BY DEF AllProper
  <1>2. /\ w[0] = EmitsFrom(s, <<c, i>>)
        /\ \A k \in 0 .. Len(items[i]) : k # 0 => w[k] = EmitOne(w[k - 1], <<c, i>>, items[i][k])
    BY <1>1, EmitsAre
  <1> HIDE DEF w
  <1>3. 0 \in P
    <2>1. WithinSo(w[0], s.linked, b, c, items, i, 0)
      BY <1>2, WithinBegins
    <2>2. QED
      BY <2>1
  <1>4. ASSUME NEW k \in Nat, k \in P PROVE k + 1 \in P
    <2> SUFFICES ASSUME k + 1 \in 0 .. Len(items[i])
                 PROVE  WithinSo(w[k + 1], s.linked, b, c, items, i, k + 1)
      OBVIOUS
    <2>1. k \in 0 .. Len(items[i]) /\ k + 1 \in DOMAIN items[i] /\ k + 1 # 0 /\ (k + 1) - 1 = k
      BY <1>1
    <2>2. WithinSo(w[k], s.linked, b, c, items, i, k)
      BY <1>4, <2>1
    <2>3. w[k + 1] = EmitOne(w[k], <<c, i>>, items[i][k + 1])
      BY <1>2, <2>1
    <2>4. s.linked \in Nat
      BY DEF AfterSo
    <2>5. WithinSo(EmitOne(w[k], <<c, i>>, items[i][k + 1]), s.linked, b, c, items, i, k + 1)
      BY <2>1, <2>2, <2>4, WithinGoesOn
    <2>6. QED
      BY <2>3, <2>5
  <1>5. \A k \in Nat : k \in P
    <2> HIDE DEF P
    <2>1. QED
      BY <1>3, <1>4, Induct
  <1>6. \A k \in 0 .. Len(items[i]) : k \in Nat
    BY <1>1
  <1>7. QED
    BY <1>5, <1>6 DEF w

\* At the end of item i.
LEMMA ItemHolds ==
    ASSUME NEW b \in Graph, NEW s, NEW c \in Call, NEW items, AllProper(items),
           NEW i \in DOMAIN items, AfterSo(s, b, c, items, Done(items, i, 0), i - 1)
    PROVE  AfterSo(ExtractItem(s, <<c, i>>, items[i]), b, c, items, Done(items, i, Len(items[i])), i)
  <1> DEFINE t == Emits(s, <<c, i>>, items[i])[Len(items[i])]
             r == ExtractItem(s, <<c, i>>, items[i])
             D == Done(items, i, Len(items[i]))
  <1>1. WithinSo(t, s.linked, b, c, items, i, Len(items[i]))
    <2>1. Len(items[i]) \in 0 .. Len(items[i])
      BY DEF AllProper
    <2>2. QED
      BY <2>1, WithinHolds
  <1>2. r = [t EXCEPT !.linked = s.linked + Cardinality(@)]
    BY DEF ExtractItem
  <1> HIDE DEF t, r
  <1>3. IsProgress(t) /\ GraphSo(b, t.graph, c, items, D, i) /\ CountsSo(t, s.linked, b, items, D, i)
    BY <1>1 DEF WithinSo
  <1>d. \A q \in NamingAt(items, D) : q[1] # i + 1
    BY DEF NamingAt, Done, AllProper
  <1> HIDE DEF D
  <1>4. /\ IsProgress(r) /\ r.graph = t.graph /\ r.new = t.new /\ r.edges = t.edges
        /\ r.linked = s.linked + Cardinality(t.linked)
        /\ LET q == [r EXCEPT !.linked = {}] IN
           q.new = t.new /\ q.linked = {} /\ q.edges = t.edges
    BY <1>2, <1>3 DEF IsProgress
  <1>5. s.linked \in Nat /\ Cardinality(t.linked) \in Nat
    <2>1. IsFiniteSet(t.linked)
      BY <1>3, FS_Subset DEF CountsSo
    <2>2. QED
      BY <2>1, FS_CardinalityType DEF AfterSo
  <1>6. r.linked \in Nat
    BY <1>4, <1>5
  <1>7. CountsSo([r EXCEPT !.linked = {}], r.linked, b, items, D, i + 1)
    <2> DEFINE q == [r EXCEPT !.linked = {}]
    <2>1. q.new = t.new /\ q.linked = {} /\ q.edges = t.edges
      BY <1>4
    <2> HIDE DEF q
    <2>2. Cardinality({}) = 0
      BY FS_EmptySet
    <2>3. /\ IsFiniteSet(Named(items, D)) /\ IsFiniteSet(NamingAt(items, D))
          /\ t.new = Cardinality(Fresh(b, items, D))
          /\ t.edges = Cardinality(NamingAt(items, D))
          /\ t.new + s.linked + Cardinality(t.linked) <= t.edges
          /\ Cardinality(Old(b, items, D)) <= s.linked + Cardinality(t.linked)
          /\ OnceIn(b, items, D) => s.linked + Cardinality(t.linked) = Cardinality(Old(b, items, D))
      BY <1>3 DEF CountsSo
    <2>4. t.new \in Nat
      <3>1. Fresh(b, items, D) \in SUBSET Named(items, D)
        BY DEF Fresh
      <3>2. IsFiniteSet(Fresh(b, items, D))
        BY <2>3, <3>1, FS_Subset
      <3>3. QED
        BY <2>3, <3>2, FS_CardinalityType
    <2>5. r.linked + Cardinality(q.linked) = s.linked + Cardinality(t.linked)
      BY <1>4, <1>5, <2>1, <2>2
    <2>6. q.new + r.linked + Cardinality(q.linked) <= q.edges
      BY <1>4, <1>5, <2>1, <2>2, <2>3, <2>4
    <2>7. /\ Cardinality(Old(b, items, D)) <= r.linked + Cardinality(q.linked)
          /\ OnceIn(b, items, D) => r.linked + Cardinality(q.linked) = Cardinality(Old(b, items, D))
      BY <2>3, <2>5
    <2>8. CountsSo(q, r.linked, b, items, D, i + 1)
      BY <1>d, <2>1, <2>3, <2>6, <2>7 DEF CountsSo
    <2>9. QED
      BY <2>8 DEF q
  <1>8. QED
    BY <1>3, <1>4, <1>6, <1>7 DEF AfterSo, r, D

LEMMA DoneMeets ==
    ASSUME NEW items, AllProper(items)
    PROVE  /\ Done(items, 1, 0) = {}
           /\ \A i \in DOMAIN items : Done(items, i, Len(items[i])) = Done(items, i + 1, 0)
  <1>1. DOMAIN items = 1 .. Len(items) /\ Len(items) \in Nat
    BY DEF AllProper
  <1>2. Done(items, 1, 0) = {}
    BY <1>1 DEF Done
  <1>3. ASSUME NEW i \in DOMAIN items
        PROVE  Done(items, i, Len(items[i])) = Done(items, i + 1, 0)
    <2>1. DOMAIN items[i] = 1 .. Len(items[i]) /\ Len(items[i]) \in Nat /\ i \in Nat /\ i # 0
      BY <1>1, <1>3 DEF AllProper
    <2>2. ASSUME NEW p \in Nat \X Nat, p[1] # 0, p[2] # 0
          PROVE  p \in Done(items, i, Len(items[i])) <=> p \in Done(items, i + 1, 0)
      <3>1. CASE p[1] = i
        <4>1. p[1] < i + 1 /\ p[1] \in DOMAIN items /\ (p[2] \in DOMAIN items[p[1]] <=> p[2] <= Len(items[i]))
          BY <2>1, <2>2, <3>1
        <4>2. p \in Done(items, i, Len(items[i])) <=> p[2] <= Len(items[i])
          BY <2>1, <2>2, <3>1 DEF Done
        <4>3. p \in Done(items, i + 1, 0) <=> p[2] \in DOMAIN items[p[1]]
          BY <2>1, <2>2, <3>1, <4>1 DEF Done
        <4>4. QED
          BY <4>1, <4>2, <4>3
      <3>2. CASE p[1] # i
        <4>1. p[1] < i <=> p[1] < i + 1
          BY <2>1, <3>2
        <4>2. ~ (p[1] = i + 1 /\ p[2] <= 0)
          BY <2>2
        <4>3. QED
          BY <2>2, <3>2, <4>1, <4>2 DEF Done
      <3>3. QED
        BY <3>1, <3>2
    <2>3. \A p \in Done(items, i, Len(items[i])) \cup Done(items, i + 1, 0) :
             p \in Nat \X Nat /\ p[1] # 0 /\ p[2] # 0
      BY DEF Done
    <2>4. QED
      BY <2>2, <2>3
  <1>4. QED
    BY <1>2, <1>3

\* Before the first item.
LEMMA AfterBegins ==
    ASSUME NEW b \in Graph, NEW c \in Call, NEW items
    PROVE  AfterSo(Progress(b), b, c, items, {}, 0)
  <1> DEFINE s == Progress(b)
             q == [s EXCEPT !.linked = {}]
  <1>1. IsProgress(s) /\ s.linked = 0 /\ s.graph = b
    BY DEF Progress, IsProgress
  <1>2. q.new = 0 /\ q.linked = {} /\ q.edges = 0
    BY DEF Progress
  <1>3. /\ Named(items, {}) = {} /\ EdgesAt(c, items, {}) = {} /\ NamingAt(items, {}) = {}
        /\ Fresh(b, items, {}) = {} /\ Old(b, items, {}) = {}
    BY DEF Named, EdgesAt, NamingAt, Fresh, Old
  <1> HIDE DEF s, q
  <1>4. GraphSo(b, b, c, items, {}, 0)
    <2>1. {<<c, a>> : a \in 1 .. 0} = {}
      OBVIOUS
    <2>2. QED
      BY <1>3, <2>1 DEF GraphSo, Knows
  <1>5. CountsSo(q, 0, b, items, {}, 0 + 1)
    BY <1>2, <1>3, FS_EmptySet DEF CountsSo
  <1>6. QED
    BY <1>1, <1>4, <1>5 DEF AfterSo, s, q

LEMMA BuildHolds ==
    ASSUME NEW b \in Graph, NEW c \in Call, NEW items, AllProper(items)
    PROVE  \A i \in 0 .. Len(items) :
              AfterSo(Builds(b, c, items)[i], b, c, items, Done(items, i + 1, 0), i)
  <1> DEFINE w == Builds(b, c, items)
             P == {i \in Nat : i \in 0 .. Len(items) =>
                                  AfterSo(w[i], b, c, items, Done(items, i + 1, 0), i)}
  <1>1. Len(items) \in Nat /\ DOMAIN items = 1 .. Len(items)
    BY DEF AllProper
  <1>2. /\ w[0] = Progress(b)
        /\ \A i \in 0 .. Len(items) : i # 0 => w[i] = ExtractItem(w[i - 1], <<c, i>>, items[i])
    BY <1>1, BuildsAre
  <1> HIDE DEF w
  <1>3. 0 \in P
    <2>1. Done(items, 0 + 1, 0) = {}
      BY DoneMeets
    <2>2. AfterSo(w[0], b, c, items, Done(items, 0 + 1, 0), 0)
      BY <1>2, <2>1, AfterBegins
    <2>3. QED
      BY <2>2
  <1>4. ASSUME NEW j \in Nat, j \in P PROVE j + 1 \in P
    <2> DEFINE i == j + 1
    <2> SUFFICES ASSUME i \in 0 .. Len(items)
                 PROVE  AfterSo(w[i], b, c, items, Done(items, i + 1, 0), i)
      OBVIOUS
    <2>1. j \in 0 .. Len(items) /\ i \in DOMAIN items /\ i # 0 /\ i - 1 = j
      BY <1>1
    <2>2. AfterSo(w[j], b, c, items, Done(items, i, 0), j)
      BY <1>4, <2>1
    <2>3. w[i] = ExtractItem(w[j], <<c, i>>, items[i])
      BY <1>2, <2>1
    <2> HIDE DEF i
    <2>4. AfterSo(w[j], b, c, items, Done(items, i, 0), i - 1)
      BY <2>1, <2>2
    <2>5. AfterSo(ExtractItem(w[j], <<c, i>>, items[i]), b, c, items, Done(items, i, Len(items[i])), i)
      BY <2>1, <2>4, ItemHolds
    <2>6. Done(items, i, Len(items[i])) = Done(items, i + 1, 0)
      BY <2>1, DoneMeets
    <2>7. QED
      BY <2>3, <2>5, <2>6
  <1>5. \A i \in Nat : i \in P
    <2> HIDE DEF P
    <2>1. QED
      BY <1>3, <1>4, Induct
  <1>6. \A i \in 0 .. Len(items) : i \in Nat
    BY <1>1
  <1>7. QED
    BY <1>5, <1>6 DEF w

\* All the occurrences of the items of a call.
Places(items) == Done(items, Len(items) + 1, 0)

LEMMA PlacesAre ==
    ASSUME NEW items, AllProper(items)
    PROVE  /\ \A i \in DOMAIN items : \A k \in DOMAIN items[i] :
                 <<i, k>> \in Places(items) /\ i \in Nat /\ k \in Nat
           /\ \A p \in Places(items) : /\ p[1] \in DOMAIN items /\ p[2] \in DOMAIN items[p[1]]
                                       /\ p = <<p[1], p[2]>> /\ p \in Nat \X Nat
  <1>1. DOMAIN items = 1 .. Len(items) /\ Len(items) \in Nat
    BY DEF AllProper
  <1>2. ASSUME NEW i \in DOMAIN items, NEW k \in DOMAIN items[i]
        PROVE  <<i, k>> \in Places(items) /\ i \in Nat /\ k \in Nat
    <2>1. DOMAIN items[i] = 1 .. Len(items[i]) /\ Len(items[i]) \in Nat
      BY DEF AllProper
    <2>2. i \in Nat /\ k \in Nat /\ i # 0 /\ k # 0 /\ i < Len(items) + 1
      BY <1>1, <2>1
    <2>3. QED
      BY <2>2 DEF Places, Done
  <1>3. ASSUME NEW p \in Places(items)
        PROVE  /\ p[1] \in DOMAIN items /\ p[2] \in DOMAIN items[p[1]]
               /\ p = <<p[1], p[2]>> /\ p \in Nat \X Nat
    <2>1. p \in Nat \X Nat /\ p[2] # 0 /\ ~ (p[2] <= 0)
      BY DEF Places, Done
    <2>2. p[1] \in DOMAIN items /\ p[2] \in DOMAIN items[p[1]]
      BY <2>1 DEF Places, Done
    <2>3. QED
      BY <2>1, <2>2
  <1>4. QED
    BY <1>2, <1>3

\* What an ingest leaves and counts.
LEMMA IngestedAt ==
    ASSUME NEW b \in Graph, NEW c \in Call, NEW items, AllProper(items)
    PROVE  AfterSo(Ingested(b, c, items), b, c, items, Places(items), Len(items))
  <1>1. Len(items) \in 0 .. Len(items)
    BY DEF AllProper
  <1>2. QED
    BY <1>1, BuildHolds DEF Ingested, Places

LEMMA NamedAre ==
    ASSUME NEW c, NEW items, AllProper(items)
    PROVE  /\ \A f : f \in Named(items, Places(items)) <=> \E i \in DOMAIN items : f \in FactsIn(items[i])
           /\ EdgesAt(c, items, Places(items)) = EdgesOf(c, items)
           /\ {<<c, a>> : a \in 1 .. Len(items)} = EventsOf(c, items)
  <1>1. ASSUME NEW f
        PROVE  f \in Named(items, Places(items)) <=> \E i \in DOMAIN items : f \in FactsIn(items[i])
    <2>1. ASSUME NEW i \in DOMAIN items
          PROVE  f \in FactsIn(items[i]) <=>
                    f \in Fact /\ \E k \in DOMAIN items[i] : Canonical[items[i][k].value] = f
      BY DEF FactsIn, ToSet
    <2>2. ASSUME NEW i \in DOMAIN items, NEW k \in DOMAIN items[i]
          PROVE  FactAt(items, <<i, k>>) = Canonical[items[i][k].value]
      BY DEF FactAt, At
    <2>3. ASSUME f \in Named(items, Places(items))
          PROVE  \E i \in DOMAIN items : f \in FactsIn(items[i])
      <3>1. PICK p \in Places(items) : FactAt(items, p) = f
        BY <2>3 DEF Named
      <3>2. p[1] \in DOMAIN items /\ p[2] \in DOMAIN items[p[1]]
        BY PlacesAre
      <3>3. Canonical[items[p[1]][p[2]].value] = f /\ f \in Fact
        BY <2>3, <3>1 DEF FactAt, At, Named
      <3>4. QED
        BY <2>1, <3>2, <3>3
    <2>4. ASSUME NEW i \in DOMAIN items, f \in FactsIn(items[i])
          PROVE  f \in Named(items, Places(items))
      <3>1. PICK k \in DOMAIN items[i] : Canonical[items[i][k].value] = f
        BY <2>1, <2>4
      <3>2. <<i, k>> \in Places(items)
        BY PlacesAre
      <3>3. f \in Fact
        BY <2>1, <2>4
      <3>4. FactAt(items, <<i, k>>) = f
        BY <2>2, <3>1
      <3>5. QED
        BY <3>2, <3>3, <3>4 DEF Named
    <2>5. QED
      BY <2>3, <2>4
  <1>2. ASSUME NEW e PROVE e \in EdgesAt(c, items, Places(items)) <=> e \in EdgesOf(c, items)
    <2>1. ASSUME e \in EdgesAt(c, items, Places(items)) PROVE e \in EdgesOf(c, items)
      <3>1. PICK p \in Places(items) : e = EdgeAt(c, items, p) /\ FactAt(items, p) \in Fact
        BY <2>1 DEF EdgesAt
      <3>2. p[1] \in DOMAIN items /\ p[2] \in DOMAIN items[p[1]]
        BY PlacesAre
      <3> DEFINE o == items[p[1]][p[2]]
                 i == p[1]
      <3>3. o \in Elems(items[i]) /\ Canonical[o.value] \in Fact
        BY <3>1, <3>2 DEF Elems, FactAt, At
      <3>4. e = [event |-> <<c, i>>, type |-> o.type, target |-> Canonical[o.value]]
        BY <3>1 DEF EdgeAt, EdgeTo, At
      <3>5. e \in EdgesSaid(<<c, i>>, items[i])
        BY <3>3, <3>4 DEF EdgesSaid
      <3>6. QED
        BY <3>2, <3>5 DEF EdgesOf
    <2>2. ASSUME e \in EdgesOf(c, items) PROVE e \in EdgesAt(c, items, Places(items))
      <3>1. PICK i \in DOMAIN items : e \in EdgesSaid(<<c, i>>, items[i])
        BY <2>2 DEF EdgesOf
      <3>2. PICK k \in DOMAIN items[i] :
               /\ Canonical[items[i][k].value] \in Fact
               /\ e = [event |-> <<c, i>>, type |-> items[i][k].type,
                       target |-> Canonical[items[i][k].value]]
        BY <3>1 DEF EdgesSaid, Elems
      <3> DEFINE p == <<i, k>>
      <3>3. p \in Places(items) /\ p[1] = i /\ At(items, p) = items[i][k]
        BY PlacesAre DEF At
      <3>4. FactAt(items, p) \in Fact /\ e = EdgeAt(c, items, p)
        BY <3>2, <3>3 DEF FactAt, EdgeAt, EdgeTo
      <3> HIDE DEF p
      <3>5. QED
        BY <3>3, <3>4 DEF EdgesAt
    <2>3. QED
      BY <2>1, <2>2
  <1>3. {<<c, a>> : a \in 1 .. Len(items)} = EventsOf(c, items)
    BY DEF EventsOf, AllProper
  <1>4. QED
    BY <1>1, <1>2, <1>3

------------------------------------------------------------------------------
(* The history, as a value, and what one more call makes of it.             *)

Histories == Seq(Seq(Seq(Occurrence)))

EventsIn(h) == UNION {EventsOf(c, h[c]) : c \in DOMAIN h}

EdgesIn(h) == UNION {EdgesOf(c, h[c]) : c \in DOMAIN h}

SeenBy(h, f) == {ev \in EventsIn(h) : f \in FactsIn(h[ev[1]][ev[2]])}

SaidBy(h) == UNION {FactsIn(h[ev[1]][ev[2]]) : ev \in EventsIn(h)}

FirstBy(h, f, v) ==
    \E ev \in SeenBy(h, f) : /\ \A other \in SeenBy(h, f) \ {ev} : Before(ev, other)
                             /\ FirstIn(h[ev[1]][ev[2]], f, v)

NewBy(h, c) ==
    {f \in SaidBy(h) : (\E ev \in SeenBy(h, f) : ev[1] = c) /\ (\A ev \in SeenBy(h, f) : c <= ev[1])}

LEMMA HistoryIs ==
    /\ SaidEvents = EventsIn(said) /\ SaidEdges = EdgesIn(said) /\ Said = SaidBy(said)
    /\ \A f : SeenIn(f) = SeenBy(said, f)
    /\ \A f, v : FirstSeenAs(f, v) <=> FirstBy(said, f, v)
    /\ \A c : NewWith(c) = NewBy(said, c)
  <1>1. SaidEvents = EventsIn(said) /\ SaidEdges = EdgesIn(said)
    BY DEF SaidEvents, SaidEdges, EventsIn, EdgesIn
  <1>2. Said = SaidBy(said)
    BY <1>1, Zenon DEF Said, SaidBy
  <1>3. \A f : SeenIn(f) = SeenBy(said, f)
    BY <1>1, Zenon DEF SeenIn, SeenBy
  <1>4. \A f, v : FirstSeenAs(f, v) <=> FirstBy(said, f, v)
    BY <1>3, Zenon DEF FirstSeenAs, FirstBy
  <1>5. \A c : NewWith(c) = NewBy(said, c)
    BY <1>2, <1>3, Zenon DEF NewWith, NewBy
  <1>6. QED
    BY <1>1, <1>2, <1>3, <1>4, <1>5

\* The same after a step.
LEMMA HistoryWillBe ==
    /\ SaidEvents' = EventsIn(said') /\ SaidEdges' = EdgesIn(said') /\ Said' = SaidBy(said')
    /\ \A f : SeenIn(f)' = SeenBy(said', f)
    /\ \A f, v : FirstSeenAs(f, v)' <=> FirstBy(said', f, v)
    /\ \A c : NewWith(c)' = NewBy(said', c)
  <1>1. SaidEvents' = EventsIn(said') /\ SaidEdges' = EdgesIn(said')
    BY DEF SaidEvents, SaidEdges, EventsIn, EdgesIn
  <1>2. Said' = SaidBy(said')
    BY <1>1, Zenon DEF Said, SaidBy
  <1>3. \A f : SeenIn(f)' = SeenBy(said', f)
    BY <1>1, Zenon DEF SeenIn, SeenBy
  <1>4. \A f, v : FirstSeenAs(f, v)' <=> FirstBy(said', f, v)
    BY <1>3, Zenon DEF FirstSeenAs, FirstBy
  <1>5. \A c : NewWith(c)' = NewBy(said', c)
    BY <1>2, <1>3, Zenon DEF NewWith, NewBy
  <1>6. QED
    BY <1>1, <1>2, <1>3, <1>4, <1>5

LEMMA EventAt ==
    ASSUME NEW h \in Histories
    PROVE  /\ \A ev : ev \in EventsIn(h) =>
                 /\ ev = <<ev[1], ev[2]>> /\ ev \in Nat \X Nat /\ ev[2] # 0
                 /\ ev[1] \in DOMAIN h /\ ev[2] \in DOMAIN h[ev[1]]
                 /\ h[ev[1]][ev[2]] \in Seq(Occurrence)
           /\ \A c \in DOMAIN h : \A i \in DOMAIN h[c] : <<c, i>> \in EventsIn(h)
           /\ \A f : f \in SaidBy(h) <=> SeenBy(h, f) # {}
  <1>1. \A c \in DOMAIN h : /\ c \in Nat /\ h[c] \in Seq(Seq(Occurrence))
                            /\ \A i \in DOMAIN h[c] : i \in Nat /\ i # 0 /\ h[c][i] \in Seq(Occurrence)
    BY DEF Histories
  <1>2. ASSUME NEW ev \in EventsIn(h)
        PROVE  /\ ev = <<ev[1], ev[2]>> /\ ev \in Nat \X Nat /\ ev[2] # 0
               /\ ev[1] \in DOMAIN h /\ ev[2] \in DOMAIN h[ev[1]]
               /\ h[ev[1]][ev[2]] \in Seq(Occurrence)
    <2>1. PICK c \in DOMAIN h : ev \in EventsOf(c, h[c])
      BY <1>2 DEF EventsIn
    <2>2. PICK i \in DOMAIN h[c] : ev = <<c, i>>
      BY <2>1 DEF EventsOf
    <2>3. QED
      BY <1>1, <2>1, <2>2
  <1>3. \A c \in DOMAIN h : \A i \in DOMAIN h[c] : <<c, i>> \in EventsIn(h)
    BY DEF EventsIn, EventsOf
  <1>4. \A f : f \in SaidBy(h) <=> SeenBy(h, f) # {}
    BY DEF SaidBy, SeenBy
  <1>5. QED
    BY <1>2, <1>3, <1>4

\* Call c adds its items to history h, which is g then.
Adds(h, items, g, c) ==
    h \in Histories /\ AllProper(items) /\ g = Append(h, items) /\ c = Len(h) + 1

LEMMA CallAdded ==
    ASSUME NEW h, NEW items, NEW g, NEW c, Adds(h, items, g, c)
    PROVE  /\ h \in Histories /\ AllProper(items) /\ g \in Histories
           /\ DOMAIN g = DOMAIN h \cup {c} /\ c \notin DOMAIN h /\ g[c] = items
           /\ \A d \in DOMAIN h : g[d] = h[d] /\ d < c
  BY DEF Adds, Histories, AllProper

\* The events of the call that name a fact.
NewEvents(c, items, f) == {<<c, i>> : i \in {j \in DOMAIN items : f \in FactsIn(items[j])}}

LEMMA HistoryGrows ==
    ASSUME NEW h, NEW items, NEW g, NEW c, Adds(h, items, g, c)
    PROVE  /\ \A ev : ev \in EventsIn(g) <=> ev \in EventsIn(h) \/ ev \in EventsOf(c, items)
           /\ \A e : e \in EdgesIn(g) <=> e \in EdgesIn(h) \/ e \in EdgesOf(c, items)
           /\ \A f, ev : ev \in SeenBy(g, f) <=> ev \in SeenBy(h, f) \/ ev \in NewEvents(c, items, f)
           /\ \A f : f \in SaidBy(g) <=> f \in SaidBy(h) \/ f \in Named(items, Places(items))
  <1>1. /\ g \in Histories /\ DOMAIN g = DOMAIN h \cup {c} /\ c \notin DOMAIN h
        /\ g[c] = items /\ \A d \in DOMAIN h : g[d] = h[d] /\ d < c
    BY CallAdded
  <1>h. h \in Histories /\ AllProper(items)
    BY DEF Adds
  <1>2. \A ev : ev \in EventsIn(g) <=> ev \in EventsIn(h) \/ ev \in EventsOf(c, items)
    BY <1>1 DEF EventsIn
  <1>3. \A e : e \in EdgesIn(g) <=> e \in EdgesIn(h) \/ e \in EdgesOf(c, items)
    BY <1>1 DEF EdgesIn
  <1>4. ASSUME NEW f, NEW ev
        PROVE  ev \in SeenBy(g, f) <=> ev \in SeenBy(h, f) \/ ev \in NewEvents(c, items, f)
    <2>1. ASSUME ev \in EventsIn(h) PROVE ev \in SeenBy(g, f) <=> ev \in SeenBy(h, f)
      <3>1. ev[1] \in DOMAIN h
        BY <1>h, <2>1, EventAt
      <3>2. g[ev[1]][ev[2]] = h[ev[1]][ev[2]]
        BY <1>1, <3>1
      <3>3. QED
        BY <1>2, <2>1, <3>2 DEF SeenBy
    <2>2. ASSUME NEW i \in DOMAIN items, ev = <<c, i>>
          PROVE  ev \in SeenBy(g, f) <=> f \in FactsIn(items[i])
      <3>1. ev \in EventsIn(g) /\ g[ev[1]][ev[2]] = items[i]
        BY <1>1, <1>2, <2>2 DEF EventsOf
      <3>2. QED
        BY <3>1 DEF SeenBy
    <2>3. ev \in SeenBy(g, f) => ev \in EventsIn(h) \/ \E i \in DOMAIN items : ev = <<c, i>>
      BY <1>2 DEF SeenBy, EventsOf
    <2>4. ev \in SeenBy(h, f) => ev \in EventsIn(h)
      BY DEF SeenBy
    <2>5. ev \in EventsIn(h) => ~ \E i \in DOMAIN items : ev = <<c, i>>
      BY <1>1, <1>h, EventAt
    <2>6. ev \in NewEvents(c, items, f) <=> \E i \in DOMAIN items : ev = <<c, i>> /\ f \in FactsIn(items[i])
      BY DEF NewEvents
    <2>7. QED
      BY <2>1, <2>2, <2>3, <2>4, <2>5, <2>6
  <1>5. ASSUME NEW f
        PROVE  f \in SaidBy(g) <=> f \in SaidBy(h) \/ f \in Named(items, Places(items))
    <2>1. f \in SaidBy(g) <=> \E ev : ev \in SeenBy(g, f)
      BY <1>1, <1>h, EventAt
    <2>2. f \in SaidBy(h) <=> \E ev : ev \in SeenBy(h, f)
      BY <1>h, EventAt
    <2>3. f \in Named(items, Places(items)) <=> \E i \in DOMAIN items : f \in FactsIn(items[i])
      BY <1>h, NamedAre
    <2>4. (\E ev : ev \in NewEvents(c, items, f)) <=> \E i \in DOMAIN items : f \in FactsIn(items[i])
      BY DEF NewEvents
    <2>5. QED
      BY <1>4, <2>1, <2>2, <2>3, <2>4
  <1>6. QED
    BY <1>2, <1>3, <1>4, <1>5

\* Graph b is what history h says.
SaysOf(h, b) ==
    /\ b.events = EventsIn(h)
    /\ b.edges = EdgesIn(h)
    /\ \A f \in Fact : IF f \in SaidBy(h) THEN FirstBy(h, f, b.facts[f]) ELSE ~Knows(b, f)

LEMMA SeenGrows ==
    ASSUME NEW h, NEW items, NEW g, NEW c, Adds(h, items, g, c), NEW f
    PROVE  \A ev : ev \in SeenBy(g, f) <=> ev \in SeenBy(h, f) \/ ev \in NewEvents(c, items, f)
  BY HistoryGrows

LEMMA SeenIsOfHistory ==
    ASSUME NEW h \in Histories, NEW f, NEW ev \in SeenBy(h, f)
    PROVE  /\ ev \in EventsIn(h) /\ ev \in Nat \X Nat /\ ev = <<ev[1], ev[2]>> /\ ev[1] \in DOMAIN h
           /\ ev[2] \in DOMAIN h[ev[1]] /\ f \in FactsIn(h[ev[1]][ev[2]])
  BY EventAt DEF SeenBy

\* A spelling is a value.
LEMMA FirstIsValue ==
    ASSUME NEW h \in Histories, NEW f, NEW v, FirstBy(h, f, v)
    PROVE  v \in Value /\ Canonical[v] = f
  <1>1. PICK ev \in SeenBy(h, f) : FirstIn(h[ev[1]][ev[2]], f, v)
    BY DEF FirstBy
  <1>2. h[ev[1]][ev[2]] \in Seq(Occurrence)
    BY EventAt DEF SeenBy
  <1> DEFINE item == h[ev[1]][ev[2]]
  <1>3. PICK k \in DOMAIN item : Canonical[v] = f /\ item[k].value = v
    BY <1>1 DEF FirstIn
  <1>4. item[k] \in Occurrence
    BY <1>2
  <1>5. QED
    BY <1>3, <1>4 DEF Occurrence

LEMMA KnownIsSaid ==
    ASSUME NEW h \in Histories, NEW b \in Graph, SaysOf(h, b), NEW f \in Fact
    PROVE  Knows(b, f) <=> f \in SaidBy(h)
  <1>1. CASE f \in SaidBy(h)
    <2>1. FirstBy(h, f, b.facts[f])
      BY <1>1 DEF SaysOf
    <2>2. b.facts[f] \in Value
      BY <2>1, FirstIsValue
    <2>3. QED
      BY <1>1, <2>2, ValueNotMissing DEF Knows
  <1>2. CASE f \notin SaidBy(h)
    BY <1>2 DEF SaysOf
  <1>3. QED
    BY <1>1, <1>2

\* What was the first spelling stays it.
LEMMA FirstStays ==
    ASSUME NEW h, NEW items, NEW g, NEW c, Adds(h, items, g, c), NEW f, NEW v, FirstBy(h, f, v)
    PROVE  FirstBy(g, f, v)
  <1>h. h \in Histories
    BY DEF Adds
  <1>1. PICK ev \in SeenBy(h, f) : /\ \A other \in SeenBy(h, f) \ {ev} : Before(ev, other)
                                   /\ FirstIn(h[ev[1]][ev[2]], f, v)
    BY DEF FirstBy
  <1>2. /\ \A d \in DOMAIN h : g[d] = h[d] /\ d < c
        /\ \A x : x \in SeenBy(g, f) <=> x \in SeenBy(h, f) \/ x \in NewEvents(c, items, f)
    BY CallAdded, SeenGrows
  <1>3. ev[1] \in DOMAIN h
    BY <1>h, SeenIsOfHistory
  <1>4. ASSUME NEW other \in SeenBy(g, f) \ {ev} PROVE Before(ev, other)
    <2>1. CASE other \in SeenBy(h, f)
      BY <1>1, <2>1
    <2>2. CASE other \in NewEvents(c, items, f)
      <3>1. other[1] = c /\ ev[1] < c
        BY <1>2, <1>3, <2>2 DEF NewEvents
      <3>2. QED
        BY <3>1 DEF Before
    <2>3. QED
      BY <1>2, <2>1, <2>2
  <1>5. FirstIn(g[ev[1]][ev[2]], f, v) /\ ev \in SeenBy(g, f)
    BY <1>1, <1>2, <1>3
  <1>6. QED
    BY <1>4, <1>5 DEF FirstBy

LEMMA AddedIs ==
    ASSUME NEW h, NEW items, NEW g, NEW c, Adds(h, items, g, c)
    PROVE  g[c] = items
  BY CallAdded

\* The first spelling of a fact that the call was the first to name.
LEMMA FirstIsNew ==
    ASSUME NEW h, NEW items, NEW g, NEW c, Adds(h, items, g, c), NEW f, f \notin SaidBy(h), f \in Fact,
           NEW p \in Places(items), FirstAt(items, Places(items), f, p)
    PROVE  FirstBy(g, f, At(items, p).value)
  <1> DEFINE ev == <<c, p[1]>>
             item == items[p[1]]
  <1>1. /\ p[1] \in DOMAIN items /\ p[2] \in DOMAIN item /\ p \in Nat \X Nat
        /\ Canonical[item[p[2]].value] = f /\ At(items, p) = item[p[2]]
    BY PlacesAre DEF FirstAt, FactAt, At, Adds
  <1>2. /\ g[c] = items
        /\ \A x : x \in SeenBy(g, f) <=> x \in SeenBy(h, f) \/ x \in NewEvents(c, items, f)
    <2>1. g[c] = items
      BY AddedIs
    <2>2. \A x : x \in SeenBy(g, f) <=> x \in SeenBy(h, f) \/ x \in NewEvents(c, items, f)
      BY SeenGrows
    <2>3. QED
      BY <2>1, <2>2
  <1>h. h \in Histories /\ AllProper(items)
    BY DEF Adds
  <1>3. SeenBy(h, f) = {}
    BY <1>h, EventAt
  <1>4. \A i \in DOMAIN items : f \in FactsIn(items[i]) <=>
           \E k \in DOMAIN items[i] : Canonical[items[i][k].value] = f
    BY DEF FactsIn, ToSet
  <1>5. ASSUME NEW i \in DOMAIN items, NEW k \in DOMAIN items[i], Canonical[items[i][k].value] = f
        PROVE  /\ i \in Nat /\ k \in Nat
               /\ p[1] < i \/ (p[1] = i /\ p[2] <= k)
    <2>1. <<i, k>> \in Places(items) /\ i \in Nat /\ k \in Nat
      BY <1>h, PlacesAre
    <2>2. FactAt(items, <<i, k>>) = f
      BY <1>5 DEF FactAt, At
    <2>3. <<i, k>> = p \/ Before(p, <<i, k>>)
      BY <2>1, <2>2 DEF FirstAt
    <2>4. QED
      BY <1>1, <2>1, <2>3 DEF Before
  <1>6. ev \in SeenBy(g, f)
    <2>1. ev \in NewEvents(c, items, f)
      BY <1>1, <1>4 DEF NewEvents
    <2>2. QED
      BY <1>2, <2>1
  <1>7. ASSUME NEW other \in SeenBy(g, f) \ {ev} PROVE Before(ev, other)
    <2>1. PICK i \in DOMAIN items : other = <<c, i>> /\ f \in FactsIn(items[i])
      BY <1>2, <1>3 DEF NewEvents
    <2>2. PICK k \in DOMAIN items[i] : Canonical[items[i][k].value] = f
      BY <1>4, <2>1
    <2>3. p[1] < i \/ p[1] = i
      BY <1>5, <2>2
    <2>4. i # p[1]
      BY <2>1
    <2>5. QED
      BY <2>1, <2>3, <2>4 DEF Before
  <1>8. FirstIn(g[ev[1]][ev[2]], f, At(items, p).value)
    <2>1. g[ev[1]][ev[2]] = item
      BY <1>2
    <2>2. \A j \in DOMAIN item : Canonical[item[j].value] = f => p[2] <= j
      BY <1>1, <1>5
    <2>3. QED
      BY <1>1, <2>1, <2>2 DEF FirstIn
  <1>9. QED
    BY <1>6, <1>7, <1>8 DEF FirstBy

\* The graph after one more call is what the history with it says.
LEMMA SaysStays ==
    ASSUME NEW h, NEW items, NEW g, NEW c, Adds(h, items, g, c), NEW b \in Graph, SaysOf(h, b),
           NEW d, GraphSo(b, d, c, items, Places(items), Len(items))
    PROVE  SaysOf(g, d)
  <1> DEFINE D == Places(items)
  <1>1. /\ \A ev : ev \in EventsIn(g) <=> ev \in EventsIn(h) \/ ev \in EventsOf(c, items)
        /\ \A e : e \in EdgesIn(g) <=> e \in EdgesIn(h) \/ e \in EdgesOf(c, items)
        /\ \A f : f \in SaidBy(g) <=> f \in SaidBy(h) \/ f \in Named(items, D)
    BY HistoryGrows
  <1>h. h \in Histories /\ AllProper(items)
    BY DEF Adds
  <1>2. EdgesAt(c, items, D) = EdgesOf(c, items) /\ {<<c, a>> : a \in 1 .. Len(items)} = EventsOf(c, items)
    BY <1>h, NamedAre
  <1> HIDE DEF D
  <1>3. d.events = EventsIn(g)
    <2>1. d.events = b.events \cup EventsOf(c, items)
      BY <1>2, Zenon DEF GraphSo, D
    <2>2. QED
      BY <1>1, <2>1 DEF SaysOf
  <1>4. d.edges = EdgesIn(g)
    <2>1. d.edges = b.edges \cup EdgesOf(c, items)
      BY <1>2, Zenon DEF GraphSo, D
    <2>2. QED
      BY <1>1, <2>1 DEF SaysOf
  <1>5. ASSUME NEW f \in Fact PROVE IF f \in SaidBy(g) THEN FirstBy(g, f, d.facts[f]) ELSE ~Knows(d, f)
    <2>1. CASE f \in SaidBy(h)
      <3>1. FirstBy(h, f, b.facts[f])
        BY <2>1 DEF SaysOf
      <3>2. Knows(b, f)
        BY <1>h, <2>1, KnownIsSaid
      <3>3. d.facts[f] = b.facts[f]
        BY <3>2 DEF GraphSo
      <3>4. FirstBy(g, f, b.facts[f])
        BY <3>1, FirstStays
      <3>5. QED
        BY <1>1, <2>1, <3>3, <3>4
    <2>2. CASE f \notin SaidBy(h) /\ f \in Named(items, D)
      <3>1. ~Knows(b, f)
        BY <1>h, <2>2, KnownIsSaid
      <3>2. PICK p \in D : FirstAt(items, D, f, p) /\ At(items, p).value = d.facts[f]
        BY <2>2, <3>1 DEF GraphSo, D
      <3>3. FirstBy(g, f, At(items, p).value)
        BY <2>2, <3>2, FirstIsNew DEF D
      <3>4. QED
        BY <1>1, <2>2, <3>2, <3>3
    <2>3. CASE f \notin SaidBy(h) /\ f \notin Named(items, D)
      <3>1. ~Knows(b, f)
        BY <1>h, <2>3, KnownIsSaid
      <3>2. ~Knows(d, f)
        BY <2>3, <3>1 DEF GraphSo, D
      <3>3. QED
        BY <1>1, <2>3, <3>2
    <2>4. QED
      BY <2>1, <2>2, <2>3
  <1>6. QED
    BY <1>3, <1>4, <1>5 DEF SaysOf

\* The counts of record r of call k add up, in history h.
AddsUp(h, r, k) ==
    LET before == NamedIn(h[k]) \ NewBy(h, k) IN
    /\ r.new = Cardinality(NewBy(h, k))
    /\ r.edges = Cardinality(Naming(h[k]))
    /\ r.new + r.linked <= r.edges
    /\ Cardinality(before) <= r.linked
    /\ NamesOnce(h[k], NewBy(h, k)) => r.linked = Cardinality(before)

LEMMA NewStays ==
    ASSUME NEW h, NEW items, NEW g, NEW c, Adds(h, items, g, c), NEW k \in DOMAIN h
    PROVE  NewBy(g, k) = NewBy(h, k)
  <1>1. /\ \A f, ev : ev \in SeenBy(g, f) <=> ev \in SeenBy(h, f) \/ ev \in NewEvents(c, items, f)
        /\ \A f : f \in SaidBy(g) <=> f \in SaidBy(h) \/ f \in Named(items, Places(items))
    BY HistoryGrows
  <1>2. h \in Histories /\ k < c /\ k # c /\ k \in Nat /\ c \in Nat
    BY CallAdded DEF Adds, Histories
  <1>3. \A f, ev : ev \in NewEvents(c, items, f) => ev[1] = c
    BY DEF NewEvents
  <1>4. ASSUME NEW f
        PROVE  f \in NewBy(g, k) <=> f \in NewBy(h, k)
    <2>1. (\E ev \in SeenBy(g, f) : ev[1] = k) <=> \E ev \in SeenBy(h, f) : ev[1] = k
      BY <1>1, <1>2, <1>3
    <2>2. (\A ev \in SeenBy(g, f) : k <= ev[1]) <=> \A ev \in SeenBy(h, f) : k <= ev[1]
      <3>1. k <= c
        BY <1>2
      <3>2. QED
        BY <1>1, <1>3, <3>1
    <2>3. (\E ev \in SeenBy(h, f) : ev[1] = k) => f \in SaidBy(h) /\ f \in SaidBy(g)
      BY <1>1, <1>2, EventAt
    <2>4. QED
      BY <2>1, <2>2, <2>3 DEF NewBy
  <1>5. QED
    BY <1>4

LEMMA NewIsFresh ==
    ASSUME NEW h, NEW items, NEW g, NEW c, Adds(h, items, g, c), NEW b \in Graph, SaysOf(h, b)
    PROVE  NewBy(g, c) = Fresh(b, items, Places(items))
  <1>1. /\ \A f, ev : ev \in SeenBy(g, f) <=> ev \in SeenBy(h, f) \/ ev \in NewEvents(c, items, f)
        /\ \A f : f \in SaidBy(g) <=> f \in SaidBy(h) \/ f \in Named(items, Places(items))
    BY HistoryGrows
  <1>2. /\ h \in Histories /\ AllProper(items) /\ c \in Nat
        /\ \A k \in DOMAIN h : k < c /\ k \in Nat
    BY CallAdded DEF Adds, Histories
  <1>3. \A f, ev : ev \in NewEvents(c, items, f) => ev[1] = c
    BY DEF NewEvents
  <1>4. ASSUME NEW f, NEW ev \in SeenBy(h, f) PROVE ev[1] # c /\ ~ (c <= ev[1])
    <2>1. ev[1] \in DOMAIN h
      BY <1>2, SeenIsOfHistory
    <2>2. QED
      BY <1>2, <2>1
  <1>5. ASSUME NEW f
        PROVE  f \in NewBy(g, c) <=> f \in Fresh(b, items, Places(items))
    <2>1. f \in Named(items, Places(items)) <=> \E ev : ev \in NewEvents(c, items, f)
      <3>1. f \in Named(items, Places(items)) <=> \E i \in DOMAIN items : f \in FactsIn(items[i])
        BY <1>2, NamedAre
      <3>2. QED
        BY <3>1 DEF NewEvents
    <2>2. f \in SaidBy(h) <=> SeenBy(h, f) # {}
      BY <1>2, EventAt
    <2>3. f \in Named(items, Places(items)) => f \in Fact /\ (Knows(b, f) <=> f \in SaidBy(h))
      BY <1>2, KnownIsSaid DEF Named
    <2>4. f \in NewBy(g, c) => /\ \E ev : ev \in NewEvents(c, items, f)
                               /\ SeenBy(h, f) = {}
      BY <1>1, <1>4 DEF NewBy
    <2>5. ASSUME f \in Named(items, Places(items)), SeenBy(h, f) = {} PROVE f \in NewBy(g, c)
      <3>1. f \in SaidBy(g)
        BY <1>1, <2>5
      <3>2. PICK ev : ev \in NewEvents(c, items, f)
        BY <2>1, <2>5
      <3>3. ev \in SeenBy(g, f) /\ ev[1] = c
        BY <1>1, <1>3, <3>2
      <3>4. \A x \in SeenBy(g, f) : c <= x[1]
        BY <1>1, <1>2, <1>3, <2>5
      <3>5. QED
        BY <3>1, <3>3, <3>4 DEF NewBy
    <2>6. QED
      BY <2>1, <2>2, <2>3, <2>4, <2>5 DEF Fresh
  <1>6. QED
    BY <1>5

\* The counts of an earlier call go on adding up, and those of this one do.
LEMMA AddsUpStays ==
    ASSUME NEW h, NEW items, NEW g, NEW c, Adds(h, items, g, c), NEW k \in DOMAIN h,
           NEW r, AddsUp(h, r, k)
    PROVE  AddsUp(g, r, k)
  <1>1. NewBy(g, k) = NewBy(h, k)
    BY NewStays
  <1>2. g[k] = h[k]
    <2>1. \A d \in DOMAIN h : g[d] = h[d] /\ d < c
      BY CallAdded, Zenon
    <2>2. QED
      BY <2>1
  <1>3. QED
    BY <1>1, <1>2, Zenon DEF AddsUp

\* What the call named, by its places.
LEMMA NamingIs ==
    ASSUME NEW items, AllProper(items)
    PROVE  /\ Naming(items) = NamingAt(items, Places(items))
           /\ NamedIn(items) = Named(items, Places(items))
  <1>1. ASSUME NEW p PROVE p \in PlacesIn(items) <=> p \in Places(items)
    <2>1. ASSUME p \in PlacesIn(items) PROVE p \in Places(items)
      <3>1. PICK i \in DOMAIN items : p \in {<<i, k>> : k \in DOMAIN items[i]}
        BY <2>1 DEF PlacesIn
      <3>2. PICK k \in DOMAIN items[i] : p = <<i, k>>
        BY <3>1
      <3>3. QED
        BY <3>2, PlacesAre
    <2>2. ASSUME p \in Places(items) PROVE p \in PlacesIn(items)
      <3>1. p[1] \in DOMAIN items /\ p[2] \in DOMAIN items[p[1]]
        BY <2>2, PlacesAre
      <3>2. p = <<p[1], p[2]>>
        BY <2>2 DEF Places, Done
      <3>3. p \in {<<p[1], k>> : k \in DOMAIN items[p[1]]}
        BY <3>1, <3>2
      <3>4. QED
        BY <3>1, <3>3 DEF PlacesIn
    <2>3. QED
      BY <2>1, <2>2
  <1>2. Naming(items) = NamingAt(items, Places(items))
    BY <1>1 DEF Naming, NamingAt
  <1>3. \A f : f \in NamedIn(items) <=> f \in Named(items, Places(items))
    BY NamedAre DEF NamedIn
  <1>4. QED
    BY <1>2, <1>3

LEMMA AddsUpNow ==
    ASSUME NEW h, NEW items, NEW g, NEW c, Adds(h, items, g, c), NEW b \in Graph, SaysOf(h, b),
           NEW s, AfterSo(s, b, c, items, Places(items), Len(items))
    PROVE  AddsUp(g, s, c) /\ s.new \in Nat /\ s.linked \in Nat /\ s.edges \in Nat
  <1> DEFINE D == Places(items)
             i == Len(items) + 1
             q == [s EXCEPT !.linked = {}]
  <1>1. AllProper(items) /\ g[c] = items
    BY CallAdded DEF Adds
  <1>2. q.new = s.new /\ q.linked = {} /\ q.edges = s.edges
    BY DEF AfterSo, IsProgress
  <1>3. s.linked \in Nat /\ CountsSo(q, s.linked, b, items, D, i)
    BY DEF AfterSo
  <1> HIDE DEF q, i, D
  <1>4. s.linked + Cardinality({}) = s.linked
    BY <1>3, FS_EmptySet
  <1>5. /\ IsFiniteSet(Named(items, D)) /\ IsFiniteSet(NamingAt(items, D))
        /\ s.new = Cardinality(Fresh(b, items, D))
        /\ s.edges = Cardinality(NamingAt(items, D))
        /\ Cardinality(Old(b, items, D)) <= s.linked + Cardinality({})
        /\ OnceIn(b, items, D) => s.linked + Cardinality({}) = Cardinality(Old(b, items, D))
    BY <1>2, <1>3 DEF CountsSo
  <1>6. s.new \in Nat /\ s.edges \in Nat
    <2>1. Fresh(b, items, D) \in SUBSET Named(items, D)
      BY DEF Fresh
    <2>2. IsFiniteSet(Fresh(b, items, D))
      BY <1>5, <2>1, FS_Subset
    <2>3. QED
      BY <1>5, <2>2, FS_CardinalityType
  <1>7. s.new + s.linked <= s.edges
    <2>1. s.new + s.linked + Cardinality({}) <= s.edges
      BY <1>2, <1>3 DEF CountsSo
    <2>2. Cardinality({}) = 0
      BY FS_EmptySet
    <2>3. QED
      BY <1>3, <1>6, <2>1, <2>2
  <1>8. NewBy(g, c) = Fresh(b, items, D)
    BY NewIsFresh DEF D
  <1>9. Naming(items) = NamingAt(items, D) /\ NamedIn(items) = Named(items, D)
    BY <1>1, NamingIs DEF D
  <1>10. NamedIn(items) \ NewBy(g, c) = Old(b, items, D)
    BY <1>8, <1>9 DEF Fresh, Old
  <1>11. NamesOnce(items, NewBy(g, c)) => OnceIn(b, items, D)
    <2>1. \A p \in NamingAt(items, D) :
             FactAt(items, p) \notin Fresh(b, items, D) => Knows(b, FactAt(items, p))
      BY DEF NamingAt, Named, Fresh
    <2>2. QED
      BY <1>8, <1>9, <2>1 DEF NamesOnce, OnceIn
  <1>12. AddsUp(g, s, c)
    BY <1>1, <1>4, <1>5, <1>7, <1>8, <1>9, <1>10, <1>11 DEF AddsUp
  <1>13. QED
    BY <1>3, <1>6, <1>12

------------------------------------------------------------------------------
(* The invariant.                                                           *)

LEMMA LoadedIs ==
    ASSUME graph \in Graph
    PROVE  /\ Loaded \in Graph /\ Loaded.events = graph.events /\ Loaded.edges = graph.edges
           /\ Loaded.facts = graph.facts
           /\ \A f : Knows(Loaded, f) <=> Knows(graph, f)
           /\ \A f : SourceEvents(Loaded, f) = SourceEvents(graph, f)
  <1>1. /\ Loaded \in Graph /\ Loaded.events = graph.events /\ Loaded.edges = graph.edges
        /\ Loaded.facts = graph.facts
    BY DEF Loaded, Graph
  <1>2. \A f : Knows(Loaded, f) <=> Knows(graph, f)
    BY <1>1, Zenon DEF Knows
  <1>3. \A f : SourceEvents(Loaded, f) = SourceEvents(graph, f)
    BY <1>1, Zenon DEF SourceEvents
  <1>4. QED
    BY <1>1, <1>2, <1>3

\* Call ThisCall has returned items, and ended with the graph and the counts of s
\* where graph b was loaded.
Ended(t, items, summary, s, b) ==
    /\ t \in Tool /\ summary \in Summary /\ AllProper(items)
    /\ b \in Graph /\ SaysOf(said, b)
    /\ AfterSo(s, b, ThisCall, items, Places(items), Len(items))
    /\ Recorded(t, items, FirstEvent(ThisCall, items), summary, s)
    /\ graph' = s.graph
    /\ summary # "ok" => items = <<>>
    /\ summary = "duplicate" => \E k \in DOMAIN log : log[k].tool = t /\ log[k].summary = "ok"

LEMMA GraphSaysSo ==
    ASSUME Inv
    PROVE  SaysOf(said, graph) /\ said \in Histories /\ graph \in Graph
  <1>1. graph.events = EventsIn(said) /\ graph.edges = EdgesIn(said) /\ Said = SaidBy(said)
    BY HistoryIs DEF Inv, GraphIsSaid
  <1>2. \A f \in Fact : IF f \in SaidBy(said) THEN FirstBy(said, f, graph.facts[f])
                        ELSE ~Knows(graph, f)
    BY <1>1, HistoryIs DEF Inv, GraphIsSaid
  <1>3. QED
    BY <1>1, <1>2 DEF SaysOf, Inv, TypeOK, Histories

LEMMA EndAdds ==
    ASSUME Inv, NEW t, NEW items, NEW summary, NEW s, NEW b, Ended(t, items, summary, s, b)
    PROVE  /\ Adds(said, items, said', ThisCall) /\ SaysOf(said', graph') /\ graph' \in Graph
           /\ AddsUp(said', s, ThisCall)
           /\ s.new \in Nat /\ s.linked \in Nat /\ s.edges \in Nat
  <1>1. Adds(said, items, said', ThisCall)
    BY DEF Adds, Ended, Recorded, ThisCall, Inv, TypeOK, Histories
  <1>2. GraphSo(b, s.graph, ThisCall, items, Places(items), Len(items)) /\ s.graph \in Graph
    BY DEF Ended, AfterSo, GraphSo
  <1>3. b \in Graph /\ SaysOf(said, b)
    BY DEF Ended
  <1>4. SaysOf(said', s.graph)
    BY <1>1, <1>2, <1>3, SaysStays
  <1>5. AfterSo(s, b, ThisCall, items, Places(items), Len(items))
    BY DEF Ended
  <1>6. /\ AddsUp(said', s, ThisCall)
        /\ s.new \in Nat /\ s.linked \in Nat /\ s.edges \in Nat
    BY <1>1, <1>3, <1>5, AddsUpNow
  <1>7. graph' = s.graph
    BY DEF Ended
  <1>8. QED
    BY <1>1, <1>2, <1>4, <1>6, <1>7

\* What the record of the call is.
LEMMA EndRecord ==
    ASSUME Inv, NEW t, NEW items, NEW summary, NEW s, NEW b, Ended(t, items, summary, s, b)
    PROVE  /\ log' \in Seq(Record) /\ Len(log') = ThisCall /\ Len(said') = ThisCall
           /\ DOMAIN log = 1 .. Len(log) /\ DOMAIN log' = DOMAIN log \cup {ThisCall}
           /\ DOMAIN said = DOMAIN log /\ DOMAIN said' = DOMAIN log'
           /\ ThisCall \in Nat /\ ThisCall \notin DOMAIN log /\ ThisCall \in Call
           /\ \A k \in DOMAIN log : log'[k] = log[k] /\ k < ThisCall /\ said'[k] = said[k]
           /\ said'[ThisCall] = items
           /\ log'[ThisCall] = [tool |-> t, event |-> FirstEvent(ThisCall, items), summary |-> summary,
                                new |-> s.new, linked |-> s.linked, edges |-> s.edges]
  <1> DEFINE r == [tool |-> t, event |-> FirstEvent(ThisCall, items), summary |-> summary,
                   new |-> s.new, linked |-> s.linked, edges |-> s.edges]
             H == Seq(Seq(Occurrence))
  <1>1. log' = Append(log, r) /\ said' = Append(said, items) /\ ThisCall \in Call
    BY DEF Ended, Recorded
  <1>2. r \in Record
    <2>1. FirstEvent(ThisCall, items) \in EventId \cup {None}
      BY <1>1 DEF FirstEvent, EventId
    <2>2. s.new \in Nat /\ s.linked \in Nat /\ s.edges \in Nat
      BY EndAdds
    <2>3. QED
      BY <2>1, <2>2 DEF Record, Ended
  <1>3. /\ log \in Seq(Record) /\ said \in Seq(H) /\ Len(said) = Len(log) /\ items \in H
    BY DEF Inv, TypeOK, Ended, AllProper
  <1> HIDE DEF r, H
  <1>4. /\ log' \in Seq(Record) /\ DOMAIN log' = DOMAIN log \cup {Len(log) + 1}
        /\ \A k \in DOMAIN log : log'[k] = log[k] /\ k <= Len(log) /\ k \in Nat
        /\ log'[Len(log) + 1] = r /\ Len(log) \in Nat
    BY <1>1, <1>2, <1>3, AppendAt
  <1>5. /\ said' \in Seq(H) /\ DOMAIN said' = DOMAIN said \cup {Len(said) + 1}
        /\ \A k \in DOMAIN said : said'[k] = said[k]
        /\ said'[Len(said) + 1] = items
    BY <1>1, <1>3, AppendAt
  <1>6. DOMAIN log = 1 .. Len(log) /\ DOMAIN said = DOMAIN log
    BY <1>3
  <1>7. Len(log') = Len(log) + 1 /\ Len(said') = Len(said) + 1
    BY <1>1, <1>2, <1>3
  <1>8. QED
    BY <1>1, <1>3, <1>4, <1>5, <1>6, <1>7 DEF ThisCall, r

LEMMA EndKeeps ==
    ASSUME Inv, NEW t, NEW items, NEW summary, NEW s, NEW b, Ended(t, items, summary, s, b)
    PROVE  GraphIsSaid' /\ LogIsSaid' /\ CountsAddUp'
  <1> DEFINE c == ThisCall
  <1>1. /\ Adds(said, items, said', c) /\ SaysOf(said', graph') /\ graph' \in Graph
        /\ AddsUp(said', s, c)
    BY EndAdds
  <1>2. /\ DOMAIN log' = DOMAIN log \cup {c} /\ DOMAIN said = DOMAIN log /\ DOMAIN said' = DOMAIN log'
        /\ c \in Nat /\ c \notin DOMAIN log
        /\ \A k \in DOMAIN log : log'[k] = log[k] /\ k < c /\ said'[k] = said[k]
        /\ said'[c] = items
        /\ log'[c] = [tool |-> t, event |-> FirstEvent(c, items), summary |-> summary,
                      new |-> s.new, linked |-> s.linked, edges |-> s.edges]
    <2>1. /\ DOMAIN log' = DOMAIN log \cup {ThisCall} /\ DOMAIN said = DOMAIN log
          /\ DOMAIN said' = DOMAIN log' /\ ThisCall \in Nat /\ ThisCall \notin DOMAIN log
      BY EndRecord
    <2>2. /\ \A k \in DOMAIN log : log'[k] = log[k] /\ k < ThisCall /\ said'[k] = said[k]
          /\ said'[ThisCall] = items
      BY EndRecord
    <2>3. log'[ThisCall] = [tool |-> t, event |-> FirstEvent(ThisCall, items), summary |-> summary,
                            new |-> s.new, linked |-> s.linked, edges |-> s.edges]
      BY EndRecord
    <2>4. QED
      BY <2>1, <2>2, <2>3
  <1> HIDE DEF c
  <1>3. GraphIsSaid'
    <2>1. graph'.events = SaidEvents' /\ graph'.edges = SaidEdges'
      BY <1>1, HistoryWillBe DEF SaysOf
    <2>2. \A f \in Fact : IF f \in Said' THEN FirstBy(said', f, graph'.facts[f]) ELSE ~Knows(graph', f)
      BY <1>1, HistoryWillBe DEF SaysOf
    <2>3. \A f, v : FirstSeenAs(f, v)' <=> FirstBy(said', f, v)
      BY HistoryWillBe
    <2>4. \A f \in Fact : (IF f \in Said THEN FirstSeenAs(f, graph.facts[f]) ELSE ~Knows(graph, f))'
      <3> SUFFICES ASSUME NEW f \in Fact
                   PROVE  IF f \in Said' THEN FirstSeenAs(f, graph.facts[f])' ELSE ~Knows(graph', f)
        BY DEF Knows
      <3>1. FirstSeenAs(f, graph.facts[f])' <=> FirstBy(said', f, graph'.facts[f])
        BY HistoryWillBe DEF FirstSeenAs, FirstBy
      <3>2. QED
        BY <2>2, <3>1
    <2>5. QED
      BY <2>1, <2>4 DEF GraphIsSaid
  <1>4. LogIsSaid'
    <2>1. ASSUME NEW k \in DOMAIN log
          PROVE  /\ log'[k].event = FirstEvent(k, said'[k])
                 /\ log'[k].summary # "ok" => said'[k] = <<>>
                 /\ log'[k].summary = "duplicate" =>
                       \E j \in DOMAIN log' : /\ j < k /\ log'[j].tool = log'[k].tool
                                              /\ log'[j].summary = "ok"
      BY <1>2 DEF Inv, LogIsSaid
    <2>2. /\ log'[c].event = FirstEvent(c, said'[c])
          /\ log'[c].summary # "ok" => said'[c] = <<>>
          /\ log'[c].summary = "duplicate" =>
                \E j \in DOMAIN log' : j < c /\ log'[j].tool = log'[c].tool /\ log'[j].summary = "ok"
      BY <1>2 DEF Ended
    <2>3. QED
      BY <1>2, <2>1, <2>2 DEF LogIsSaid, FirstEvent
  <1>5. CountsAddUp'
    <2>1. \A k \in DOMAIN log : AddsUp(said, log[k], k)
      BY HistoryIs, Zenon DEF Inv, CountsAddUp, AddsUp
    <2>2. \A k \in DOMAIN log : AddsUp(said', log[k], k)
      BY <1>1, <1>2, <2>1, AddsUpStays
    <2>3. AddsUp(said', log'[c], c)
      BY <1>1, <1>2 DEF AddsUp
    <2>4. \A k \in DOMAIN log' : AddsUp(said', log'[k], k)
      BY <1>2, <2>2, <2>3
    <2>5. QED
      BY <2>4, HistoryWillBe, Zenon DEF CountsAddUp, AddsUp
  <1>6. QED
    BY <1>3, <1>4, <1>5

LEMMA EndTypes ==
    ASSUME Inv, NEW t, NEW items, NEW summary, NEW s, NEW b, Ended(t, items, summary, s, b),
           DOMAIN raws' \subseteq EventId
    PROVE  TypeOK'
  <1>1. graph' \in Graph /\ Adds(said, items, said', ThisCall)
    BY EndAdds
  <1>2. said' \in Histories
    BY <1>1, CallAdded
  <1>3. log' \in Seq(Record) /\ Len(log') = ThisCall /\ Len(said') = ThisCall
    BY EndRecord
  <1>4. DOMAIN said' \subseteq Call
    <2>1. /\ DOMAIN log' = DOMAIN log \cup {ThisCall} /\ DOMAIN said' = DOMAIN log'
          /\ DOMAIN said = DOMAIN log /\ ThisCall \in Call
      BY EndRecord
    <2>2. DOMAIN said \subseteq Call
      BY DEF Inv, TypeOK
    <2>3. QED
      BY <2>1, <2>2
  <1>5. QED
    BY <1>1, <1>2, <1>3, <1>4 DEF TypeOK, Histories

LEMMA RawsAre ==
    ASSUME Inv
    PROVE  \A ev \in DOMAIN raws : raws[ev] = said[ev[1]]
  <1>1. ASSUME NEW ev \in DOMAIN raws PROVE raws[ev] = said[ev[1]]
    <2>1. ev \in SaidEvents /\ log[ev[1]].tool \in StoreRaw /\ ev \in graph.events
      BY <1>1 DEF Inv, RawsAreSaid, GraphIsSaid
    <2>2. GetEvidence(ev) = said[ev[1]]
      BY <2>1 DEF Inv, RawsAreSaid
    <2>3. QED
      BY <2>1, <2>2 DEF GetEvidence
  <1>2. QED
    BY <1>1

LEMMA EndRaws ==
    ASSUME Inv, NEW t, NEW items, NEW summary, NEW s, NEW b, Ended(t, items, summary, s, b),
           DOMAIN raws' = DOMAIN raws \cup IF t \in StoreRaw THEN EventsOf(ThisCall, items) ELSE {},
           \A ev \in DOMAIN raws : ev[1] # ThisCall => raws'[ev] = raws[ev],
           \A ev \in DOMAIN raws' : ev[1] = ThisCall => raws'[ev] = items
    PROVE  RawsAreSaid' /\ DOMAIN raws' \subseteq EventId
  <1>1. Adds(said, items, said', ThisCall)
    BY EndAdds
  <1>2. \A ev : ev \in EventsIn(said') <=> ev \in EventsIn(said) \/ ev \in EventsOf(ThisCall, items)
    BY <1>1, HistoryGrows
  <1>3. SaidEvents = EventsIn(said) /\ SaidEvents' = EventsIn(said')
    BY HistoryIs, HistoryWillBe
  <1>4. \A ev \in EventsIn(said) : ev[1] \in DOMAIN said
    BY <1>1, CallAdded, EventAt
  <1>5. \A ev \in EventsOf(ThisCall, items) : ev[1] = ThisCall
    BY DEF EventsOf
  <1>6. /\ DOMAIN said = DOMAIN log /\ ThisCall \notin DOMAIN log
        /\ \A k \in DOMAIN log : log'[k] = log[k] /\ said'[k] = said[k]
        /\ said'[ThisCall] = items
    BY EndRecord
  <1>7. log'[ThisCall].tool = t
    <2>1. log'[ThisCall] = [tool |-> t, event |-> FirstEvent(ThisCall, items), summary |-> summary,
                            new |-> s.new, linked |-> s.linked, edges |-> s.edges]
      BY EndRecord
    <2>2. QED
      BY <2>1
  <1>8. /\ \A ev : ev \in DOMAIN raws <=> ev \in EventsIn(said) /\ log[ev[1]].tool \in StoreRaw
        /\ \A ev \in DOMAIN raws : raws[ev] = said[ev[1]]
    BY <1>3, RawsAre DEF Inv, RawsAreSaid
  <1>9. ASSUME NEW ev
        PROVE  ev \in DOMAIN raws' <=> ev \in EventsIn(said') /\ log'[ev[1]].tool \in StoreRaw
    <2>1. CASE ev \in EventsIn(said)
      <3>1. ev[1] \in DOMAIN log /\ ev \in EventsIn(said') /\ ev \notin EventsOf(ThisCall, items)
        BY <1>2, <1>4, <1>5, <1>6, <2>1
      <3>2. QED
        BY <1>6, <1>8, <2>1, <3>1
    <2>2. CASE ev \in EventsOf(ThisCall, items) /\ ev \notin EventsIn(said)
      BY <1>2, <1>5, <1>7, <1>8, <2>2
    <2>3. CASE ev \notin EventsOf(ThisCall, items) /\ ev \notin EventsIn(said)
      BY <1>2, <1>8, <2>3
    <2>4. QED
      BY <2>1, <2>2, <2>3
  <1>10. ASSUME NEW ev \in DOMAIN raws' PROVE raws'[ev] = said'[ev[1]]
    <2>1. CASE ev \in DOMAIN raws
      <3>1. ev[1] \in DOMAIN log /\ raws[ev] = said[ev[1]]
        BY <1>4, <1>6, <1>8, <2>1
      <3>2. ev[1] # ThisCall
        BY <1>6, <3>1
      <3>3. QED
        BY <1>6, <2>1, <3>1, <3>2
    <2>2. CASE ev \notin DOMAIN raws
      <3>1. ev[1] = ThisCall
        BY <1>5, <1>10, <2>2
      <3>2. QED
        BY <1>6, <1>10, <3>1
    <2>3. QED
      BY <2>1, <2>2
  <1>11. RawsAreSaid'
    <2>1. DOMAIN raws' = {ev \in SaidEvents' : log'[ev[1]].tool \in StoreRaw}
      BY <1>3, <1>9
    <2>2. graph'.events = SaidEvents'
      BY EndKeeps DEF GraphIsSaid
    <2>3. ASSUME NEW ev \in SaidEvents'
          PROVE  GetEvidence(ev)' = IF log'[ev[1]].tool \in StoreRaw THEN said'[ev[1]] ELSE None
      BY <1>10, <2>1, <2>2, <2>3 DEF GetEvidence
    <2>4. QED
      BY <2>1, <2>3 DEF RawsAreSaid, GetEvidence
  <1>12. DOMAIN raws' \subseteq EventId
    <2>1. \A ev \in EventsOf(ThisCall, items) : ev \in EventId
      <3>1. items \in Seq(Seq(Occurrence)) /\ ThisCall \in Call
        BY DEF Ended, AllProper, Recorded
      <3>2. QED
        BY <3>1 DEF EventsOf, EventId
    <2>2. DOMAIN raws \subseteq EventId
      BY DEF Inv, TypeOK
    <2>3. QED
      BY <2>1, <2>2
  <1>13. QED
    BY <1>11, <1>12

LEMMA ResultsProper ==
    ASSUME NEW t \in Tool, NEW items \in Results[t]
    PROVE  AllProper(items)
  <1>1. /\ items \in Seq(Seq(Occurrence))
        /\ \A i \in DOMAIN items : \A o \in ToSet(items[i]) : Canonical[o.value] # Raises
    BY RecallAssumption
  <1>2. ASSUME NEW i \in DOMAIN items, NEW k \in DOMAIN items[i] PROVE Proper(items[i][k])
    <2>1. items[i][k] \in Occurrence /\ items[i][k] \in ToSet(items[i])
      BY <1>1 DEF ToSet
    <2>2. Canonical[items[i][k].value] \in Fact \cup {Dropped, Raises}
      BY <2>1, FactGraphAssumption DEF Occurrence
    <2>3. QED
      BY <1>1, <2>1, <2>2 DEF Proper
  <1>3. QED
    BY <1>1, <1>2 DEF AllProper

LEMMA LoadedSays ==
    ASSUME Inv
    PROVE  Loaded \in Graph /\ SaysOf(said, Loaded)
  <1>1. SaysOf(said, graph) /\ graph \in Graph
    BY GraphSaysSo
  <1>2. QED
    BY <1>1, LoadedIs DEF SaysOf

LEMMA InvAfterIngest ==
    ASSUME Inv, NEW t \in Tool, Ingest(t)
    PROVE  Inv'
  <1>1. PICK items \in Results[t] :
           LET done == Ingested(Loaded, ThisCall, items) IN
           /\ Recorded(t, items, FirstEvent(ThisCall, items), "ok", done)
           /\ graph' = done.graph
           /\ raws' = IF t \in StoreRaw THEN RawsWith(items) ELSE raws
    BY Zenon DEF Ingest
  <1> DEFINE s == Ingested(Loaded, ThisCall, items)
  <1>2. Loaded \in Graph /\ SaysOf(said, Loaded) /\ AllProper(items)
    BY LoadedSays, ResultsProper
  <1>3. AfterSo(s, Loaded, ThisCall, items, Places(items), Len(items))
    <2>1. ThisCall \in Call
      BY <1>1 DEF Recorded
    <2>2. QED
      BY <1>2, <2>1, IngestedAt
  <1>4. "ok" \in Summary
    BY DEF Summary
  <1>5. Ended(t, items, "ok", s, Loaded)
    BY <1>1, <1>2, <1>3, <1>4 DEF Ended
  <1> HIDE DEF s
  <1>6. /\ DOMAIN raws' = DOMAIN raws \cup IF t \in StoreRaw THEN EventsOf(ThisCall, items) ELSE {}
        /\ \A ev \in DOMAIN raws : ev[1] # ThisCall => raws'[ev] = raws[ev]
        /\ \A ev \in DOMAIN raws' : ev[1] = ThisCall => raws'[ev] = items
    <2>1. \A ev \in EventsOf(ThisCall, items) : ev[1] = ThisCall
      BY DEF EventsOf
    <2>2. \A ev \in DOMAIN raws : ev[1] # ThisCall
      <3>1. DOMAIN said = DOMAIN log /\ ThisCall \notin DOMAIN log
        BY <1>5, EndRecord
      <3>2. \A ev \in DOMAIN raws : ev \in EventsIn(said)
        BY HistoryIs DEF Inv, RawsAreSaid
      <3>3. \A ev \in DOMAIN raws : ev[1] \in DOMAIN said
        BY <3>2, EventAt, GraphSaysSo
      <3>4. QED
        BY <3>1, <3>3
    <2>3. CASE t \notin StoreRaw
      BY <1>1, <2>2, <2>3
    <2>4. CASE t \in StoreRaw
      <3> DEFINE E == EventsOf(ThisCall, items)
      <3>1. raws' = [ev \in DOMAIN raws \cup E |-> IF ev \in E THEN items ELSE raws[ev]]
        BY <1>1, <2>4 DEF RawsWith, RawOf
      <3> HIDE DEF E
      <3>2. DOMAIN raws' = DOMAIN raws \cup E
        BY <3>1
      <3>3. \A ev \in DOMAIN raws' : raws'[ev] = IF ev \in E THEN items ELSE raws[ev]
        BY <3>1
      <3>4. QED
        BY <2>1, <2>2, <2>4, <3>2, <3>3 DEF E
    <2>5. QED
      BY <2>3, <2>4
  <1>7. RawsAreSaid' /\ DOMAIN raws' \subseteq EventId
    BY <1>5, <1>6, EndRaws
  <1>8. TypeOK'
    BY <1>5, <1>7, EndTypes
  <1>9. GraphIsSaid' /\ LogIsSaid' /\ CountsAddUp'
    BY <1>5, EndKeeps
  <1>10. QED
    BY <1>7, <1>8, <1>9 DEF Inv

\* A call that is skipped, or raises, returns no items and leaves the graph.
LEMMA InvAfterNothing ==
    ASSUME Inv, NEW t \in Tool, NEW summary \in {"duplicate", "error"},
           Recorded(t, <<>>, None, summary, NoCounts), UNCHANGED <<graph, raws>>,
           summary = "duplicate" => \E k \in DOMAIN log : log[k].tool = t /\ log[k].summary = "ok"
    PROVE  Inv'
  <1> DEFINE s == Progress(graph)
             items == <<>>
  <1>1. graph \in Graph /\ SaysOf(said, graph)
    BY GraphSaysSo
  <1>2. AllProper(items) /\ Len(items) = 0 /\ DOMAIN items = {}
    BY EmptyAt DEF AllProper
  <1>3. Places(items) = {}
    <2>1. Done(items, 1, 0) = {} /\ Len(items) + 1 = 1
      BY <1>2, DoneMeets
    <2>2. QED
      BY <2>1 DEF Places
  <1>4. AfterSo(s, graph, ThisCall, items, Places(items), Len(items))
    <2>1. ThisCall \in Call
      BY DEF Recorded
    <2>2. AfterSo(s, graph, ThisCall, items, {}, 0)
      BY <1>1, <2>1, AfterBegins
    <2>3. QED
      BY <1>2, <1>3, <2>2
  <1>5. FirstEvent(ThisCall, items) = None
    BY DEF FirstEvent
  <1>6. Recorded(t, items, FirstEvent(ThisCall, items), summary, s)
    BY <1>5 DEF Recorded, NoCounts, Progress
  <1>7. graph' = s.graph
    BY DEF Progress
  <1>8. t \in Tool /\ summary \in Summary
    BY DEF Summary
  <1>9. Ended(t, items, summary, s, graph)
    BY <1>1, <1>2, <1>4, <1>6, <1>7, <1>8 DEF Ended
  <1>10. EventsOf(ThisCall, items) = {}
    BY <1>2 DEF EventsOf
  <1> HIDE DEF s, items
  <1>11. /\ DOMAIN raws' = DOMAIN raws \cup IF t \in StoreRaw THEN EventsOf(ThisCall, items) ELSE {}
         /\ \A ev \in DOMAIN raws : ev[1] # ThisCall => raws'[ev] = raws[ev]
         /\ \A ev \in DOMAIN raws' : ev[1] = ThisCall => raws'[ev] = items
    <2>1. \A ev \in DOMAIN raws : ev[1] # ThisCall
      <3>1. DOMAIN said = DOMAIN log /\ ThisCall \notin DOMAIN log
        BY <1>9, EndRecord
      <3>2. \A ev \in DOMAIN raws : ev \in EventsIn(said)
        BY HistoryIs DEF Inv, RawsAreSaid
      <3>3. \A ev \in DOMAIN raws : ev[1] \in DOMAIN said
        BY <3>2, EventAt, GraphSaysSo
      <3>4. QED
        BY <3>1, <3>3
    <2>2. QED
      BY <1>10, <2>1
  <1>12. RawsAreSaid' /\ DOMAIN raws' \subseteq EventId
    BY <1>9, <1>11, EndRaws
  <1>13. TypeOK'
    BY <1>9, <1>12, EndTypes
  <1>14. GraphIsSaid' /\ LogIsSaid' /\ CountsAddUp'
    BY <1>9, EndKeeps
  <1>15. QED
    BY <1>12, <1>13, <1>14 DEF Inv

LEMMA InvInit == Init => Inv
  <1> SUFFICES ASSUME Init PROVE Inv
    OBVIOUS
  <1>1. said = <<>> /\ graph = EmptyGraph /\ raws = [ev \in {} |-> None] /\ log = <<>>
    BY DEF Init
  <1>2. DOMAIN said = {} /\ DOMAIN log = {} /\ DOMAIN raws = {} /\ Len(said) = 0 /\ Len(log) = 0
    BY <1>1, EmptyAt
  <1>3. /\ graph \in Graph /\ graph.events = {} /\ graph.edges = {} /\ \A f \in Fact : ~Knows(graph, f)
    BY <1>1 DEF EmptyGraph, FromSnapshot, Graph, Knows
  <1>4. SaidEvents = {} /\ SaidEdges = {} /\ Said = {}
    BY <1>2 DEF SaidEvents, SaidEdges, Said
  <1>5. TypeOK
    BY <1>1, <1>2, <1>3 DEF TypeOK
  <1>6. GraphIsSaid
    BY <1>3, <1>4 DEF GraphIsSaid
  <1>7. LogIsSaid /\ RawsAreSaid /\ CountsAddUp
    BY <1>2, <1>4 DEF LogIsSaid, RawsAreSaid, CountsAddUp
  <1>8. QED
    BY <1>5, <1>6, <1>7 DEF Inv

LEMMA InvNext == Inv /\ [Next]_vars => Inv'
  <1> SUFFICES ASSUME Inv, [Next]_vars PROVE Inv'
    OBVIOUS
  <1>1. CASE \E t \in Tool : Ingest(t)
    BY <1>1, InvAfterIngest
  <1>2. CASE \E t \in Tool : SkipDuplicate(t)
    <2>1. PICK t \in Tool : SkipDuplicate(t)
      BY <1>2
    <2>2. \E k \in DOMAIN log : log[k].tool = t /\ log[k].summary = "ok"
      BY <2>1 DEF SkipDuplicate, ToSet
    <2>3. Recorded(t, <<>>, None, "duplicate", NoCounts) /\ UNCHANGED <<graph, raws>>
      BY <2>1 DEF SkipDuplicate
    <2>4. QED
      BY <2>2, <2>3, InvAfterNothing
  <1>3. CASE \E t \in Tool : ToolRaises(t)
    <2>1. PICK t \in Tool : ToolRaises(t)
      BY <1>3
    <2>2. Recorded(t, <<>>, None, "error", NoCounts) /\ UNCHANGED <<graph, raws>>
      BY <2>1 DEF ToolRaises
    <2>3. "error" # "duplicate"
      OBVIOUS
    <2>4. QED
      BY <2>2, <2>3, InvAfterNothing
  <1>4. CASE UNCHANGED vars
    <2>1. said' = said /\ graph' = graph /\ raws' = raws /\ log' = log
      BY <1>4 DEF vars
    <2>2. TypeOK' /\ LogIsSaid'
      BY <2>1 DEF Inv, TypeOK, LogIsSaid, FirstEvent
    <2>3. /\ SaidEvents' = SaidEvents /\ SaidEdges' = SaidEdges /\ Said' = Said
          /\ \A f : SeenIn(f)' = SeenIn(f)
          /\ \A c : NewWith(c)' = NewWith(c)
      BY <2>1, HistoryIs, HistoryWillBe, Zenon
    <2>4. RawsAreSaid'
      BY <2>1, <2>3 DEF Inv, RawsAreSaid, GetEvidence
    <2>5. CountsAddUp'
      BY <2>1, <2>3 DEF Inv, CountsAddUp
    <2>6. GraphIsSaid'
      <3>1. \A f, v : FirstSeenAs(f, v)' <=> FirstSeenAs(f, v)
        BY <2>1, HistoryIs, HistoryWillBe, Zenon
      <3>2. ASSUME NEW f \in Fact
            PROVE  IF f \in Said' THEN FirstSeenAs(f, graph.facts[f])' ELSE ~Knows(graph', f)
        <4>1. FirstSeenAs(f, graph.facts[f])' <=> FirstSeenAs(f, graph.facts[f])
          BY <2>1 DEF FirstSeenAs, SeenIn, SaidEvents
        <4>2. IF f \in Said THEN FirstSeenAs(f, graph.facts[f]) ELSE ~Knows(graph, f)
          BY DEF Inv, GraphIsSaid
        <4>3. QED
          BY <2>1, <2>3, <4>1, <4>2
      <3>3. QED
        BY <2>1, <2>3, <3>2 DEF Inv, GraphIsSaid, Knows
    <2>7. QED
      BY <2>2, <2>4, <2>5, <2>6 DEF Inv
  <1>5. QED
    BY <1>1, <1>2, <1>3, <1>4 DEF Next, Over

\* Between any two calls the graph, the log, the counts and the raw returns are
\* what the results returned so far make of them, whatever calls were skipped
\* or raised in between and however often a fact was named.
THEOREM HistoryIsKept == Spec => []Inv
  <1>1. QED
    BY InvInit, InvNext, PTL DEF Spec

\* The counts that records, hooks and transforms are given are right: new facts
\* and edges always, linked facts wherever a call names none of its own twice and
\* none in two items, and nowhere fewer than were there.
THEOREM CountsAdd == Spec => []CountsAddUp
  <1>1. Inv => CountsAddUp
    BY DEF Inv
  <1>2. QED
    BY <1>1, HistoryIsKept, PTL

------------------------------------------------------------------------------
(* What the queries are made of, by the history.                            *)

LEMMA SaidIs ==
    ASSUME Inv
    PROVE  /\ DOMAIN said = DOMAIN log /\ DOMAIN log = 1 .. Len(log) /\ Len(log) \in Nat
           /\ \A c \in DOMAIN log : said[c] \in Seq(Seq(Occurrence)) /\ log[c] \in Record
  BY DEF Inv, TypeOK

\* An edge of the graph connects an event to a fact that its item names, and there
\* is one for each such fact.
LEMMA EdgeOfSeen ==
    ASSUME Inv, NEW ev, NEW f
    PROVE  ev \in SeenIn(f) <=> \E e \in graph.edges : e.event = ev /\ e.target = f
  <1>1. SeenIn(f) = SeenBy(said, f) /\ SaidEvents = EventsIn(said)
    BY HistoryIs
  <1>2. graph.edges = EdgesIn(said) /\ said \in Histories
    BY GraphSaysSo DEF SaysOf
  <1>3. ASSUME NEW e \in EdgesIn(said)
        PROVE  e.event \in SeenBy(said, e.target)
    <2>1. PICK c \in DOMAIN said : e \in EdgesOf(c, said[c])
      BY DEF EdgesIn
    <2> DEFINE items == said[c]
    <2>2. PICK i \in DOMAIN items : e.event = <<c, i>> /\ e.target \in FactsIn(items[i])
      <3>1. PICK i \in DOMAIN items : e \in EdgesSaid(<<c, i>>, items[i])
        BY <2>1 DEF EdgesOf
      <3>2. PICK o \in Elems(items[i]) :
               /\ Canonical[o.value] \in Fact
               /\ e = [event |-> <<c, i>>, type |-> o.type, target |-> Canonical[o.value]]
        BY <3>1 DEF EdgesSaid
      <3>3. e.event = <<c, i>> /\ e.target \in FactsIn(items[i])
        BY <3>2 DEF FactsIn, ToSet, Elems
      <3>4. QED
        BY <3>3
    <2>3. <<c, i>> \in EventsIn(said)
      BY <1>2, <2>1, <2>2, EventAt
    <2>4. QED
      BY <2>2, <2>3 DEF SeenBy
  <1>4. ASSUME ev \in SeenBy(said, f)
        PROVE  \E e \in EdgesIn(said) : e.event = ev /\ e.target = f
    <2> DEFINE c == ev[1]
               i == ev[2]
    <2>1. /\ ev = <<c, i>> /\ c \in DOMAIN said /\ i \in DOMAIN said[c]
          /\ f \in FactsIn(said[c][i])
      BY <1>2, <1>4, SeenIsOfHistory
    <2>2. PICK o \in ToSet(said[c][i]) : f = Canonical[o.value]
      BY <2>1 DEF FactsIn
    <2>3. f \in Fact /\ o \in Elems(said[c][i])
      BY <2>1, <2>2 DEF FactsIn, ToSet, Elems
    <2> DEFINE e == [event |-> <<c, i>>, type |-> o.type, target |-> Canonical[o.value]]
    <2>4. e \in EdgesSaid(<<c, i>>, said[c][i])
      BY <2>2, <2>3 DEF EdgesSaid
    <2>5. e \in EdgesIn(said)
      BY <2>1, <2>4 DEF EdgesIn, EdgesOf
    <2>6. e.event = ev /\ e.target = f
      BY <2>1, <2>2
    <2>7. QED
      BY <2>5, <2>6
  <1>5. QED
    BY <1>1, <1>2, <1>3, <1>4

LEMMA SourcesAreSeen ==
    ASSUME Inv, NEW f
    PROVE  SourceEvents(graph, f) = SeenIn(f) /\ SourceEvents(Loaded, f) = SeenIn(f)
  <1>1. \A ev : ev \in SeenIn(f) <=> \E e \in graph.edges : e.event = ev /\ e.target = f
    BY EdgeOfSeen
  <1>2. \A ev \in SeenIn(f) : ev \in graph.events
    BY DEF Inv, GraphIsSaid, SeenIn
  <1>3. SourceEvents(graph, f) = SeenIn(f)
    BY <1>1, <1>2 DEF SourceEvents
  <1>4. SourceEvents(Loaded, f) = SourceEvents(graph, f)
    BY GraphSaysSo, LoadedIs
  <1>5. QED
    BY <1>3, <1>4

LEMMA TargetsAreSeen ==
    ASSUME Inv, NEW ev, NEW f
    PROVE  f \in TargetsOf(ev) <=> ev \in SeenIn(f)
  BY EdgeOfSeen DEF TargetsOf

LEMMA KnownAre ==
    ASSUME Inv
    PROVE  /\ \A f \in Fact : (Knows(graph, f) <=> f \in Said) /\ (Knows(Loaded, f) <=> f \in Said)
           /\ \A f \in Said : f \in Fact
           /\ \A f : f \in Said <=> SeenIn(f) # {}
  <1>1. SaysOf(said, graph) /\ graph \in Graph /\ said \in Histories
    BY GraphSaysSo
  <1>2. \A f \in Fact : Knows(graph, f) <=> f \in Said
    BY <1>1, KnownIsSaid, HistoryIs
  <1>3. \A f \in Fact : Knows(Loaded, f) <=> f \in Said
    BY <1>1, <1>2, LoadedIs
  <1>4. \A f \in Said : f \in Fact
    BY DEF Said, FactsIn
  <1>5. \A f : f \in Said <=> SeenIn(f) # {}
    BY DEF Said, SeenIn
  <1>6. QED
    BY <1>2, <1>3, <1>4, <1>5

LEMMA SaidFinite ==
    ASSUME Inv
    PROVE  /\ IsFiniteSet(SaidEvents) /\ IsFiniteSet(Said)
           /\ \A f : IsFiniteSet(SeenIn(f)) /\ SeenIn(f) \subseteq Nat \X Nat
  <1>1. DOMAIN said = 1 .. Len(log) /\ Len(log) \in Nat
    BY SaidIs
  <1>2. \A c \in DOMAIN said : DOMAIN said[c] = 1 .. Len(said[c]) /\ Len(said[c]) \in Nat
    BY SaidIs
  <1>3. ASSUME NEW c \in DOMAIN said PROVE IsFiniteSet(EventsOf(c, said[c]))
    <2> DEFINE g == [i \in DOMAIN said[c] |-> <<c, i>>]
    <2>1. IsFiniteSet(DOMAIN said[c])
      BY <1>2, FS_Interval
    <2>2. IsFiniteSet({g[i] : i \in DOMAIN said[c]})
      BY <2>1, FiniteImage
    <2>3. EventsOf(c, said[c]) = {g[i] : i \in DOMAIN said[c]}
      BY DEF EventsOf
    <2>4. QED
      BY <2>2, <2>3
  <1>4. IsFiniteSet(SaidEvents)
    <2> DEFINE g == [c \in DOMAIN said |-> EventsOf(c, said[c])]
               U == {g[c] : c \in DOMAIN said}
    <2>1. IsFiniteSet(DOMAIN said)
      BY <1>1, FS_Interval
    <2>2. IsFiniteSet(U)
      BY <2>1, FiniteImage
    <2>3. \A T \in U : IsFiniteSet(T)
      BY <1>3
    <2>4. IsFiniteSet(UNION U)
      <3> HIDE DEF U
      <3>1. QED
        BY <2>2, <2>3, FS_UNION
    <2>5. U = {EventsOf(c, said[c]) : c \in DOMAIN said}
      OBVIOUS
    <2> HIDE DEF U
    <2>6. SaidEvents = UNION U
      BY <2>5 DEF SaidEvents
    <2>7. QED
      BY <2>4, <2>6
  <1>5. ASSUME NEW ev \in SaidEvents PROVE IsFiniteSet(FactsIn(said[ev[1]][ev[2]]))
    <2> DEFINE item == said[ev[1]][ev[2]]
               g == [k \in DOMAIN item |-> Canonical[item[k].value]]
    <2>1. item \in Seq(Occurrence)
      <3>1. ev \in EventsIn(said) /\ said \in Histories
        BY GraphSaysSo, HistoryIs
      <3>2. QED
        BY <3>1, EventAt
    <2>2. DOMAIN item = 1 .. Len(item) /\ Len(item) \in Nat
      BY <2>1
    <2>3. IsFiniteSet(DOMAIN item)
      <3> DEFINE n == Len(item)
      <3>1. n \in Nat /\ DOMAIN item = 1 .. n
        BY <2>2
      <3> HIDE DEF n
      <3>2. IsFiniteSet(1 .. n)
        <4>1. 1 \in Int /\ n \in Int
          BY <3>1
        <4>2. QED
          BY <4>1, FS_Interval
      <3>3. QED
        BY <3>1, <3>2, Zenon
    <2> DEFINE T == {g[k] : k \in DOMAIN item}
    <2>4. g = [k \in DOMAIN item |-> g[k]]
      OBVIOUS
    <2>5. FactsIn(item) \in SUBSET T
      BY DEF FactsIn, ToSet
    <2> HIDE DEF g, item
    <2>6. IsFiniteSet(T)
      BY <2>3, <2>4, FiniteImage
    <2>7. IsFiniteSet(FactsIn(item))
      <3> HIDE DEF T
      <3>1. QED
        BY <2>5, <2>6, FS_Subset
    <2>8. QED
      BY <2>7 DEF item
  <1>6. IsFiniteSet(Said)
    <2> DEFINE g == [ev \in SaidEvents |-> FactsIn(said[ev[1]][ev[2]])]
               U == {g[ev] : ev \in SaidEvents}
    <2>1. IsFiniteSet(U)
      BY <1>4, FiniteImage
    <2>2. \A T \in U : IsFiniteSet(T)
      BY <1>5
    <2>3. IsFiniteSet(UNION U)
      <3> HIDE DEF U
      <3>1. QED
        BY <2>1, <2>2, FS_UNION
    <2>4. Said = UNION U
      BY DEF Said
    <2>5. QED
      BY <2>3, <2>4
  <1>7. ASSUME NEW f PROVE IsFiniteSet(SeenIn(f)) /\ SeenIn(f) \subseteq Nat \X Nat
    <2>1. SeenIn(f) \in SUBSET SaidEvents
      BY DEF SeenIn
    <2>2. IsFiniteSet(SeenIn(f))
      BY <1>4, <2>1, FS_Subset
    <2>3. SaidEvents \subseteq Nat \X Nat
      <3>1. SaidEvents = EventsIn(said) /\ said \in Histories
        BY GraphSaysSo, HistoryIs
      <3>2. QED
        BY <3>1, EventAt
    <2>4. QED
      BY <2>1, <2>2, <2>3
  <1>8. QED
    BY <1>4, <1>6, <1>7

------------------------------------------------------------------------------
(* Places in a finite order: each element has as many below it as its rank. *)

\* lower maps each element of S to the elements below it, in a strict total order.
Orders(S, lower) ==
    /\ IsFiniteSet(S)
    /\ \A x \in S : lower[x] \in SUBSET S /\ ~ (x \in lower[x])
    /\ \A x, y \in S : y \in lower[x] => lower[y] \subseteq lower[x]
    /\ \A x, y \in S : x = y \/ x \in lower[y] \/ y \in lower[x]

Rank(lower, x) == Cardinality(lower[x])

LEMMA RanksGrow ==
    ASSUME NEW S, NEW lower, Orders(S, lower)
    PROVE  /\ Cardinality(S) \in Nat
           /\ \A x \in S : Rank(lower, x) \in Nat /\ Rank(lower, x) < Cardinality(S)
           /\ \A x, y \in S : y \in lower[x] => Rank(lower, y) < Rank(lower, x)
  <1>1. IsFiniteSet(S) /\ Cardinality(S) \in Nat
    BY FS_CardinalityType DEF Orders
  <1>2. ASSUME NEW x \in S
        PROVE  /\ IsFiniteSet(lower[x]) /\ Rank(lower, x) \in Nat
               /\ Rank(lower, x) < Cardinality(S)
    <2>1. lower[x] \in SUBSET S /\ ~ (x \in lower[x])
      BY DEF Orders
    <2>2. /\ IsFiniteSet(lower[x]) /\ Cardinality(lower[x]) <= Cardinality(S)
          /\ Cardinality(S) = Cardinality(lower[x]) => S = lower[x]
      BY <1>1, <2>1, FS_Subset
    <2>3. Cardinality(lower[x]) \in Nat
      BY <2>2, FS_CardinalityType
    <2>4. QED
      BY <1>1, <2>1, <2>2, <2>3 DEF Rank
  <1>3. ASSUME NEW x \in S, NEW y \in S, y \in lower[x]
        PROVE  Rank(lower, y) < Rank(lower, x)
    <2>1. lower[y] \in SUBSET lower[x] /\ ~ (y \in lower[y])
      BY <1>3 DEF Orders
    <2>2. /\ Cardinality(lower[y]) <= Cardinality(lower[x])
          /\ Cardinality(lower[x]) = Cardinality(lower[y]) => lower[x] = lower[y]
      BY <1>2, <2>1, FS_Subset
    <2>3. QED
      BY <1>2, <1>3, <2>1, <2>2 DEF Rank
  <1>4. QED
    BY <1>1, <1>2, <1>3

LEMMA RanksTell ==
    ASSUME NEW S, NEW lower, Orders(S, lower)
    PROVE  /\ \A x, y \in S : y \in lower[x] <=> Rank(lower, y) < Rank(lower, x)
           /\ \A x, y \in S : Rank(lower, x) = Rank(lower, y) => x = y
  <1>1. /\ \A x \in S : Rank(lower, x) \in Nat
        /\ \A x, y \in S : y \in lower[x] => Rank(lower, y) < Rank(lower, x)
    BY RanksGrow
  <1>2. \A x, y \in S : x = y \/ x \in lower[y] \/ y \in lower[x]
    BY DEF Orders
  <1>3. QED
    BY <1>1, <1>2

LEMMA UpTo == \A n \in Nat : IsFiniteSet(0 .. n - 1) /\ Cardinality(0 .. n - 1) = n
  <1> SUFFICES ASSUME NEW n \in Nat
               PROVE  IsFiniteSet(0 .. n - 1) /\ Cardinality(0 .. n - 1) = n
    OBVIOUS
  <1> DEFINE m == n - 1
  <1>1. 0 \in Int /\ m \in Int /\ n = m + 1 /\ (0 > m <=> n = 0)
    OBVIOUS
  <1> HIDE DEF m
  <1>2. IsFiniteSet(0 .. m) /\ Cardinality(0 .. m) = IF 0 > m THEN 0 ELSE m - 0 + 1
    BY <1>1, FS_Interval
  <1>3. QED
    BY <1>1, <1>2 DEF m

PlacesOf(S, lower, n) == Orders(S, lower) /\ n \in Nat /\ n <= Cardinality(S)

\* Every place is taken.
LEMMA EveryPlace ==
    ASSUME NEW S, NEW lower, NEW n, PlacesOf(S, lower, n)
    PROVE  \A m \in Nat : m < n => \E x \in S : Rank(lower, x) = m
  <1> DEFINE N == Cardinality(S)
             All == 0 .. N - 1
             r == [x \in S |-> Rank(lower, x)]
  <1>0. Orders(S, lower) /\ n \in Nat /\ n <= N
    BY DEF PlacesOf
  <1>1. N \in Nat /\ IsFiniteSet(S)
    BY <1>0, RanksGrow DEF Orders
  <1>2. \A x \in S : Rank(lower, x) \in Nat /\ Rank(lower, x) < N
    BY <1>0, RanksGrow
  <1>3. \A x, y \in S : Rank(lower, x) = Rank(lower, y) => x = y
    BY <1>0, RanksTell
  <1>4. IsFiniteSet(All) /\ Cardinality(All) = N
    BY <1>1, UpTo
  <1>5. r \in Injection(S, All)
    BY <1>1, <1>2, <1>3 DEF Injection, IsInjective
  <1>6. r \in Surjection(S, All)
    <2> HIDE DEF r, All
    <2>1. QED
      BY <1>4, <1>5, FS_Injection
  <1>7. ASSUME NEW m \in Nat, m < N PROVE \E x \in S : Rank(lower, x) = m
    <2>1. m \in All
      BY <1>1, <1>7
    <2>2. QED
      BY <1>6, <2>1 DEF Surjection
  <1>8. QED
    BY <1>0, <1>1, <1>7

\* The first n places are taken by n elements.
LEMMA RanksCount ==
    ASSUME NEW S, NEW lower, NEW n, PlacesOf(S, lower, n)
    PROVE  Cardinality({x \in S : Rank(lower, x) < n}) = n
  <1> DEFINE T == {x \in S : Rank(lower, x) < n}
             q == [x \in T |-> Rank(lower, x)]
             Low == 0 .. n - 1
  <1>0. Orders(S, lower) /\ n \in Nat
    BY DEF PlacesOf
  <1>1. \A x \in S : Rank(lower, x) \in Nat
    BY <1>0, RanksGrow
  <1>2. \A x, y \in S : Rank(lower, x) = Rank(lower, y) => x = y
    BY <1>0, RanksTell
  <1>3. \A m \in Nat : m < n => \E x \in S : Rank(lower, x) = m
    BY EveryPlace
  <1>4. IsFiniteSet(Low) /\ Cardinality(Low) = n
    BY <1>0, UpTo
  <1>5. q \in Injection(T, Low)
    BY <1>0, <1>1, <1>2 DEF Injection, IsInjective
  <1>6. q \in Surjection(T, Low)
    <2>1. \A m \in Low : m \in Nat /\ m < n
      BY <1>0
    <2>2. \A m \in Low : \E x \in T : Rank(lower, x) = m
      BY <1>3, <2>1
    <2>3. q \in [T -> Low]
      BY <1>5 DEF Injection
    <2>4. QED
      BY <2>2, <2>3 DEF Surjection
  <1>7. Cardinality(T) = n
    <2> HIDE DEF q, T, Low
    <2>1. QED
      BY <1>4, <1>5, <1>6, FS_Injection
  <1>8. QED
    BY <1>7

\* The last n of the positions S in a list of length N: that many, if there are,
\* and the greatest ones.
IsLast(L, N, S, n) == N \in Nat /\ S \in SUBSET (1 .. N) /\ n \in Nat /\ L = LastOf(S, n)

LEMMA LastAre ==
    ASSUME NEW N, NEW S, NEW n, NEW L, IsLast(L, N, S, n)
    PROVE  /\ L \subseteq S
           /\ n > 0 => Cardinality(L) <= n
           /\ n = 0 \/ Cardinality(L) < n \/ N <= n => L = S
           /\ \A c \in L, d \in S \ L : d < c
  <1> DEFINE lower == [k \in S |-> {j \in S : j > k}]
  <1> N \in Nat /\ S \in SUBSET (1 .. N) /\ n \in Nat /\ L = LastOf(S, n)
    BY DEF IsLast
  <1>1. IsFiniteSet(1 .. N) /\ Cardinality(1 .. N) = N
    <2>1. 1 \in Int /\ N \in Int /\ (1 > N <=> N = 0)
      OBVIOUS
    <2>2. IsFiniteSet(1 .. N) /\ Cardinality(1 .. N) = IF 1 > N THEN 0 ELSE N - 1 + 1
      BY <2>1, FS_Interval
    <2>3. QED
      BY <2>1, <2>2
  <1>2. IsFiniteSet(S) /\ Cardinality(S) <= N /\ Cardinality(S) \in Nat
    BY <1>1, FS_Subset, FS_CardinalityType
  <1>3. Orders(S, lower)
    <2>1. \A k \in S : k \in Nat
      OBVIOUS
    <2>2. \A k \in S : lower[k] \in SUBSET S /\ ~ (k \in lower[k])
      BY <2>1
    <2>3. \A j, k \in S : j \in lower[k] <=> j > k
      OBVIOUS
    <2> HIDE DEF lower
    <2>4. \A j, k \in S : j = k \/ j \in lower[k] \/ k \in lower[j]
      BY <2>1, <2>3
    <2>5. ASSUME NEW j \in S, NEW k \in S, j \in lower[k] PROVE lower[j] \subseteq lower[k]
      <3>1. ASSUME NEW i \in lower[j] PROVE i \in lower[k]
        <4>1. i \in S /\ i > j /\ j > k
          BY <2>2, <2>3, <2>5
        <4>2. i > k
          BY <2>1, <4>1
        <4>3. QED
          BY <2>3, <4>1, <4>2
      <3>2. QED
        BY <3>1
    <2>6. QED
      BY <1>2, <2>2, <2>4, <2>5 DEF Orders
  <1>4. \A k \in S : Rank(lower, k) = Cardinality({j \in S : j > k})
    BY DEF Rank
  <1>5. \A j, k \in S : j \in lower[k] <=> j > k
    OBVIOUS
  <1> HIDE DEF lower
  <1>6. \A k \in S : Rank(lower, k) \in Nat /\ Rank(lower, k) < Cardinality(S)
    BY <1>3, RanksGrow
  <1>7. \A j, k \in S : j > k <=> Rank(lower, j) < Rank(lower, k)
    BY <1>3, <1>5, RanksTell
  <1>8. n = 0 => L = S
    BY DEF LastOf
  <1>9. n # 0 => L = {k \in S : Rank(lower, k) < n}
    BY <1>4 DEF LastOf
  <1>10. CASE n = 0
    BY <1>8, <1>10
  <1>11. CASE n # 0 /\ n <= Cardinality(S)
    <2>1. L = {k \in S : Rank(lower, k) < n}
      BY <1>9, <1>11
    <2>2. Cardinality(L) = n
      BY <1>3, <1>11, <2>1, RanksCount DEF PlacesOf
    <2>3. L \subseteq S /\ \A c \in L, d \in S \ L : d < c
      BY <1>6, <1>7, <2>1
    <2>4. ASSUME N <= n PROVE L = S
      <3>1. n = Cardinality(S)
        BY <1>2, <1>11, <2>4
      <3>2. QED
        BY <1>6, <2>1, <3>1
    <2>5. QED
      BY <1>11, <2>2, <2>3, <2>4
  <1>12. CASE n # 0 /\ Cardinality(S) < n
    <2>1. \A k \in S : Rank(lower, k) < n
      BY <1>2, <1>6, <1>12
    <2>2. L = S
      <3>1. L = {k \in S : Rank(lower, k) < n}
        BY <1>9, <1>12
      <3>2. QED
        BY <2>1, <3>1
    <2>3. L \subseteq S /\ S \ L = {} /\ Cardinality(L) <= n
      BY <1>2, <1>12, <2>2
    <2>4. QED
      BY <2>2, <2>3
  <1>13. QED
    BY <1>2, <1>10, <1>11, <1>12

------------------------------------------------------------------------------
(* What have I done.                                                        *)

\* The positions what_have_i_done chooses from.
CallsOf(tool, type, value) ==
    {k \in DOMAIN log : /\ tool # None => log[k].tool = tool
                        /\ type # None => log[k].event \in EntityEvents(type, value)}

LEMMA DoneAre ==
    ASSUME Inv, NEW tool, NEW type, NEW value, NEW n \in Nat
    PROVE  LET L == WhatHaveIDone(tool, type, value, n)
               S == CallsOf(tool, type, value)
           IN  /\ L \subseteq S
               /\ n > 0 => Cardinality(L) <= n
               /\ n = 0 \/ Cardinality(L) < n \/ Len(log) <= n => L = S
               /\ \A c \in L, d \in S \ L : d < c
  <1> DEFINE L == WhatHaveIDone(tool, type, value, n)
             S == CallsOf(tool, type, value)
  <1>1. L = LastOf(S, n)
    BY DEF WhatHaveIDone, CallsOf
  <1>2. S \in SUBSET (1 .. Len(log)) /\ Len(log) \in Nat
    BY SaidIs DEF CallsOf
  <1>3. IsLast(L, Len(log), S, n)
    BY <1>1, <1>2 DEF IsLast
  <1> HIDE DEF L, S
  <1>4. /\ L \subseteq S
        /\ n > 0 => Cardinality(L) <= n
        /\ n = 0 \/ Cardinality(L) < n \/ Len(log) <= n => L = S
        /\ \A c \in L, d \in S \ L : d < c
    BY <1>3, LastAre
  <1>5. QED
    BY <1>4 DEF L, S

LEMMA DuplicateSo == Inv => DuplicateIsAnswered
  <1> SUFFICES ASSUME Inv, NEW k \in DOMAIN log, log[k].summary = "duplicate"
               PROVE  \E c \in WhatHaveIDone(log[k].tool, None, None, Len(log)) :
                        /\ c < k
                        /\ log[c].summary = "ok"
                        /\ \A i \in DOMAIN said[c] : FactsIn(said[c][i]) \subseteq TargetsOf(<<c, i>>)
    BY DEF DuplicateIsAnswered
  <1>1. PICK c \in DOMAIN log : c < k /\ log[c].tool = log[k].tool /\ log[c].summary = "ok"
    BY DEF Inv, LogIsSaid
  <1>2. c \in CallsOf(log[k].tool, None, None)
    BY <1>1 DEF CallsOf
  <1>3. Len(log) \in Nat /\ Len(log) <= Len(log)
    BY SaidIs
  <1>4. WhatHaveIDone(log[k].tool, None, None, Len(log)) = CallsOf(log[k].tool, None, None)
    BY <1>3, DoneAre
  <1>5. ASSUME NEW i \in DOMAIN said[c], NEW f \in FactsIn(said[c][i])
        PROVE  f \in TargetsOf(<<c, i>>)
    <2>1. c \in DOMAIN said
      BY SaidIs
    <2>2. <<c, i>> \in SaidEvents
      BY <2>1 DEF SaidEvents, EventsOf
    <2>3. <<c, i>> \in SeenIn(f)
      BY <2>2 DEF SeenIn
    <2>4. QED
      BY <2>3, TargetsAreSeen
  <1>6. QED
    BY <1>1, <1>2, <1>4, <1>5

\* A call that was skipped can be answered from the log and the graph: an earlier
\* call of the tool is listed whose items the graph has whole.
THEOREM DuplicateAnswered == Spec => []DuplicateIsAnswered
  BY HistoryIsKept, DuplicateSo, PTL

\* The events asked for by the type and the value of a fact are those of the fact.
LEMMA EntityIsSeen ==
    ASSUME Inv, NEW v, Canonical[v] \in Fact, v # None
    PROVE  EntityEvents(TypeOf[Canonical[v]], v) = SeenIn(Canonical[v])
  <1> DEFINE f == Canonical[v]
             asked == {x \in Fact : Knows(Loaded, x) /\ IsAskedFor(x, TypeOf[f], v)}
  <1>1. \A x \in Fact : IsAskedFor(x, TypeOf[f], v) <=> x = f
    BY DEF IsAskedFor
  <1>2. EntityEvents(TypeOf[f], v) = UNION {SourceEvents(Loaded, x) : x \in asked}
    BY DEF EntityEvents
  <1>3. \A x : x \in asked <=> x = f /\ Knows(Loaded, f)
    BY <1>1
  <1>4. SourceEvents(Loaded, f) = SeenIn(f)
    BY SourcesAreSeen
  <1>5. Knows(Loaded, f) \/ SeenIn(f) = {}
    BY KnownAre
  <1> HIDE DEF f, asked
  <1>6. \A ev : ev \in EntityEvents(TypeOf[f], v) <=> Knows(Loaded, f) /\ ev \in SeenIn(f)
    BY <1>2, <1>3, <1>4
  <1>7. EntityEvents(TypeOf[f], v) = SeenIn(f)
    BY <1>5, <1>6
  <1>8. QED
    BY <1>7 DEF f

\* A record is of an event of a fact if the first item of its call says the fact.
LEMMA FirstItemSays ==
    ASSUME Inv, NEW c \in DOMAIN log, NEW f
    PROVE  log[c].event \in SeenIn(f) <=> said[c] # <<>> /\ f \in FactsIn(said[c][1])
  <1>1. c \in DOMAIN said /\ said[c] \in Seq(Seq(Occurrence))
    BY SaidIs
  <1>2. log[c].event = FirstEvent(c, said[c])
    BY DEF Inv, LogIsSaid
  <1>3. CASE said[c] = <<>>
    <2>1. log[c].event = None
      BY <1>2, <1>3 DEF FirstEvent
    <2>2. \A ev \in SeenIn(f) : ev \in EventId
      BY DEF Inv, TypeOK, GraphIsSaid, SeenIn, Graph
    <2>3. None \notin EventId
      BY RecallAssumption
    <2>4. QED
      BY <1>3, <2>1, <2>2, <2>3
  <1>4. CASE said[c] # <<>>
    <2>1. log[c].event = <<c, 1>>
      BY <1>2, <1>4 DEF FirstEvent
    <2>2. 1 \in DOMAIN said[c]
      BY <1>1, <1>4
    <2>3. <<c, 1>> \in SaidEvents
      BY <1>1, <2>2 DEF SaidEvents, EventsOf
    <2>4. <<c, 1>> \in SeenIn(f) <=> f \in FactsIn(said[c][1])
      BY <2>3 DEF SeenIn
    <2>5. QED
      BY <1>4, <2>1, <2>4
  <1>5. QED
    BY <1>3, <1>4

\* The calls listed for a value are among its producers, and those that returned
\* one item are all of them.
LEMMA ProducersAre ==
    ASSUME Inv, NEW t, NEW v \in Value, Canonical[v] \in Fact
    PROVE  LET S == CallsOf(t, TypeOf[Canonical[v]], v)
               asked == {c \in Producers(v) : t # None => log[c].tool = t}
           IN  S \subseteq asked /\ \A c \in asked : Len(said[c]) = 1 => c \in S
  <1> DEFINE f == Canonical[v]
             S == CallsOf(t, TypeOf[f], v)
  <1>1. TypeOf[f] # None /\ v # None
    BY RecallAssumption DEF NodeType
  <1>2. EntityEvents(TypeOf[f], v) = SeenIn(f)
    BY <1>1, EntityIsSeen
  <1>3. \A k : k \in S <=> /\ k \in DOMAIN log /\ log[k].event \in SeenIn(f)
                           /\ t # None => log[k].tool = t
    BY <1>1, <1>2 DEF CallsOf
  <1>4. \A k \in DOMAIN log : log[k].event \in SeenIn(f) <=> said[k] # <<>> /\ f \in FactsIn(said[k][1])
    BY FirstItemSays
  <1>5. \A k : k \in Producers(v) <=> k \in DOMAIN log /\ \E i \in DOMAIN said[k] : f \in FactsIn(said[k][i])
    BY SaidIs DEF Producers, NamedIn
  <1> HIDE DEF f, S
  <1>6. ASSUME NEW k \in DOMAIN log, said[k] # <<>> PROVE 1 \in DOMAIN said[k]
    BY <1>6, SaidIs
  <1>7. ASSUME NEW k \in DOMAIN log, Len(said[k]) = 1 PROVE said[k] # <<>> /\ DOMAIN said[k] = {1}
    <2>1. said[k] \in Seq(Seq(Occurrence))
      BY SaidIs
    <2>2. DOMAIN said[k] = 1 .. 1
      BY <1>7, <2>1
    <2>3. said[k] # <<>>
      BY <1>7, EmptyAt
    <2>4. QED
      BY <2>2, <2>3
  <1>8. ASSUME NEW k \in S PROVE k \in Producers(v) /\ (t # None => log[k].tool = t)
    BY <1>3, <1>4, <1>5, <1>6
  <1>9. ASSUME NEW k \in Producers(v), t # None => log[k].tool = t, Len(said[k]) = 1 PROVE k \in S
    BY <1>3, <1>4, <1>5, <1>7, <1>9
  <1>10. QED
    BY <1>8, <1>9 DEF f, S

LEMMA ListedSo == Inv => ListedCallsProduced
  <1> SUFFICES ASSUME Inv, NEW t \in Tool \cup {None}, NEW v \in Value, NEW limit \in Limit,
                      Canonical[v] \in Fact
               PROVE  LET listed == WhatHaveIDone(t, TypeOf[Canonical[v]], v, limit)
                          asked == {c \in Producers(v) : t # None => log[c].tool = t}
                          missing == {c \in asked \ listed : Len(said[c]) = 1}
                      IN
                      /\ listed \subseteq asked
                      /\ limit > 0 => Cardinality(listed) <= limit
                      /\ limit = 0 \/ Cardinality(listed) < limit => missing = {}
                      /\ \A c \in listed, d \in missing : d < c
    BY Zenon DEF ListedCallsProduced
  <1> DEFINE listed == WhatHaveIDone(t, TypeOf[Canonical[v]], v, limit)
             asked == {c \in Producers(v) : t # None => log[c].tool = t}
             missing == {c \in asked \ listed : Len(said[c]) = 1}
  <1> DEFINE S == CallsOf(t, TypeOf[Canonical[v]], v)
  <1>1. limit \in Nat
    BY RecallAssumption
  <1>2. S \subseteq asked /\ \A c \in asked : Len(said[c]) = 1 => c \in S
    BY ProducersAre
  <1>3. /\ listed \subseteq S
        /\ limit > 0 => Cardinality(listed) <= limit
        /\ limit = 0 \/ Cardinality(listed) < limit => listed = S
        /\ \A c \in listed, d \in S \ listed : d < c
    BY <1>1, DoneAre
  <1>4. missing \subseteq S \ listed
    BY <1>2, Zenon
  <1> HIDE DEF S, asked, listed, missing
  <1>5. /\ listed \subseteq asked
        /\ limit > 0 => Cardinality(listed) <= limit
        /\ limit = 0 \/ Cardinality(listed) < limit => missing = {}
        /\ \A c \in listed, d \in missing : d < c
    BY <1>2, <1>3, <1>4
  <1>6. QED
    BY <1>5 DEF listed, asked, missing

\* Asked for a value, and for a tool or not, what_have_i_done lists calls that
\* returned the value, and of those that returned one item it leaves out only the
\* oldest, and them only for the limit.
THEOREM ListedProduced == Spec => []ListedCallsProduced
  BY HistoryIsKept, ListedSo, PTL

------------------------------------------------------------------------------
(* The timeline.                                                            *)

\* Events in order: each once, the earlier before the later.
LEMMA InOrderIs ==
    ASSUME NEW E \in SUBSET (Nat \X Nat), IsFiniteSet(E), NEW s, s = InOrder(E)
    PROVE  /\ s \in Seq(E) /\ Len(s) = Cardinality(E) /\ Len(s) \in Nat
           /\ \A ev \in E : \E k \in DOMAIN s : s[k] = ev
           /\ \A j, k \in DOMAIN s : j < k => Before(s[j], s[k])
  <1> DEFINE n == Cardinality(E)
             lower == [x \in E |-> {y \in E : Before(y, x)}]
  <1>1. \A x, y \in E : y \in lower[x] <=> Before(y, x)
    OBVIOUS
  <1>2. \A x \in E : Rank(lower, x) = Cardinality({y \in E : Before(y, x)})
    BY DEF Rank
  <1>3. Orders(E, lower)
    <2>1. \A x \in E : lower[x] \in SUBSET E
      OBVIOUS
    <2> HIDE DEF lower
    <2>2. \A x \in E : ~ (x \in lower[x])
      BY <1>1, BeforeOrders
    <2>3. \A x, y \in E : x = y \/ x \in lower[y] \/ y \in lower[x]
      BY <1>1, BeforeOrders
    <2>4. ASSUME NEW x \in E, NEW y \in E, y \in lower[x], NEW z \in lower[y]
          PROVE  z \in lower[x]
      <3>1. z \in E /\ Before(z, y) /\ Before(y, x)
        BY <1>1, <2>1, <2>4
      <3>2. Before(z, x)
        BY <3>1, BeforeOrders
      <3>3. QED
        BY <1>1, <3>1, <3>2
    <2>5. \A x, y \in E : y \in lower[x] => lower[y] \subseteq lower[x]
      BY <2>4
    <2>6. QED
      BY <2>1, <2>2, <2>3, <2>5 DEF Orders
  <1> HIDE DEF lower
  <1>4. n \in Nat /\ n <= n
    BY FS_CardinalityType
  <1>5. \A m \in Nat : m < n => \E x \in E : Rank(lower, x) = m
    <2>1. PlacesOf(E, lower, n)
      BY <1>3, <1>4 DEF PlacesOf
    <2> HIDE DEF n
    <2>2. QED
      BY <2>1, EveryPlace
  <1>6. \A x \in E : Rank(lower, x) \in Nat /\ Rank(lower, x) < n
    BY <1>3, RanksGrow
  <1>7. /\ \A x, y \in E : y \in lower[x] <=> Rank(lower, y) < Rank(lower, x)
        /\ \A x, y \in E : Rank(lower, x) = Rank(lower, y) => x = y
    BY <1>3, RanksTell
  <1>8. s = [k \in 1 .. n |->
               CHOOSE ev \in E : Cardinality({x \in E : Before(x, ev)}) = k - 1]
    BY DEF InOrder
  <1>9. ASSUME NEW k \in 1 .. n PROVE s[k] \in E /\ Rank(lower, s[k]) = k - 1
    <2>1. k - 1 \in Nat /\ k - 1 < n
      BY <1>4
    <2>2. \E ev \in E : Rank(lower, ev) = k - 1
      BY <1>5, <2>1
    <2>3. \E ev \in E : Cardinality({x \in E : Before(x, ev)}) = k - 1
      BY <1>2, <2>2
    <2>4. s[k] \in E /\ Cardinality({x \in E : Before(x, s[k])}) = k - 1
      BY <1>8, <2>3
    <2>5. QED
      BY <1>2, <2>4
  <1>10. s \in Seq(E) /\ Len(s) = n /\ DOMAIN s = 1 .. n
    <2>1. s \in [1 .. n -> E] /\ DOMAIN s = 1 .. n
      BY <1>8, <1>9
    <2> HIDE DEF n
    <2>2. s \in Seq(E)
      BY <1>4, <2>1
    <2>3. QED
      BY <1>4, <2>1, <2>2
  <1>11. ASSUME NEW ev \in E PROVE \E k \in DOMAIN s : s[k] = ev
    <2>1. Rank(lower, ev) + 1 \in 1 .. n /\ (Rank(lower, ev) + 1) - 1 = Rank(lower, ev)
      BY <1>4, <1>6
    <2>2. PICK k \in 1 .. n : k - 1 = Rank(lower, ev)
      BY <2>1
    <2>3. QED
      BY <1>7, <1>9, <1>10, <2>2
  <1>12. ASSUME NEW j \in DOMAIN s, NEW k \in DOMAIN s, j < k PROVE Before(s[j], s[k])
    <2>1. /\ s[j] \in E /\ Rank(lower, s[j]) = j - 1
          /\ s[k] \in E /\ Rank(lower, s[k]) = k - 1
      BY <1>9, <1>10
    <2>2. j - 1 < k - 1
      BY <1>10, <1>12
    <2>3. s[j] \in lower[s[k]]
      BY <1>7, <2>1, <2>2
    <2>4. QED
      BY <1>1, <2>1, <2>3
  <1>13. QED
    BY <1>4, <1>10, <1>11, <1>12

LEMMA FirstOfIs ==
    ASSUME NEW E, NEW s \in Seq(E), NEW n \in Nat, NEW t, t = FirstOf(s, n)
    PROVE  /\ Len(t) = IF n < Len(s) THEN n ELSE Len(s)
           /\ \A k \in DOMAIN t : k \in DOMAIN s /\ k <= Len(t) /\ t[k] = s[k]
           /\ \A k \in DOMAIN s : k <= Len(t) => k \in DOMAIN t
  <1> DEFINE m == IF n < Len(s) THEN n ELSE Len(s)
  <1>1. m \in Nat /\ m <= Len(s) /\ Len(s) \in Nat /\ DOMAIN s = 1 .. Len(s)
    OBVIOUS
  <1>2. t = SubSeq(s, 1, m)
    BY DEF FirstOf
  <1> HIDE DEF m
  <1>3. Len(t) = m /\ DOMAIN t = 1 .. m /\ \A k \in 1 .. m : t[k] = s[k]
    <2>1. t = [k \in 1 .. m |-> s[k]]
      BY <1>1, <1>2
    <2>2. t \in [1 .. m -> E]
      BY <1>1, <2>1
    <2>3. QED
      BY <1>1, <2>1, <2>2
  <1>4. Len(t) = IF n < Len(s) THEN n ELSE Len(s)
    BY <1>3 DEF m
  <1>5. QED
    BY <1>1, <1>3, <1>4

\* A fact was first seen in one spelling, the one the graph displays.
LEMMA DisplayedIsFirst ==
    ASSUME Inv, NEW f \in Fact, NEW v \in Value
    PROVE  Loaded.facts[f] = v <=> FirstSeenAs(f, v)
  <1>1. Loaded.facts = graph.facts
    BY GraphSaysSo, LoadedIs
  <1>2. ASSUME graph.facts[f] = v PROVE FirstSeenAs(f, v)
    <2>1. Knows(graph, f)
      BY <1>2, ValueNotMissing DEF Knows
    <2>2. QED
      BY <1>2, <2>1 DEF Inv, GraphIsSaid
  <1>3. ASSUME FirstSeenAs(f, v) PROVE graph.facts[f] = v
    <2>1. PICK ev \in SeenIn(f) : /\ \A other \in SeenIn(f) \ {ev} : Before(ev, other)
                                  /\ FirstIn(said[ev[1]][ev[2]], f, v)
      BY <1>3 DEF FirstSeenAs
    <2>2. f \in Said
      BY <2>1, KnownAre
    <2> DEFINE w == graph.facts[f]
    <2>3. FirstSeenAs(f, w)
      BY <2>2 DEF Inv, GraphIsSaid
    <2> HIDE DEF w
    <2>4. PICK ew \in SeenIn(f) : /\ \A other \in SeenIn(f) \ {ew} : Before(ew, other)
                                  /\ FirstIn(said[ew[1]][ew[2]], f, w)
      BY <2>3 DEF FirstSeenAs
    <2>5. ev = ew
      <3>1. ev \in Nat \X Nat /\ ew \in Nat \X Nat
        BY SaidFinite
      <3>2. QED
        BY <2>1, <2>4, <3>1, BeforeOrders
    <2> DEFINE item == said[ev[1]][ev[2]]
    <2>6. item \in Seq(Occurrence)
      <3>1. ev \in SeenBy(said, f) /\ said \in Histories
        BY GraphSaysSo, HistoryIs
      <3>2. QED
        BY <3>1, EventAt DEF SeenBy
    <2>7. FirstIn(item, f, v) /\ FirstIn(item, f, w)
      BY <2>1, <2>4, <2>5
    <2> HIDE DEF item
    <2>8. PICK j \in DOMAIN item : /\ Canonical[v] = f /\ item[j].value = v
                                   /\ \A i \in DOMAIN item : Canonical[item[i].value] = f => j <= i
      BY <2>7 DEF FirstIn
    <2>9. PICK k \in DOMAIN item : /\ Canonical[w] = f /\ item[k].value = w
                                   /\ \A i \in DOMAIN item : Canonical[item[i].value] = f => k <= i
      BY <2>7 DEF FirstIn
    <2>10. j <= k /\ k <= j /\ j \in Nat /\ k \in Nat
      BY <2>6, <2>8, <2>9
    <2>11. v = w
      BY <2>8, <2>9, <2>10
    <2>12. QED
      BY <2>11 DEF w
  <1>4. QED
    BY <1>1, <1>2, <1>3

LEMMA FoundIsSeen ==
    ASSUME Inv, NEW v \in Value
    PROVE  UNION {SourceEvents(Loaded, f) : f \in FindByValue(v)} =
               IF Canonical[v] \in Fact /\ FirstSeenAs(Canonical[v], v)
               THEN SeenIn(Canonical[v]) ELSE {}
  <1> DEFINE c == Canonical[v]
  <1>1. \A f : f \in FindByValue(v) <=> f \in Fact /\ FirstSeenAs(f, v)
    BY DisplayedIsFirst DEF FindByValue
  <1>2. \A f : FirstSeenAs(f, v) => f = c
    BY DEF FirstSeenAs, FirstIn
  <1>3. \A f : SourceEvents(Loaded, f) = SeenIn(f)
    BY SourcesAreSeen
  <1> HIDE DEF c
  <1>4. \A f : f \in FindByValue(v) <=> f = c /\ c \in Fact /\ FirstSeenAs(c, v)
    BY <1>1, <1>2
  <1>5. \A ev : ev \in UNION {SourceEvents(Loaded, f) : f \in FindByValue(v)}
                  <=> c \in Fact /\ FirstSeenAs(c, v) /\ ev \in SeenIn(c)
    BY <1>3, <1>4
  <1>6. UNION {SourceEvents(Loaded, f) : f \in FindByValue(v)} =
            IF c \in Fact /\ FirstSeenAs(c, v) THEN SeenIn(c) ELSE {}
    BY <1>5
  <1>7. QED
    BY <1>6 DEF c

LEMMA TimelineSo == Inv => TimelineIsHistory
  <1> SUFFICES ASSUME Inv, NEW v \in Value, NEW limit \in Limit, NEW t, t = Timeline(v, limit),
                      NEW seen,
                      seen = IF Canonical[v] \in Fact /\ FirstSeenAs(Canonical[v], v)
                             THEN SeenIn(Canonical[v]) ELSE {}
               PROVE  /\ ToSet(t) \subseteq seen
                      /\ Len(t) = IF limit < Cardinality(seen) THEN limit ELSE Cardinality(seen)
                      /\ \A k \in DOMAIN t : \A ev \in seen \ ToSet(t) : Before(t[k], ev)
                      /\ \A j, k \in DOMAIN t : j < k => Before(t[j], t[k])
    BY DEF TimelineIsHistory
  <1>1. UNION {SourceEvents(Loaded, f) : f \in FindByValue(v)} = seen
    BY FoundIsSeen
  <1>2. limit \in Nat
    BY RecallAssumption
  <1>3. seen \in SUBSET (Nat \X Nat) /\ IsFiniteSet(seen)
    BY SaidFinite, FS_EmptySet
  <1> DEFINE s == InOrder(seen)
  <1>4. /\ s \in Seq(seen) /\ Len(s) = Cardinality(seen) /\ Len(s) \in Nat
        /\ \A ev \in seen : \E k \in DOMAIN s : s[k] = ev
        /\ \A j, k \in DOMAIN s : j < k => Before(s[j], s[k])
    BY <1>3, InOrderIs
  <1>5. t = FirstOf(s, limit)
    BY <1>1 DEF Timeline
  <1> HIDE DEF s
  <1>6. /\ Len(t) = IF limit < Len(s) THEN limit ELSE Len(s)
        /\ \A k \in DOMAIN t : k \in DOMAIN s /\ k <= Len(t) /\ t[k] = s[k]
        /\ \A k \in DOMAIN s : k <= Len(t) => k \in DOMAIN t
    BY <1>2, <1>4, <1>5, FirstOfIs
  <1>7. Len(t) = IF limit < Cardinality(seen) THEN limit ELSE Cardinality(seen)
    BY <1>4, <1>6
  <1>8. \A k \in DOMAIN s : s[k] \in seen /\ k \in Nat
    BY <1>4
  <1>9. ToSet(t) \subseteq seen
    BY <1>6, <1>8 DEF ToSet
  <1>10. \A j, k \in DOMAIN t : j < k => Before(t[j], t[k])
    BY <1>4, <1>6
  <1>11. ASSUME NEW k \in DOMAIN t, NEW ev \in seen, ev \notin ToSet(t) PROVE Before(t[k], ev)
    <2>1. PICK j \in DOMAIN s : s[j] = ev
      BY <1>4
    <2>2. j \notin DOMAIN t
      BY <1>6, <1>11, <2>1 DEF ToSet
    <2>3. Len(t) \in Nat
      BY <1>2, <1>4, <1>6
    <2>4. Len(t) < j
      BY <1>6, <1>8, <2>2, <2>3
    <2>5. k \in DOMAIN s /\ k <= Len(t) /\ t[k] = s[k]
      BY <1>6
    <2>6. k < j
      BY <1>8, <2>3, <2>4, <2>5
    <2>7. QED
      BY <1>4, <2>1, <2>5, <2>6
  <1>12. QED
    BY <1>7, <1>9, <1>10, <1>11

\* A timeline shows the oldest items its fact was seen in, whatever spellings it
\* had there, in the order they came in, and is found by the first of these.
THEOREM TimelineKeeps == Spec => []TimelineIsHistory
  BY HistoryIsKept, TimelineSo, PTL

------------------------------------------------------------------------------
(* The overviews.                                                           *)

\* The facts of a type that were returned.
SaidOf(type) == {f \in Said : TypeOf[f] = type}

LEMMA FactsAreSaid ==
    ASSUME Inv
    PROVE  /\ \A type : FactsOf(Loaded, type) = SaidOf(type)
           /\ {f \in Fact : Knows(graph, f)} = Said
  <1>1. \A f : f \in Fact /\ Knows(Loaded, f) <=> f \in Said
    BY KnownAre
  <1>2. \A f : f \in Fact /\ Knows(graph, f) <=> f \in Said
    BY KnownAre
  <1>3. \A type : FactsOf(Loaded, type) = SaidOf(type)
    BY <1>1 DEF FactsOf, SaidOf
  <1>4. {f \in Fact : Knows(graph, f)} = Said
    BY <1>2
  <1>5. QED
    BY <1>3, <1>4

LEMMA TypesAre == Inv => TypesShown = Declared \cup {TypeOf[f] : f \in Said}
  <1> SUFFICES ASSUME Inv PROVE TypesShown = Declared \cup {TypeOf[f] : f \in Said}
    OBVIOUS
  <1>1. \A type : FactsOf(Loaded, type) # {} <=> \E f \in Said : TypeOf[f] = type
    BY FactsAreSaid DEF SaidOf
  <1>2. \A f \in Said : TypeOf[f] \in NodeType
    BY KnownAre DEF NodeType
  <1>3. \A type : type \in TypesShown
                    <=> type \in Declared \/ (type \in NodeType /\ FactsOf(Loaded, type) # {})
    BY DEF TypesShown
  <1>4. \A type : type \in TypesShown <=> type \in Declared \cup {TypeOf[f] : f \in Said}
    BY <1>1, <1>2, <1>3
  <1>5. TypesShown = Declared \cup {type \in TypesShown : type \in TypesShown}
    BY <1>3
  <1>6. QED
    BY <1>4, <1>5

\* A fact weighs as many items as named it: none is listed twice after a load.
LEMMA WeightIs ==
    ASSUME Inv, NEW f
    PROVE  Weight(Loaded, f) = Cardinality(SeenIn(f)) /\ Cardinality(SeenIn(f)) \in Nat
  <1>1. SourceEvents(Loaded, f) = SeenIn(f)
    BY SourcesAreSeen
  <1>2. Loaded.repeats = {}
    BY DEF Inv, TypeOK, Graph, Loaded
  <1>3. {p \in Loaded.repeats : p[1] = f} = {}
    BY <1>2
  <1>4. Cardinality({p \in Loaded.repeats : p[1] = f}) = 0
    BY <1>3, FS_EmptySet
  <1>5. Cardinality(SeenIn(f)) \in Nat
    BY SaidFinite, FS_CardinalityType
  <1>6. Weight(Loaded, f) = Cardinality(SeenIn(f)) + 0
    BY <1>1, <1>4 DEF Weight
  <1>7. QED
    BY <1>5, <1>6

LEMMA OverviewSo == Inv => OverviewIsHistory
  <1> SUFFICES ASSUME Inv PROVE OverviewIsHistory
    OBVIOUS
  <1>1. TypesShown = Declared \cup {TypeOf[f] : f \in Said}
    BY TypesAre
  <1>2. \A type : FactsOf(Loaded, type) = SaidOf(type)
    BY FactsAreSaid
  <1>3. \A type : CountShown(type) = Cardinality(SaidOf(type))
    BY <1>2 DEF CountShown
  <1>4. ASSUME NEW type, NEW n \in Top, NEW kept \in TopFacts(type, n),
               NEW f \in kept, NEW h \in SaidOf(type) \ kept
        PROVE  Cardinality(SeenIn(f)) >= Cardinality(SeenIn(h))
    <2>1. kept \in Heaviest(Loaded, SaidOf(type), n)
      BY <1>2 DEF TopFacts
    <2>2. Weight(Loaded, f) >= Weight(Loaded, h)
      BY <2>1 DEF Heaviest
    <2>3. /\ Weight(Loaded, f) = Cardinality(SeenIn(f))
          /\ Weight(Loaded, h) = Cardinality(SeenIn(h))
      BY WeightIs
    <2>4. QED
      BY <2>2, <2>3
  <1>5. ASSUME NEW type, NEW pattern \in SUBSET Fact, NEW limit \in Top,
               NEW found \in SearchNodes(type, pattern, limit)
        PROVE  /\ found \subseteq SaidOf(type) \cap pattern
               /\ Cardinality(found) < limit => found = SaidOf(type) \cap pattern
    <2> DEFINE hits == SaidOf(type) \cap pattern
               most == IF limit = 0 THEN 1 ELSE limit
    <2>1. limit \in Nat /\ most \in Nat /\ ~ (most < limit)
      BY ReportAssumption
    <2>2. found \in IF Cardinality(hits) <= most THEN {hits}
                    ELSE {fs \in SUBSET hits : Cardinality(fs) = most}
      BY <1>2 DEF SearchNodes
    <2> HIDE DEF hits, most
    <2>3. \/ found = hits
          \/ found \subseteq hits /\ Cardinality(found) = most
      BY <2>2
    <2>4. found \subseteq hits /\ (Cardinality(found) < limit => found = hits)
      BY <2>1, <2>3
    <2>5. QED
      BY <2>4 DEF hits
  <1>6. ASSUME NEW type
        PROVE  LET facts == SaidOf(type) IN
               /\ CountShown(type) = Cardinality(facts)
               /\ \A n \in Top : \A kept \in TopFacts(type, n) :
                     \A f \in kept, h \in facts \ kept :
                         Cardinality(SeenIn(f)) >= Cardinality(SeenIn(h))
               /\ \A pattern \in SUBSET Fact, limit \in Top : \A found \in SearchNodes(type, pattern, limit) :
                     /\ found \subseteq facts \cap pattern
                     /\ Cardinality(found) < limit => found = facts \cap pattern
    BY <1>3, <1>4, <1>5
  <1>7. QED
    BY <1>1, <1>6 DEF OverviewIsHistory, SaidOf

\* The overviews have every type that was declared or seen, count each fact
\* returned once, leave out none more often seen than one they show, and miss a
\* match only beyond the limit.
THEOREM OverviewTells == Spec => []OverviewIsHistory
  BY HistoryIsKept, OverviewSo, PTL

LEMMA DrawnAre ==
    ASSUME Inv, NEW kept \in SUBSET Said
    PROVE  Drawn(kept) = UNION {SeenIn(f) : f \in kept}
  <1>1. \A f : SourceEvents(graph, f) = SeenIn(f)
    BY SourcesAreSeen
  <1>2. \A f, ev : f \in TargetsOf(ev) <=> ev \in SeenIn(f)
    BY TargetsAreSeen
  <1>3. \A ev : ev \in Drawn(kept) <=> /\ \E f \in kept : ev \in SeenIn(f)
                                       /\ \E f \in kept : f \in TargetsOf(ev)
    BY <1>1 DEF Drawn
  <1>4. \A ev : ev \in Drawn(kept) <=> ev \in UNION {SeenIn(f) : f \in kept}
    BY <1>2, <1>3
  <1>5. Drawn(kept) = {ev \in UNION {SourceEvents(graph, f) : f \in kept} : ev \in Drawn(kept)}
    BY DEF Drawn
  <1>6. QED
    BY <1>4, <1>5

LEMMA ArrowsOf ==
    ASSUME Inv, NEW kept \in SUBSET Said, NEW f \in kept
    PROVE  SeenIn(f) = {e.event : e \in {a \in Arrows(kept) : a.target = f}}
  <1>1. Drawn(kept) = UNION {SeenIn(g) : g \in kept}
    BY DrawnAre
  <1>2. \A ev : ev \in SeenIn(f) <=> \E e \in graph.edges : e.event = ev /\ e.target = f
    BY EdgeOfSeen
  <1>3. \A ev \in SeenIn(f) : ev \in Drawn(kept)
    BY <1>1
  <1>4. \A e : e \in Arrows(kept) /\ e.target = f
                 <=> e \in graph.edges /\ e.target = f /\ e.event \in Drawn(kept)
    BY DEF Arrows
  <1>5. \A ev : ev \in SeenIn(f) <=> \E e \in Arrows(kept) : e.event = ev /\ e.target = f
    BY <1>2, <1>3, <1>4
  <1>6. SeenIn(f) = {ev \in SaidEvents : ev \in SeenIn(f)}
    BY DEF SeenIn
  <1>7. QED
    BY <1>5, <1>6

LEMMA DrawingSo == Inv => DrawingIsConnected
  <1> SUFFICES ASSUME Inv, NEW n \in Top, NEW kept \in Kept(n)
               PROVE  /\ Cardinality(kept) + Extra(kept) = Cardinality(Said)
                      /\ Drawn(kept) = UNION {SeenIn(f) : f \in kept}
                      /\ \A f \in kept : SeenIn(f) = {e.event : e \in {a \in Arrows(kept) : a.target = f}}
    BY DEF DrawingIsConnected
  <1>1. {f \in Fact : Knows(graph, f)} = Said
    BY FactsAreSaid
  <1>2. kept \in SUBSET Said
    BY <1>1 DEF Kept, Heaviest
  <1>3. Cardinality(kept) + Extra(kept) = Cardinality(Said)
    <2>1. IsFiniteSet(Said) /\ IsFiniteSet(kept)
      BY <1>2, SaidFinite, FS_Subset
    <2>2. Cardinality(Said) \in Nat /\ Cardinality(kept) \in Nat
      BY <2>1, FS_CardinalityType
    <2>3. Said \cap kept = kept
      BY <1>2
    <2>4. Cardinality(Said \ kept) = Cardinality(Said) - Cardinality(kept)
      BY <2>1, <2>3, FS_Difference
    <2>5. Extra(kept) = Cardinality(Said \ kept)
      BY <1>1 DEF Extra
    <2>6. QED
      BY <2>2, <2>4, <2>5
  <1>4. Drawn(kept) = UNION {SeenIn(f) : f \in kept}
    BY <1>2, DrawnAre
  <1>5. \A f \in kept : SeenIn(f) = {e.event : e \in {a \in Arrows(kept) : a.target = f}}
    BY <1>2, ArrowsOf
  <1>6. QED
    BY <1>3, <1>4, <1>5

\* A drawing of the session loses no fact without counting it, and shows a fact
\* with every event it was seen in.
THEOREM DrawingConnects == Spec => []DrawingIsConnected
  BY HistoryIsKept, DrawingSo, PTL
===============================================================================
