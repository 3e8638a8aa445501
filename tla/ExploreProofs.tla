----------------------------- MODULE ExploreProofs -----------------------------
(****************************************************************************)
(* The walk of explore finds what find_path finds, neither more nor less,   *)
(* on every graph without ghosts and for every request, in whatever order   *)
(* the nodes of a hop are expanded.                                         *)
(****************************************************************************)
EXTENDS Explore, FiniteSetTheorems, WellFoundedInduction, TLAPS

USE ExploreAssumption

\* The natural numbers are well ordered.
LEMMA Smallest ==
    ASSUME NEW S \in SUBSET Nat, S # {}
    PROVE  \E n \in S : \A m \in S : n <= m
  <1> DEFINE R == OpToRel(<, Nat)
  <1>1. IsWellFoundedOn(R, Nat)
    BY NatLessThanWellFounded
  <1>2. \A m, n \in Nat : m < n => <<m, n>> \in R
    BY DEF OpToRel
  <1> HIDE DEF R
  <1>3. PICK n \in S : \A m \in S : ~ (<<m, n>> \in R)
    BY <1>1, WFMin
  <1>4. ASSUME NEW m \in S PROVE n <= m
    <2>1. m \in Nat /\ n \in Nat /\ ~ (m < n)
      BY <1>2, <1>3
    <2>2. QED
      BY <2>1
  <1>5. QED
    BY <1>4

------------------------------------------------------------------------------
(* Paths, as functions on their positions.                                  *)

IsPath(p, a, b, n, skip, via) ==
    /\ p \in [1 .. n + 1 -> via \cup {a, b}]
    /\ p[1] = a /\ p[n + 1] = b
    /\ \A i \in 2 .. n : p[i] \in via
    /\ \A i, j \in 1 .. n + 1 : i # j => p[i] # p[j]
    /\ \A i \in 1 .. n : PathEdge(p[i], p[i + 1], skip)

LEMMA PathByIs ==
    ASSUME NEW a, NEW b, NEW n \in Nat \ {0}, NEW skip, NEW via
    PROVE  PathBy(a, b, n, skip, via) <=> \E p : IsPath(p, a, b, n, skip, via)
  <1>1. ASSUME NEW between \in [1 .. n - 1 -> via],
               NEW p, p = [i \in 1 .. n + 1 |-> IF i = 1 THEN a ELSE IF i = n + 1 THEN b
                                               ELSE between[i - 1]]
        PROVE  /\ DOMAIN p = 1 .. n + 1 /\ p[1] = a /\ p[n + 1] = b
               /\ \A i \in 2 .. n : p[i] = between[i - 1] /\ p[i] \in via
               /\ p \in [1 .. n + 1 -> via \cup {a, b}]
    <2>1. \A i \in 2 .. n : i # 1 /\ i # n + 1 /\ i \in 1 .. n + 1 /\ i - 1 \in 1 .. n - 1
      OBVIOUS
    <2>2. \A i \in 1 .. n + 1 : i = 1 \/ i = n + 1 \/ i \in 2 .. n
      OBVIOUS
    <2>3. \A i \in 2 .. n : p[i] = between[i - 1] /\ p[i] \in via
      BY <1>1, <2>1
    <2>4. DOMAIN p = 1 .. n + 1 /\ p[1] = a /\ p[n + 1] = b
      BY <1>1
    <2>5. QED
      BY <1>1, <2>2, <2>3, <2>4
  <1>2. ASSUME PathBy(a, b, n, skip, via)
        PROVE  \E p : IsPath(p, a, b, n, skip, via)
    <2>1. PICK between \in [1 .. n - 1 -> via] :
             LET path == [i \in 1 .. n + 1 |-> IF i = 1 THEN a ELSE IF i = n + 1 THEN b
                                               ELSE between[i - 1]]
             IN Simple(path) /\ \A i \in 1 .. n : PathEdge(path[i], path[i + 1], skip)
      BY <1>2 DEF PathBy
    <2>2. PICK p : p = [i \in 1 .. n + 1 |-> IF i = 1 THEN a ELSE IF i = n + 1 THEN b
                                               ELSE between[i - 1]]
      OBVIOUS
    <2>3. Simple(p) /\ \A i \in 1 .. n : PathEdge(p[i], p[i + 1], skip)
      BY <2>1, <2>2
    <2>4. /\ DOMAIN p = 1 .. n + 1 /\ p[1] = a /\ p[n + 1] = b
          /\ \A i \in 2 .. n : p[i] \in via
          /\ p \in [1 .. n + 1 -> via \cup {a, b}]
      BY <1>1, <2>2
    <2>5. \A i, j \in 1 .. n + 1 : i # j => p[i] # p[j]
      BY <2>3, <2>4 DEF Simple
    <2>6. IsPath(p, a, b, n, skip, via)
      BY <2>3, <2>4, <2>5 DEF IsPath
    <2>7. QED
      BY <2>6
  <1>3. ASSUME NEW p, IsPath(p, a, b, n, skip, via)
        PROVE  PathBy(a, b, n, skip, via)
    <2> DEFINE between == [i \in 1 .. n - 1 |-> p[i + 1]]
    <2>1. between \in [1 .. n - 1 -> via]
      BY <1>3 DEF IsPath
    <2>2. PICK q : q = [i \in 1 .. n + 1 |-> IF i = 1 THEN a ELSE IF i = n + 1 THEN b
                                               ELSE between[i - 1]]
      OBVIOUS
    <2>3. \A i \in 2 .. n : between[i - 1] = p[i]
      OBVIOUS
    <2> HIDE DEF between
    <2>4. /\ DOMAIN q = 1 .. n + 1 /\ q[1] = a /\ q[n + 1] = b
          /\ \A i \in 2 .. n : q[i] = between[i - 1]
          /\ q \in [1 .. n + 1 -> via \cup {a, b}]
      BY <1>1, <2>1, <2>2
    <2>5. \A i \in 1 .. n + 1 : q[i] = p[i]
      BY <1>3, <2>3, <2>4 DEF IsPath
    <2>6. Simple(q) /\ \A i \in 1 .. n : PathEdge(q[i], q[i + 1], skip)
      BY <1>3, <2>4, <2>5 DEF IsPath, Simple
    <2>7. QED
      BY <2>1, <2>2, <2>6 DEF PathBy
  <1>4. QED
    BY <1>2, <1>3

LEMMA PathGrows ==
    ASSUME NEW a, NEW b, NEW n \in Nat \ {0}, NEW skip, NEW V, NEW W, V \subseteq W,
           PathBy(a, b, n, skip, V)
    PROVE  PathBy(a, b, n, skip, W)
  <1>1. PICK p : IsPath(p, a, b, n, skip, V)
    BY PathByIs
  <1>2. IsPath(p, a, b, n, skip, W)
    BY <1>1 DEF IsPath
  <1>3. QED
    BY <1>2, PathByIs

\* One edge is a path.
LEMMA PathOfEdge ==
    ASSUME NEW a, NEW b, a # b, NEW skip, NEW V, PathEdge(a, b, skip)
    PROVE  PathBy(a, b, 1, skip, V)
  <1> DEFINE p == [i \in 1 .. 2 |-> IF i = 1 THEN a ELSE b]
  <1>1. p \in [1 .. 1 + 1 -> V \cup {a, b}] /\ p[1] = a /\ p[1 + 1] = b
    OBVIOUS
  <1> HIDE DEF p
  <1>2. \A i, j \in 1 .. 1 + 1 : i # j => p[i] # p[j]
    BY <1>1
  <1>3. \A i \in 1 .. 1 : PathEdge(p[i], p[i + 1], skip)
    <2>1. \A i \in 1 .. 1 : i = 1
      OBVIOUS
    <2>2. QED
      BY <1>1, <2>1
  <1>4. \A i \in 2 .. 1 : p[i] \in V
    OBVIOUS
  <1>5. IsPath(p, a, b, 1, skip, V)
    BY <1>1, <1>2, <1>3, <1>4 DEF IsPath
  <1>6. QED
    BY <1>5, PathByIs

\* A path goes on to a node that it has not been to.
LEMMA PathExtends ==
    ASSUME NEW a, NEW b, NEW c, NEW n \in Nat \ {0}, NEW skip, NEW V,
           PathBy(a, b, n, skip, V), PathEdge(b, c, skip), b \in V, c \notin V, c # a
    PROVE  PathBy(a, c, n + 1, skip, V)
  <1>1. PICK p : IsPath(p, a, b, n, skip, V)
    BY PathByIs
  <1> DEFINE q == [i \in 1 .. (n + 1) + 1 |-> IF i = (n + 1) + 1 THEN c ELSE p[i]]
  <1>2. /\ p \in [1 .. n + 1 -> V \cup {a, b}] /\ p[1] = a /\ p[n + 1] = b
        /\ \A i \in 2 .. n : p[i] \in V
        /\ \A i, j \in 1 .. n + 1 : i # j => p[i] # p[j]
        /\ \A i \in 1 .. n : PathEdge(p[i], p[i + 1], skip)
    BY <1>1 DEF IsPath
  <1>3. /\ DOMAIN q = 1 .. (n + 1) + 1 /\ q[(n + 1) + 1] = c
        /\ \A i \in 1 .. n + 1 : q[i] = p[i] /\ i \in 1 .. (n + 1) + 1
        /\ q = [i \in 1 .. (n + 1) + 1 |-> q[i]]
    OBVIOUS
  <1>4. \A i \in 1 .. (n + 1) + 1 : i = (n + 1) + 1 \/ i \in 1 .. n + 1
    OBVIOUS
  <1>5. \A i \in 1 .. n + 1 : p[i] \in V \cup {a} /\ p[i] # c
    BY <1>2
  <1>6. \A i \in 2 .. n + 1 : i \in 1 .. n + 1 /\ p[i] \in V
    BY <1>2
  <1> HIDE DEF q
  <1>7. q \in [1 .. (n + 1) + 1 -> V \cup {a, c}]
    BY <1>3, <1>4, <1>5
  <1>8. q[1] = a /\ \A i \in 2 .. n + 1 : q[i] \in V
    <2>1. 1 \in 1 .. n + 1
      OBVIOUS
    <2>2. q[1] = a
      BY <1>2, <1>3, <2>1
    <2>3. QED
      BY <1>3, <1>6, <2>2
  <1>9. \A i, j \in 1 .. (n + 1) + 1 : i # j => q[i] # q[j]
    BY <1>2, <1>3, <1>4, <1>5
  <1>10. \A i \in 1 .. n + 1 : PathEdge(q[i], q[i + 1], skip)
    <2> SUFFICES ASSUME NEW i \in 1 .. n + 1 PROVE PathEdge(q[i], q[i + 1], skip)
      OBVIOUS
    <2>1. CASE i = n + 1
      BY <1>2, <1>3, <2>1
    <2>2. CASE i # n + 1
      <3>1. i \in 1 .. n /\ i + 1 \in 1 .. n + 1
        BY <2>2
      <3>2. QED
        BY <1>2, <1>3, <3>1
    <2>3. QED
      BY <2>1, <2>2
  <1>11. IsPath(q, a, c, n + 1, skip, V)
    BY <1>3, <1>7, <1>8, <1>9, <1>10 DEF IsPath
  <1>12. QED
    BY <1>11, PathByIs

\* A path of more than one hop has a last but one node.
LEMMA PathShortens ==
    ASSUME NEW a, NEW c, NEW n \in Nat \ {0}, NEW skip, NEW V, PathBy(a, c, n + 1, skip, V)
    PROVE  \E b \in V \ {a} : b # c /\ PathBy(a, b, n, skip, V) /\ PathEdge(b, c, skip)
  <1>1. PICK p : IsPath(p, a, c, n + 1, skip, V)
    BY PathByIs
  <1> DEFINE q == [i \in 1 .. n + 1 |-> p[i]]
             b == p[n + 1]
  <1>2. /\ p \in [1 .. (n + 1) + 1 -> V \cup {a, c}] /\ p[1] = a /\ p[(n + 1) + 1] = c
        /\ \A i \in 2 .. n + 1 : p[i] \in V
        /\ \A i, j \in 1 .. (n + 1) + 1 : i # j => p[i] # p[j]
        /\ \A i \in 1 .. n + 1 : PathEdge(p[i], p[i + 1], skip)
    BY <1>1 DEF IsPath
  <1>3. /\ \A i \in 1 .. n + 1 : q[i] = p[i] /\ i \in 1 .. (n + 1) + 1
        /\ DOMAIN q = 1 .. n + 1 /\ q = [i \in 1 .. n + 1 |-> q[i]]
    OBVIOUS
  <1>4. n + 1 \in 2 .. n + 1 /\ n + 1 \in 1 .. (n + 1) + 1 /\ 1 \in 1 .. (n + 1) + 1 /\ n + 1 # 1
        /\ (n + 1) + 1 \in 1 .. (n + 1) + 1 /\ (n + 1) + 1 # n + 1 /\ n + 1 \in 1 .. n + 1
    OBVIOUS
  <1>5. b \in V /\ b # a /\ b # c /\ PathEdge(b, c, skip)
    BY <1>2, <1>4
  <1> HIDE DEF q
  <1>6. \A i \in 1 .. n + 1 : i = 1 \/ i \in 2 .. n + 1
    OBVIOUS
  <1>7. q \in [1 .. n + 1 -> V \cup {a, b}]
    BY <1>2, <1>3, <1>6
  <1>8. q[1] = a /\ q[n + 1] = b /\ \A i \in 2 .. n : q[i] \in V
    BY <1>2, <1>3, <1>4
  <1>9. \A i, j \in 1 .. n + 1 : i # j => q[i] # q[j]
    BY <1>2, <1>3
  <1>10. \A i \in 1 .. n : PathEdge(q[i], q[i + 1], skip)
    <2>1. \A i \in 1 .. n : i \in 1 .. n + 1 /\ i + 1 \in 1 .. n + 1
      OBVIOUS
    <2>2. QED
      BY <1>2, <1>3, <2>1
  <1>11. IsPath(q, a, b, n, skip, V)
    BY <1>7, <1>8, <1>9, <1>10 DEF IsPath
  <1>12. PathBy(a, b, n, skip, V)
    BY <1>11, PathByIs
  <1>13. QED
    BY <1>5, <1>12

\* A set that has the start and is closed under edges has all that paths
\* lead to.
LEMMA PathStaysWithin ==
    ASSUME NEW a, NEW b, NEW n \in Nat \ {0}, NEW skip, NEW V, NEW S, PathBy(a, b, n, skip, V),
           a \in S, \A x \in S : \A y : y # x /\ PathEdge(x, y, skip) => y \in S
    PROVE  b \in S
  <1>1. PICK p : IsPath(p, a, b, n, skip, V)
    BY PathByIs
  <1>2. /\ p[1] = a /\ p[n + 1] = b
        /\ \A i, j \in 1 .. n + 1 : i # j => p[i] # p[j]
        /\ \A i \in 1 .. n : PathEdge(p[i], p[i + 1], skip)
    BY <1>1 DEF IsPath
  <1> DEFINE Out == {i \in 1 .. n + 1 : p[i] \notin S}
  <1> SUFFICES ASSUME b \notin S PROVE FALSE
    OBVIOUS
  <1>3. Out \in SUBSET Nat /\ n + 1 \in Out
    BY <1>2
  <1>4. PICK i \in Out : \A j \in Out : i <= j
    BY <1>3, Smallest
  <1>5. i # 1 /\ i \in 1 .. n + 1
    BY <1>2
  <1>6. i - 1 \in 1 .. n /\ (i - 1) + 1 = i /\ i - 1 \in 1 .. n + 1 /\ ~ (i <= i - 1) /\ i # i - 1
    BY <1>5
  <1>7. p[i - 1] \in S
    BY <1>4, <1>6
  <1>8. p[i] # p[i - 1] /\ PathEdge(p[i - 1], p[i], skip)
    BY <1>2, <1>5, <1>6
  <1>9. p[i] \in S
    BY <1>7, <1>8
  <1>10. QED
    BY <1>9

------------------------------------------------------------------------------
(* Edges and neighbours.                                                    *)

LEMMA GraphIs ==
    ASSUME TypeOK
    PROVE  /\ \A e \in g.edges : e.target \in Fact /\ Knows(g, e.target) /\ e.event \in g.events
           /\ KnownFacts \subseteq Fact /\ g.events \cap Fact = {}
           /\ request \in [start : Fact, depth : Nat, direction : Direction,
                           skip : BOOLEAN, max : Nat \ {0}]
           /\ Nodes = KnownFacts \cup g.events
  <1>1. g \in Graph /\ Closed(g) /\ g.events \cap Fact = {}
    BY DEF TypeOK
  <1>2. \A e \in g.edges : e.target \in Fact
    BY <1>1 DEF Graph, Edge
  <1>3. \A e \in g.edges : Knows(g, e.target) /\ e.event \in g.events
    BY <1>1 DEF Closed, GhostFacts, GhostEvents
  <1>4. QED
    BY <1>1, <1>2, <1>3 DEF TypeOK, KnownFacts, Nodes

LEMMA NeighboursKnown ==
    ASSUME TypeOK, NEW n
    PROVE  Neighbours(n) \subseteq PathNodes(request.skip) /\ n \notin ThroughEvents(n)
  BY GraphIs DEF Neighbours, PathNodes, ThroughEvents, FollowEdges, TargetsOf, OutOf, InTo, KnownFacts

\* What explore takes for a neighbour, find_path takes for an edge.
LEMMA NeighbourHasEdge ==
    ASSUME TypeOK, NEW n, NEW m \in Neighbours(n)
    PROVE  PathEdge(n, m, request.skip)
  <1>1. CASE request.skip
    <2>1. PICK ev \in SourceEvents(g, n) : m \in TargetsOf(ev)
      BY <1>1 DEF Neighbours, ThroughEvents
    <2>2. PICK e \in g.edges : e.target = n /\ e.event = ev
      BY <2>1 DEF SourceEvents
    <2>3. n \in TargetsOf(ev) /\ TargetsOf(ev) \subseteq KnownFacts /\ ev \in g.events
      BY <2>1, <2>2, GraphIs DEF TargetsOf, SourceEvents, KnownFacts
    <2>4. QED
      BY <1>1, <2>1, <2>3 DEF PathEdge
  <1>2. CASE ~request.skip
    BY <1>2 DEF Neighbours, FollowEdges, OutOf, InTo, PathEdge
  <1>3. QED
    BY <1>1, <1>2

\* And the other way round, if the walk looks both ways.
LEMMA EdgeHasNeighbour ==
    ASSUME TypeOK, request.skip \/ request.direction = "both", NEW n, NEW m, n # m,
           PathEdge(n, m, request.skip)
    PROVE  m \in Neighbours(n)
  <1>1. CASE request.skip
    <2>1. PICK ev \in g.events : {n, m} \subseteq TargetsOf(ev) \cap KnownFacts
      BY <1>1 DEF PathEdge
    <2>2. ev \in SourceEvents(g, n)
      BY <2>1 DEF TargetsOf, SourceEvents
    <2>3. QED
      BY <1>1, <2>1, <2>2 DEF Neighbours, ThroughEvents
  <1>2. CASE ~request.skip
    <2>1. PICK e \in g.edges : {n, m} = {e.event, e.target}
      BY <1>2 DEF PathEdge
    <2>2. (n = e.event /\ m = e.target) \/ (n = e.target /\ m = e.event)
      BY <2>1
    <2>3. m \in OutOf(n) \cup InTo(n)
      BY <2>2 DEF OutOf, InTo
    <2>4. QED
      BY <1>2, <2>3 DEF Neighbours, FollowEdges
  <1>3. QED
    BY <1>1, <1>2

\* Edges lead from events to facts.
LEMMA OneWay ==
    ASSUME TypeOK
    PROVE  /\ OutOf(request.start) = {}
           /\ \A ev \in g.events : InTo(ev) = {}
           /\ InTo(request.start) \subseteq g.events
           /\ InTo(request.start) = SourceEvents(g, request.start)
           /\ ~Knows(g, request.start) => InTo(request.start) = {}
           /\ request.start \notin InTo(request.start)
  BY GraphIs DEF OutOf, InTo, SourceEvents

------------------------------------------------------------------------------
(* The walk.                                                                *)

LEMMA SameGraph ==
    ASSUME g' = g, request' = request
    PROVE  /\ \A n : Neighbours(n)' = Neighbours(n)
           /\ PathNodes(request.skip)' = PathNodes(request.skip)
           /\ \A a, b, skip : PathEdge(a, b, skip)' <=> PathEdge(a, b, skip)
           /\ \A a, b, n, skip : HasPath(a, b, n, skip)' <=> HasPath(a, b, n, skip)
           /\ \A n : InTo(n)' = InTo(n)
           /\ \A f : SourceEvents(g, f)' = SourceEvents(g, f)
           /\ KnownFacts' = KnownFacts /\ Nodes' = Nodes
           /\ \A a, b, n, skip : FindsPath(a, b, n, skip)' <=> FindsPath(a, b, n, skip)
  BY DEF Neighbours, ThroughEvents, FollowEdges, OutOf, InTo, TargetsOf, SourceEvents, PathNodes,
         KnownFacts, Nodes, HasPath, PathBy, PathEdge, FindsPath

\* What the parts of the invariant speak of does not change but by what is
\* found.
LEMMA ReachedStays ==
    ASSUME g' = g, request' = request, Found \subseteq Found', NEW n,
           NEW k \in Nat, NEW l \in Nat, k <= l, Reached(n, k)
    PROVE  Reached(n, l)'
  <1>1. CASE n = request.start
    BY <1>1 DEF Reached
  <1>2. CASE n # request.start
    <2>1. PICK j \in 1 .. k : PathBy(request.start, n, j, request.skip, Found)
      BY <1>2 DEF Reached
    <2>2. j \in 1 .. l /\ j \in Nat \ {0}
      OBVIOUS
    <2>3. PICK W : W = Found'
      OBVIOUS
    <2>4. PathBy(request.start, n, j, request.skip, W)
      BY <2>1, <2>2, <2>3, PathGrows
    <2>5. PathBy(request.start, n, j, request.skip, W)' <=> PathBy(request.start, n, j, request.skip, W)
      BY SameGraph DEF PathBy
    <2>6. PathBy(request.start, n, j, request.skip, Found)'
      BY <2>3, <2>4, <2>5 DEF PathBy
    <2>7. QED
      BY <2>2, <2>6 DEF Reached
  <1>3. QED
    BY <1>1, <1>2

LEMMA FoundIs ==
    ASSUME TypeOK
    PROVE  /\ IsFiniteSet(Found) /\ Cardinality(Found) \in Nat
           /\ Cardinality(visited) = Cardinality(Found) + 1
           /\ visited = Found \cup {request.start} /\ request.start \notin Found
  <1>1. IsFiniteSet(visited) /\ request.start \in visited
    BY DEF TypeOK
  <1>2. IsFiniteSet(Found) /\ Cardinality(Found) = Cardinality(visited) - 1
    BY <1>1, FS_RemoveElement DEF Found
  <1>3. Cardinality(visited) \in Nat /\ Cardinality(Found) \in Nat
    BY <1>1, <1>2, FS_CardinalityType
  <1>4. QED
    BY <1>1, <1>2, <1>3 DEF Found

\* How far away n may be.
Level(n) == IF pc = "done" THEN request.depth ELSE IF n \in next THEN hops + 1 ELSE hops

LEMMA LevelIs ==
    ASSUME TypeOK, LayersOK, NEW n
    PROVE  Level(n) \in Nat /\ Level(n) <= request.depth
  <1>1. hops \in Nat /\ request.depth \in Nat /\ hops <= request.depth
    BY GraphIs DEF TypeOK
  <1>2. pc # "done" => hops < request.depth
    BY DEF TypeOK, LayersOK
  <1>3. QED
    BY <1>1, <1>2 DEF Level

LEMMA ExploreInit == Init => Inv
  <1> SUFFICES ASSUME Init PROVE Inv
    OBVIOUS
  <1>1. /\ g \in Graphs /\ request \in Requests /\ visited = {request.start}
        /\ frontier = {request.start} /\ pending = {} /\ next = {} /\ hops = 0 /\ overflow = FALSE
        /\ pc = IF Knows(g, request.start) /\ request.depth > 0 THEN "walk" ELSE "done"
    BY DEF Init
  <1>2. /\ request.start \in Fact /\ request.depth \in Nat /\ request.max \in Nat \ {0}
        /\ request.skip \in BOOLEAN
    BY <1>1
  <1>3. IsFiniteSet({request.start}) /\ Cardinality({}) = 0
    BY FS_Singleton, FS_EmptySet
  <1>4. TypeOK
    <2>1. pc \in {"walk", "done"} /\ overflow \in BOOLEAN /\ hops \in 0 .. request.depth
      <3>1. pc \in {"walk", "done"}
        BY <1>1
      <3>2. 0 \in 0 .. request.depth
        BY <1>2
      <3>3. QED
        BY <1>1, <3>1, <3>2
    <2>2. /\ request.start \in visited /\ IsFiniteSet(visited)
          /\ visited \subseteq Nodes \cup {request.start}
      BY <1>1, <1>3
    <2>3. frontier \cup next \subseteq visited /\ frontier \cap next = {} /\ pending \subseteq Nodes
      BY <1>1
    <2>4. QED
      BY <1>1, <2>1, <2>2, <2>3 DEF TypeOK
  <1>5. Found = {} /\ Cardinality(Found) = 0
    BY <1>1, <1>3 DEF Found
  <1>6. ReachOK
    BY <1>1, <1>5 DEF ReachOK, Reached
  <1>7. LayersOK
    BY <1>1, <1>2, <1>5 DEF LayersOK
  <1>8. DirectionOK
    BY <1>1, <1>5 DEF DirectionOK
  <1>9. pc = "done" /\ Knows(g, request.start) => request.depth = 0
    BY <1>1, <1>2
  <1>10. PathIsFound
    BY <1>9 DEF PathIsFound, FindsPath
  <1>11. DirectionsAsDocumented
    BY <1>4, <1>5, <1>9, OneWay DEF DirectionsAsDocumented
  <1>12. CapRespected
    BY <1>1, <1>2, <1>5 DEF CapRespected
  <1>13. QED
    BY <1>4, <1>6, <1>7, <1>8, <1>10, <1>11, <1>12 DEF Inv

\* Nothing is said of a walk under way but the invariant, and the cap.
LEMMA Meanwhile ==
    ASSUME pc' # "done"
    PROVE  PathIsFound' /\ DirectionsAsDocumented'
  BY DEF PathIsFound, DirectionsAsDocumented

LEMMA ExpandKeeps ==
    ASSUME Inv, ExpandNode
    PROVE  Inv'
  <1> USE DEF Inv
  <1>1. PICK n \in frontier : frontier' = frontier \ {n} /\ pending' = Neighbours(n)
    BY DEF ExpandNode
  <1>2. /\ pc = "walk" /\ pending = {}
        /\ UNCHANGED <<g, request, visited, next, hops, overflow, pc>>
    BY DEF ExpandNode
  <1>3. n \in visited /\ n \notin next /\ Found' = Found
    BY <1>2 DEF TypeOK, Found
  <1>4. pending' \subseteq PathNodes(request.skip) /\ PathNodes(request.skip) \subseteq Nodes
    BY <1>1, NeighboursKnown, GraphIs DEF PathNodes
  <1>5. Nodes' = Nodes
    BY <1>2, SameGraph
  <1>6. TypeOK'
    BY <1>1, <1>2, <1>4, <1>5 DEF TypeOK
  <1>7. ReachOK'
    <2>1. (Found \cup pending \subseteq PathNodes(request.skip))'
      BY <1>2, <1>3, <1>4, SameGraph DEF ReachOK
    <2>2. ASSUME NEW x \in visited' PROVE Reached(x, Level(x))'
      <3>1. PICK k : k = Level(x) /\ k \in Nat /\ k <= k
        BY LevelIs
      <3>2. Level(x)' = k /\ Reached(x, k)
        BY <1>2, <2>2, <3>1 DEF Level, ReachOK
      <3>3. Reached(x, k)'
        BY <1>2, <1>3, <3>1, <3>2, ReachedStays
      <3>4. QED
        BY <3>2, <3>3 DEF Reached
    <2>3. QED
      BY <2>1, <2>2 DEF ReachOK, Level
  <1>8. LayersOK'
    <2>1. (\E m \in visited \ next : pending \subseteq Neighbours(m))'
      BY <1>1, <1>2, <1>3, SameGraph
    <2>2. ASSUME NEW m \in visited, m \notin frontier', m \notin next
          PROVE  Neighbours(m) \subseteq visited \cup pending'
      BY <1>1, <1>2, <2>2 DEF LayersOK
    <2>3. QED
      BY <1>2, <1>3, <2>1, <2>2, SameGraph DEF LayersOK
  <1>9. DirectionOK'
    <2>1. ASSUME ~request.skip, request.direction = "out" PROVE (Found \cup pending = {})'
      <3>1. Found = {}
        BY <2>1 DEF DirectionOK
      <3>2. n = request.start
        BY <1>3, <3>1 DEF Found
      <3>3. pending' = {}
        BY <1>1, <2>1, <3>2, OneWay DEF Neighbours, FollowEdges
      <3>4. QED
        BY <1>3, <3>1, <3>3
    <2>2. ASSUME ~request.skip, request.direction = "in"
          PROVE  (Found \cup pending \subseteq InTo(request.start))'
      <3>1. Found \subseteq InTo(request.start)
        BY <2>2 DEF DirectionOK
      <3>2. n = request.start \/ n \in g.events
        BY <1>3, <3>1, OneWay DEF Found
      <3>3. pending' = InTo(n)
        BY <1>1, <2>2 DEF Neighbours, FollowEdges
      <3>4. pending' \subseteq InTo(request.start)
        BY <3>2, <3>3, OneWay
      <3>5. QED
        BY <1>2, <1>3, <3>1, <3>4, SameGraph
    <2>3. QED
      BY <1>2, <2>1, <2>2 DEF DirectionOK
  <1>10. CapRespected'
    BY <1>2, <1>3 DEF CapRespected
  <1>11. QED
    BY <1>2, <1>6, <1>7, <1>8, <1>9, <1>10, Meanwhile

\* A new node is one hop further than the one it is a neighbour of.
LEMMA NeighbourReached ==
    ASSUME Inv, pc = "walk", NEW n \in pending, n \notin visited
    PROVE  Reached(n, hops + 1) /\ n \in PathNodes(request.skip)
  <1> USE DEF Inv
  <1>1. n # request.start /\ n \notin Found /\ hops \in Nat /\ hops + 1 \in Nat
    BY GraphIs DEF TypeOK, Found
  <1> SUFFICES Reached(n, hops + 1)
    BY DEF ReachOK
  <1>2. PICK m \in visited \ next : pending \subseteq Neighbours(m)
    BY DEF LayersOK
  <1>3. PathEdge(m, n, request.skip) /\ Reached(m, hops) /\ m # n
    BY <1>2, NeighbourHasEdge DEF ReachOK
  <1>4. CASE m = request.start
    <2>1. PathBy(request.start, n, 1, request.skip, Found) /\ 1 \in 1 .. hops + 1
      BY <1>1, <1>3, <1>4, PathOfEdge
    <2>2. QED
      BY <2>1 DEF Reached
  <1>5. CASE m # request.start
    <2>1. PICK j \in 1 .. hops : PathBy(request.start, m, j, request.skip, Found)
      BY <1>3, <1>5 DEF Reached
    <2>2. m \in Found /\ j \in Nat \ {0} /\ j + 1 \in 1 .. hops + 1
      BY <1>1, <1>2, <1>5 DEF Found
    <2>3. PathBy(request.start, n, j + 1, request.skip, Found)
      BY <1>1, <1>3, <2>1, <2>2, PathExtends
    <2>4. QED
      BY <2>2, <2>3 DEF Reached
  <1>6. QED
    BY <1>4, <1>5

LEMMA VisitSeenKeeps ==
    ASSUME Inv, VisitNeighbour, NEW n \in pending, n \in visited, pending' = pending \ {n},
           UNCHANGED <<visited, next, overflow, pc>>
    PROVE  Inv'
  <1> USE DEF Inv
  <1>1. pc = "walk" /\ UNCHANGED <<g, request, frontier, hops>>
    BY DEF VisitNeighbour
  <1>2. Found' = Found /\ Nodes' = Nodes
    BY <1>1, SameGraph DEF Found
  <1>3. TypeOK'
    BY <1>1, <1>2 DEF TypeOK
  <1>4. ReachOK'
    <2>1. (Found \cup pending \subseteq PathNodes(request.skip))'
      BY <1>1, <1>2, SameGraph DEF ReachOK
    <2>2. ASSUME NEW x \in visited' PROVE Reached(x, Level(x))'
      <3>1. PICK k : k = Level(x) /\ k \in Nat /\ k <= k
        BY LevelIs
      <3>2. Level(x)' = k /\ Reached(x, k)
        BY <1>1, <2>2, <3>1 DEF Level, ReachOK
      <3>3. Reached(x, k)'
        BY <1>1, <1>2, <3>1, <3>2, ReachedStays
      <3>4. QED
        BY <3>2, <3>3 DEF Reached
    <2>3. QED
      BY <2>1, <2>2 DEF ReachOK, Level
  <1>5. LayersOK'
    <2>1. (\E m \in visited \ next : pending \subseteq Neighbours(m))'
      BY <1>1, SameGraph DEF LayersOK
    <2>2. ASSUME NEW m \in visited, m \notin frontier, m \notin next
          PROVE  Neighbours(m) \subseteq visited \cup pending'
      BY <1>1, <2>2 DEF LayersOK
    <2>3. QED
      BY <1>1, <1>2, <2>1, <2>2, SameGraph DEF LayersOK
  <1>6. DirectionOK'
    BY <1>1, <1>2, SameGraph DEF DirectionOK
  <1>7. CapRespected'
    BY <1>1, <1>2 DEF CapRespected
  <1>8. QED
    BY <1>1, <1>3, <1>4, <1>5, <1>6, <1>7, Meanwhile

LEMMA VisitNewKeeps ==
    ASSUME Inv, VisitNeighbour, NEW n \in pending, n \notin visited, pending' = pending \ {n},
           visited' = visited \cup {n}, next' = next \cup {n}, overflow' = Full(visited'),
           pc' = IF Full(visited') THEN "done" ELSE pc
    PROVE  Inv'
  <1> USE DEF Inv
  <1>1. pc = "walk" /\ UNCHANGED <<g, request, frontier, hops>>
    BY DEF VisitNeighbour
  <1>2. /\ Found' = Found \cup {n} /\ Found \subseteq Found' /\ Nodes' = Nodes
        /\ n # request.start /\ n \notin Found /\ n \notin frontier /\ n \notin next
    BY <1>1, SameGraph DEF Found, TypeOK
  <1>3. n \in PathNodes(request.skip) /\ Reached(n, hops + 1) /\ n \in Nodes
    BY <1>1, NeighbourReached DEF TypeOK
  <1>4. /\ IsFiniteSet(visited')
        /\ Cardinality(Found') = Cardinality(Found) + 1 /\ Cardinality(Found) \in Nat
        /\ Cardinality(visited') = Cardinality(Found) + 2
    <2>1. /\ IsFiniteSet(Found) /\ IsFiniteSet(visited) /\ Cardinality(Found) \in Nat
          /\ Cardinality(visited) = Cardinality(Found) + 1
      BY FoundIs DEF TypeOK
    <2>2. IsFiniteSet(visited') /\ Cardinality(visited') = Cardinality(visited) + 1
      BY <2>1, FS_AddElement
    <2>3. Cardinality(Found') = Cardinality(Found) + 1
      BY <1>2, <2>1, FS_AddElement
    <2>4. QED
      BY <2>1, <2>2, <2>3
  <1>5. /\ ~overflow /\ Cardinality(Found) < request.max /\ request.max \in Nat
        /\ hops < request.depth /\ request.depth \in Nat /\ hops \in Nat
    BY <1>1, GraphIs DEF LayersOK, TypeOK
  <1>6. Full(visited') <=> Cardinality(Found') >= request.max
    BY <1>1, <1>4, <1>5 DEF Full
  <1>7. TypeOK'
    <2>1. overflow' \in BOOLEAN /\ pc' \in {"walk", "done"}
      BY <1>1 DEF Full
    <2>2. QED
      BY <1>1, <1>2, <1>3, <1>4, <2>1 DEF TypeOK
  <1>8. ReachOK'
    <2>1. (Found \cup pending \subseteq PathNodes(request.skip))'
      BY <1>1, <1>2, <1>3, SameGraph DEF ReachOK
    <2>2. ASSUME NEW x \in visited' PROVE Reached(x, Level(x))'
      <3> DEFINE far == IF x \in next \/ x = n THEN hops + 1 ELSE hops
      <3>1. far \in Nat /\ Reached(x, far)
        BY <1>1, <1>3, <1>5, <2>2 DEF ReachOK
      <3>2. PICK k \in Nat : k = Level(x)' /\ far <= k
        BY <1>1, <1>5 DEF Level
      <3> HIDE DEF far
      <3>3. Reached(x, k)'
        BY <1>1, <1>2, <3>1, <3>2, ReachedStays
      <3>4. QED
        BY <3>2, <3>3 DEF Reached
    <2>3. QED
      BY <2>1, <2>2 DEF ReachOK, Level
  <1>9. LayersOK'
    <2> SUFFICES ASSUME pc' = "walk"
                 PROVE  LayersOK'
      BY DEF LayersOK
    <2>1. Cardinality(Found') < request.max /\ ~overflow'
      BY <1>4, <1>5, <1>6
    <2>2. (\E m \in visited \ next : pending \subseteq Neighbours(m))'
      <3>1. PICK m \in visited \ next : pending \subseteq Neighbours(m)
        BY <1>1 DEF LayersOK
      <3>2. m \in visited' \ next' /\ pending' \subseteq Neighbours(m)
        BY <3>1
      <3>3. QED
        BY <1>1, <3>2, SameGraph
    <2>3. ASSUME NEW m \in visited', m \notin frontier', m \notin next'
          PROVE  Neighbours(m) \subseteq visited' \cup pending'
      BY <1>1, <2>3 DEF LayersOK
    <2>4. /\ Knows(g, request.start) /\ request.start \notin next'
          /\ request.skip \/ request.direction = "both" =>
                \A j \in 1 .. hops : \A x \in PathNodes(request.skip) \ {request.start} :
                   HasPath(request.start, x, j, request.skip) => x \in visited' \ next'
      BY <1>1, <1>2 DEF LayersOK
    <2>5. QED
      BY <1>1, <1>5, <2>1, <2>2, <2>3, <2>4, SameGraph DEF LayersOK
  <1>10. DirectionOK'
    BY <1>1, <1>2, SameGraph DEF DirectionOK
  <1>11. CapRespected'
    BY <1>1, <1>4, <1>5, <1>6 DEF CapRespected
  <1>12. PathIsFound' /\ DirectionsAsDocumented'
    BY <1>1 DEF PathIsFound, DirectionsAsDocumented
  <1>13. QED
    BY <1>7, <1>8, <1>9, <1>10, <1>11, <1>12

LEMMA VisitKeeps ==
    ASSUME Inv, VisitNeighbour
    PROVE  Inv'
  <1>1. PICK n \in pending :
          /\ pending' = pending \ {n}
          /\ IF n \in visited
             THEN UNCHANGED <<visited, next, overflow, pc>>
             ELSE /\ visited' = visited \cup {n}
                  /\ next' = next \cup {n}
                  /\ overflow' = Full(visited')
                  /\ pc' = IF Full(visited') THEN "done" ELSE pc
    BY DEF VisitNeighbour
  <1>2. CASE n \in visited
    BY <1>1, <1>2, VisitSeenKeeps
  <1>3. CASE n \notin visited
    BY <1>1, <1>3, VisitNewKeeps
  <1>4. QED
    BY <1>2, <1>3

\* When a hop ends, what is as near as that has been reached.
LEMMA HopsComplete ==
    ASSUME Inv, pc = "walk", frontier = {}, pending = {},
           request.skip \/ request.direction = "both",
           NEW j \in 1 .. hops + 1, NEW n \in PathNodes(request.skip) \ {request.start},
           HasPath(request.start, n, j, request.skip)
    PROVE  n \in visited
  <1> USE DEF Inv
  <1>1. hops \in Nat /\ request.start \in visited /\ request.start \notin next
    BY GraphIs DEF TypeOK, LayersOK
  <1>2. CASE j <= hops
    <2>1. j \in 1 .. hops
      BY <1>1, <1>2
    <2>2. QED
      BY <2>1 DEF LayersOK
  <1>3. CASE ~(j <= hops)
    <2>1. j = hops + 1
      BY <1>1, <1>3
    <2>2. ASSUME NEW b \in visited \ next, b # n, PathEdge(b, n, request.skip)
          PROVE  n \in visited
      <3>1. n \in Neighbours(b)
        BY <2>2, EdgeHasNeighbour
      <3>2. QED
        BY <2>2, <3>1 DEF LayersOK
    <2>3. CASE hops = 0
      <3>1. PICK p : IsPath(p, request.start, n, 1, request.skip, PathNodes(request.skip))
        BY <2>1, <2>3, PathByIs DEF HasPath
      <3>2. p[1] = request.start /\ p[1 + 1] = n /\ 1 \in 1 .. 1 /\ PathEdge(p[1], p[1 + 1], request.skip)
        BY <3>1 DEF IsPath
      <3>3. QED
        BY <1>1, <2>2, <3>2
    <2>4. CASE hops # 0
      <3>1. hops \in Nat \ {0} /\ hops \in 1 .. hops
        BY <1>1, <2>4
      <3>2. PICK b \in PathNodes(request.skip) \ {request.start} :
              /\ b # n /\ PathEdge(b, n, request.skip)
              /\ PathBy(request.start, b, hops, request.skip, PathNodes(request.skip))
        BY <2>1, <3>1, PathShortens DEF HasPath
      <3>3. b \in visited \ next
        BY <3>1, <3>2 DEF LayersOK, HasPath
      <3>4. QED
        BY <2>2, <3>2, <3>3
    <2>5. QED
      BY <2>3, <2>4
  <1>4. QED
    BY <1>2, <1>3

\* A walk that ends by itself has found what there is to find.
LEMMA EndHopCompletes ==
    ASSUME Inv, EndHop, LastHop
    PROVE  PathIsFound' /\ DirectionsAsDocumented'
  <1> USE DEF Inv
  <1>1. /\ pc = "walk" /\ frontier = {} /\ pending = {} /\ pc' = "done"
        /\ UNCHANGED <<g, request, visited, overflow>>
        /\ hops + 1 = request.depth \/ next = {}
    BY DEF EndHop, LastHop
  <1>2. /\ Knows(g, request.start) /\ hops \in Nat /\ request.depth \in Nat /\ hops < request.depth
        /\ request.start \in visited \ (frontier \cup next)
        /\ Neighbours(request.start) \subseteq visited
    BY <1>1, GraphIs DEF LayersOK, TypeOK
  <1>3. ASSUME request.skip \/ request.direction = "both",
               NEW n \in PathNodes(request.skip) \ {request.start},
               FindsPath(request.start, n, request.depth, request.skip)
        PROVE  n \in Found
    <2>1. PICK j \in 1 .. request.depth : HasPath(request.start, n, j, request.skip)
      BY <1>3 DEF FindsPath
    <2>2. CASE hops + 1 = request.depth
      BY <1>1, <1>3, <2>1, <2>2, HopsComplete DEF Found
    <2>3. CASE next = {}
      <3>1. \A x \in visited : Neighbours(x) \subseteq visited
        BY <1>1, <2>3 DEF LayersOK
      <3>2. \A x \in visited : \A y : y # x /\ PathEdge(x, y, request.skip) => y \in visited
        BY <1>3, <3>1, EdgeHasNeighbour
      <3>3. j \in Nat \ {0}
        BY <1>2
      <3>4. PathBy(request.start, n, j, request.skip, PathNodes(request.skip))
        BY <2>1 DEF HasPath
      <3>5. n \in visited
        BY <1>2, <3>2, <3>3, <3>4, PathStaysWithin
      <3>6. QED
        BY <3>5 DEF Found
    <2>4. QED
      BY <1>1, <2>2, <2>3
  <1>4. PathIsFound'
    BY <1>1, <1>3, SameGraph DEF PathIsFound, Found
  <1>5. ASSUME ~request.skip, request.direction = "in"
        PROVE  Found = SourceEvents(g, request.start)
    <2>1. Neighbours(request.start) = InTo(request.start)
      BY <1>5 DEF Neighbours, FollowEdges
    <2>2. Found \subseteq InTo(request.start)
      BY <1>5 DEF DirectionOK
    <2>3. QED
      BY <1>2, <2>1, <2>2, OneWay DEF Found
  <1>6. ~request.skip /\ request.direction = "out" => Found = {}
    BY DEF DirectionOK
  <1>7. Found' = Found /\ SourceEvents(g, request.start)' = SourceEvents(g, request.start)
    BY <1>1, SameGraph DEF Found
  <1>8. DirectionsAsDocumented'
    BY <1>1, <1>2, <1>5, <1>6, <1>7 DEF DirectionsAsDocumented
  <1>9. QED
    BY <1>4, <1>8

LEMMA EndHopKeeps ==
    ASSUME Inv, EndHop
    PROVE  Inv'
  <1> USE DEF Inv
  <1>1. /\ pc = "walk" /\ frontier = {} /\ pending = {} /\ hops' = hops + 1
        /\ UNCHANGED <<g, request, visited, pending, overflow>>
        /\ IF LastHop THEN pc' = "done" /\ UNCHANGED <<frontier, next>>
           ELSE frontier' = next /\ next' = {} /\ UNCHANGED pc
    BY DEF EndHop
  <1>2. /\ Found' = Found /\ Nodes' = Nodes /\ hops \in Nat /\ request.depth \in Nat
        /\ hops < request.depth
    BY <1>1, GraphIs, SameGraph DEF Found, LayersOK, TypeOK
  <1>3. TypeOK'
    <2>1. hops' \in 0 .. request.depth
      BY <1>1, <1>2
    <2>2. pc' \in {"walk", "done"} /\ frontier' \cup next' \subseteq visited /\ frontier' \cap next' = {}
      BY <1>1 DEF TypeOK
    <2>3. QED
      BY <1>1, <1>2, <2>1, <2>2 DEF TypeOK
  <1>4. ReachOK'
    <2>1. (Found \cup pending \subseteq PathNodes(request.skip))'
      BY <1>1, <1>2, SameGraph DEF ReachOK
    <2>2. ASSUME NEW x \in visited' PROVE Reached(x, Level(x))'
      <3> DEFINE far == IF x \in next THEN hops + 1 ELSE hops
      <3>1. far \in Nat /\ Reached(x, far)
        BY <1>1, <1>2, <2>2 DEF ReachOK
      <3>2. PICK k \in Nat : k = Level(x)' /\ far <= k
        BY <1>1, <1>2 DEF Level
      <3> HIDE DEF far
      <3>3. Reached(x, k)'
        BY <1>1, <1>2, <3>1, <3>2, ReachedStays
      <3>4. QED
        BY <3>2, <3>3 DEF Reached
    <2>3. QED
      BY <2>1, <2>2 DEF ReachOK, Level
  <1>5. LayersOK'
    <2>1. CASE LastHop
      BY <1>1, <2>1 DEF LayersOK
    <2>2. CASE ~LastHop
      <3>1. frontier' = next /\ next' = {} /\ hops' < request.depth
        BY <1>1, <1>2, <2>2 DEF LastHop
      <3>2. /\ Knows(g, request.start) /\ ~overflow /\ Cardinality(Found) < request.max
            /\ request.start \in visited
        BY <1>1 DEF LayersOK, TypeOK
      <3>3. \A m \in visited' \ (frontier' \cup next') : Neighbours(m) \subseteq visited' \cup pending'
        BY <1>1, <3>1 DEF LayersOK
      <3>4. request.skip \/ request.direction = "both" =>
               \A j \in 1 .. hops' : \A n \in PathNodes(request.skip) \ {request.start} :
                  HasPath(request.start, n, j, request.skip) => n \in visited' \ next'
        BY <1>1, <3>1, HopsComplete
      <3>5. QED
        BY <1>1, <1>2, <3>1, <3>2, <3>3, <3>4, SameGraph DEF LayersOK
    <2>3. QED
      BY <2>1, <2>2
  <1>6. DirectionOK'
    BY <1>1, <1>2, SameGraph DEF DirectionOK
  <1>7. CapRespected'
    BY <1>1, <1>2 DEF CapRespected
  <1>8. PathIsFound' /\ DirectionsAsDocumented'
    <2>1. CASE LastHop
      BY <2>1, EndHopCompletes
    <2>2. CASE ~LastHop
      BY <1>1, <2>2, Meanwhile
    <2>3. QED
      BY <2>1, <2>2
  <1>9. QED
    BY <1>3, <1>4, <1>5, <1>6, <1>7, <1>8

LEMMA ExploreStutters ==
    ASSUME Inv, UNCHANGED vars
    PROVE  Inv'
  <1> USE DEF Inv, vars
  <1>1. Found' = Found
    BY DEF Found
  <1>2. TypeOK'
    BY SameGraph DEF TypeOK
  <1>3. ReachOK'
    <2>1. (Found \cup pending \subseteq PathNodes(request.skip))'
      BY <1>1, SameGraph DEF ReachOK
    <2>2. ASSUME NEW x \in visited' PROVE Reached(x, Level(x))'
      <3>1. PICK k : k = Level(x) /\ k \in Nat /\ k <= k
        BY LevelIs
      <3>2. Level(x)' = k /\ Reached(x, k)
        BY <2>2, <3>1 DEF Level, ReachOK
      <3>3. Reached(x, k)'
        BY <1>1, <3>1, <3>2, ReachedStays
      <3>4. QED
        BY <3>2, <3>3 DEF Reached
    <2>3. QED
      BY <2>1, <2>2 DEF ReachOK, Level
  <1>4. LayersOK'
    BY <1>1, SameGraph DEF LayersOK
  <1>5. DirectionOK'
    BY <1>1, SameGraph DEF DirectionOK
  <1>6. PathIsFound'
    BY <1>1, SameGraph DEF PathIsFound
  <1>7. DirectionsAsDocumented'
    BY <1>1, SameGraph DEF DirectionsAsDocumented
  <1>8. CapRespected'
    BY <1>1 DEF CapRespected
  <1>9. QED
    BY <1>2, <1>3, <1>4, <1>5, <1>6, <1>7, <1>8

LEMMA ExploreNext == Inv /\ [Next]_vars => Inv'
  BY ExpandKeeps, VisitKeeps, EndHopKeeps, ExploreStutters DEF Next, Done

------------------------------------------------------------------------------

\* Every walk goes hop by hop, in whatever order the frontier is expanded
\* (tools.py, _bfs).
THEOREM ExploreInvHolds == Spec => []Inv
  BY ExploreInit, ExploreNext, PTL DEF Spec

\* What explore finds, find_path reaches in as many hops.
THEOREM FoundHavePaths == Spec => []FoundHasPath
  <1>1. Inv => FoundHasPath
    <2> SUFFICES ASSUME Inv, NEW n \in Found
                 PROVE  FindsPath(request.start, n, request.depth, request.skip)
      BY DEF FoundHasPath
    <2> USE DEF Inv
    <2>1. n \in visited /\ n # request.start
      BY DEF Found
    <2>2. PICK k : k = Level(n) /\ k \in Nat /\ k <= request.depth
      BY LevelIs
    <2>3. Reached(n, k)
      BY <2>1, <2>2 DEF ReachOK, Level
    <2>4. PICK j \in 1 .. k : PathBy(request.start, n, j, request.skip, Found)
      BY <2>1, <2>3 DEF Reached
    <2>5. j \in 1 .. request.depth /\ j \in Nat \ {0}
      BY <2>2, GraphIs
    <2>6. Found \subseteq PathNodes(request.skip)
      BY DEF ReachOK
    <2>7. HasPath(request.start, n, j, request.skip)
      BY <2>4, <2>5, <2>6, PathGrows DEF HasPath
    <2>8. QED
      BY <2>5, <2>7 DEF FindsPath
  <1>2. QED
    BY ExploreInvHolds, <1>1, PTL

\* What find_path reaches, a walk that was not cut short has found.
THEOREM PathsAreFound == Spec => []PathIsFound
  <1>1. Inv => PathIsFound
    BY DEF Inv
  <1>2. QED
    BY ExploreInvHolds, <1>1, PTL

\* From a fact, OUT finds nothing and IN the events it was seen in.
THEOREM DirectionsHold == Spec => []DirectionsAsDocumented
  <1>1. Inv => DirectionsAsDocumented
    BY DEF Inv
  <1>2. QED
    BY ExploreInvHolds, <1>1, PTL

\* max_nodes caps what is found, and overflow is said of no other walk.
THEOREM CapHolds == Spec => []CapRespected
  <1>1. Inv => CapRespected
    BY DEF Inv
  <1>2. QED
    BY ExploreInvHolds, <1>1, PTL

===============================================================================
