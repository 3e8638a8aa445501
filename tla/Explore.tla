-------------------------------- MODULE Explore --------------------------------
(****************************************************************************)
(* The traversal tools on a loaded graph (tools.py): explore, a breadth-    *)
(* first walk that stops at max_nodes, and find_path, a search in a graph   *)
(* built from the same events another way.                                  *)
(*                                                                          *)
(* The frontier of the walk is a Python set and the neighbours come in the  *)
(* order of the loaded items, so which nodes a full walk leaves out is open. *)
(****************************************************************************)
EXTENDS FactGraph, FiniteSets

CONSTANTS
    Graphs,     \* graphs the tools may load
    Requests    \* arguments of explore

Direction == {"out", "in", "both"}

ASSUME ExploreAssumption ==
    /\ Graphs \subseteq Graph
    /\ \A h \in Graphs : Closed(h) /\ h.events \cap Fact = {}
    /\ Requests \subseteq [start : Fact, depth : Nat, direction : Direction,
                           skip : BOOLEAN, max : Nat \ {0}]

VARIABLES
    g, request,
    visited,    \* nodes reached, the start among them
    frontier,   \* nodes of this hop that are still to be expanded
    pending,    \* neighbours of the node being expanded, still to be looked at
    next,       \* nodes first reached in this hop
    hops,       \* hops completed
    overflow,
    pc

vars == <<g, request, visited, frontier, pending, next, hops, overflow, pc>>

------------------------------------------------------------------------------
\* edges_for_event, as the set of targets.
TargetsOf(ev) == {e.target : e \in {x \in g.edges : x.event = ev}}

KnownFacts == {f \in Fact : Knows(g, f)}
Nodes == KnownFacts \cup g.events

OutOf(n) == {e.target : e \in {x \in g.edges : x.event = n}}
InTo(n) == {e.event : e \in {x \in g.edges : x.target = n}}

\* Mutant: the direction of an edge is taken the wrong way round.
FollowEdges_Swapped(n, direction) ==
    (IF direction \in {"out", "both"} THEN InTo(n) ELSE {})
        \cup (IF direction \in {"in", "both"} THEN OutOf(n) ELSE {})

FollowEdges(n, direction) ==
    (IF direction \in {"out", "both"} THEN OutOf(n) ELSE {})
        \cup (IF direction \in {"in", "both"} THEN InTo(n) ELSE {})

\* Mutant: only the first event a fact was seen in is looked at.
ThroughEvents_One(n) ==
    IF SourceEvents(g, n) = {} THEN {}
    ELSE TargetsOf(CHOOSE ev \in SourceEvents(g, n) : TRUE) \ {n}

\* With skip_events, facts that share an event with a fact.
ThroughEvents(n) == (UNION {TargetsOf(ev) : ev \in SourceEvents(g, n)}) \ {n}

Neighbours(n) ==
    IF request.skip THEN ThroughEvents(n) ELSE FollowEdges(n, request.direction)

------------------------------------------------------------------------------
Init ==
    /\ g \in Graphs
    /\ request \in Requests
    /\ visited = {request.start}
    /\ frontier = {request.start}
    /\ pending = {}
    /\ next = {}
    /\ hops = 0
    /\ overflow = FALSE
    /\ pc = IF Knows(g, request.start) /\ request.depth > 0 THEN "walk" ELSE "done"

\* The next node of the frontier, whichever the set yields.
ExpandNode ==
    /\ pc = "walk"
    /\ pending = {}
    /\ \E n \in frontier : /\ frontier' = frontier \ {n}
                           /\ pending' = Neighbours(n)
    /\ UNCHANGED <<g, request, visited, next, hops, overflow, pc>>

\* Mutant: the cap is looked at one node late.
Full_Late(nodes) == Cardinality(nodes) - 1 > request.max

\* len(visited) - 1 >= max_nodes
Full(nodes) == Cardinality(nodes) - 1 >= request.max

VisitNeighbour ==
    /\ pc = "walk"
    /\ \E n \in pending :
          /\ pending' = pending \ {n}
          /\ IF n \in visited
             THEN UNCHANGED <<visited, next, overflow, pc>>
             ELSE /\ visited' = visited \cup {n}
                  /\ next' = next \cup {n}
                  /\ overflow' = Full(visited')
                  /\ pc' = IF Full(visited') THEN "done" ELSE pc
    /\ UNCHANGED <<g, request, frontier, hops>>

\* Mutant: one hop more than asked for.
LastHop_OffByOne == hops = request.depth \/ next = {}

\* The hop being ended is the last one.
LastHop == hops + 1 = request.depth \/ next = {}

EndHop ==
    /\ pc = "walk"
    /\ frontier = {} /\ pending = {}
    /\ hops' = hops + 1
    /\ IF LastHop
       THEN pc' = "done" /\ UNCHANGED <<frontier, next>>
       ELSE frontier' = next /\ next' = {} /\ UNCHANGED pc
    /\ UNCHANGED <<g, request, visited, pending, overflow>>

Done == pc = "done" /\ UNCHANGED vars

Next == ExpandNode \/ VisitNeighbour \/ EndHop \/ Done

Spec == Init /\ [][Next]_vars

Found == visited \ {request.start}

------------------------------------------------------------------------------
(* find_path: networkx searches a graph of its own for shortest simple      *)
(* paths.                                                                   *)

\* Adjacency in the graph _build_path_graph makes: event by event, every two
\* of its facts, or every edge taken without its direction.
PathEdge(a, b, skip) ==
    IF skip
    THEN \E ev \in g.events : {a, b} \subseteq TargetsOf(ev) \cap KnownFacts
    ELSE \E e \in g.edges : {a, b} = {e.event, e.target}

Simple(path) == \A i, j \in DOMAIN path : i # j => path[i] # path[j]

\* A simple path of n hops leads from a to b, by way of nodes in via.
PathBy(a, b, n, skip, via) ==
    \E between \in [1 .. n - 1 -> via] :
        LET path == [i \in 1 .. n + 1 |-> IF i = 1 THEN a ELSE IF i = n + 1 THEN b ELSE between[i - 1]]
        IN /\ Simple(path)
           /\ \A i \in 1 .. n : PathEdge(path[i], path[i + 1], skip)

\* The nodes of the graph that _build_path_graph makes.
PathNodes(skip) == IF skip THEN KnownFacts ELSE Nodes

HasPath(a, b, n, skip) == PathBy(a, b, n, skip, PathNodes(skip))

\* find_path from a to b, at most max_depth hops, returns a path.
FindsPath(a, b, max_depth, skip) ==
    \E n \in 1 .. max_depth : HasPath(a, b, n, skip)

------------------------------------------------------------------------------
(* Properties.                                                              *)

\* Every variable holds a value of its kind, and no node is asked for twice.
TypeOK ==
    /\ g \in Graphs /\ request \in Requests
    /\ request.start \in visited /\ IsFiniteSet(visited)
    /\ visited \subseteq Nodes \cup {request.start}
    /\ frontier \cup next \subseteq visited
    /\ frontier \cap next = {}
    /\ pending \subseteq Nodes
    /\ hops \in 0 .. request.depth
    /\ overflow \in BOOLEAN
    /\ pc \in {"walk", "done"}

\* explore and find_path agree on what is how far away, though each derives
\* adjacency in its own way: whatever the walk has reached, and in whatever
\* order, find_path reaches in as many hops as the walk was given.
FoundHasPath ==
    \A n \in Found : FindsPath(request.start, n, request.depth, request.skip)

\* ... and what find_path reaches, a walk that was not cut short has found.
PathIsFound ==
    pc = "done" /\ ~overflow /\ Knows(g, request.start)
        /\ (request.skip \/ request.direction = "both")
    => \A n \in PathNodes(request.skip) \ {request.start} :
          FindsPath(request.start, n, request.depth, request.skip) => n \in Found

\* "OUT finds nothing for a FactNode", "IN finds the EventNodes a fact came
\* from" (graph-tools.md), at any depth.
DirectionsAsDocumented ==
    pc = "done" /\ ~request.skip /\ ~overflow =>
        /\ request.direction = "out" => Found = {}
        /\ request.direction = "in" =>
              Found = IF request.depth = 0 THEN {} ELSE SourceEvents(g, request.start)

\* max_nodes is a cap on what is found, at every step of the walk, and a walk
\* says that it was cut short only when it found as many as that.
CapRespected ==
    /\ Cardinality(Found) <= request.max
    /\ overflow => Cardinality(Found) = request.max

\* The node n is k hops away or less, by way of what was found.
Reached(n, k) ==
    \/ n = request.start
    \/ \E j \in 1 .. k : PathBy(request.start, n, j, request.skip, Found)

\* What is reached is as near as its hop says.
ReachOK ==
    /\ Found \cup pending \subseteq PathNodes(request.skip)
    /\ \A n \in visited :
          Reached(n, IF pc = "done" THEN request.depth ELSE IF n \in next THEN hops + 1 ELSE hops)

\* A walk under way has room, expands what it reached hop by hop, and owes
\* nothing that is as near as the hops it has completed.
LayersOK ==
    pc = "walk" =>
        /\ Knows(g, request.start) /\ hops < request.depth
        /\ ~overflow /\ Cardinality(Found) < request.max
        /\ request.start \notin next
        /\ \E m \in visited \ next : pending \subseteq Neighbours(m)
        /\ \A m \in visited \ (frontier \cup next) : Neighbours(m) \subseteq visited \cup pending
        /\ request.skip \/ request.direction = "both" =>
              \A j \in 1 .. hops : \A n \in PathNodes(request.skip) \ {request.start} :
                  HasPath(request.start, n, j, request.skip) => n \in visited \ next

\* One-way walks see nothing beyond the first hop.
DirectionOK ==
    ~request.skip =>
        /\ request.direction = "out" => Found \cup pending = {}
        /\ request.direction = "in" => Found \cup pending \subseteq InTo(request.start)

\* The invariant that the properties follow from.
Inv == TypeOK /\ ReachOK /\ LayersOK /\ DirectionOK /\ PathIsFound /\ DirectionsAsDocumented /\ CapRespected
==============================================================================
