------------------------------ MODULE FactGraph ------------------------------
(****************************************************************************)
(* The in-memory fact graph (graph.py, the emitting half of extract.py) as  *)
(* a value: a record of the facts, events and edges it holds, and the       *)
(* operators with which the code builds one.                                *)
(*                                                                          *)
(* A Value stands for one (entity, raw value) pair a tool may return, and   *)
(* Canonical says what the entity's normalizer makes of it: the fact node   *)
(* it autolinks to, Dropped (None, or an empty canonical value), or Raises  *)
(* (the normalizer, or the shape check of the walk, raises).                *)
(****************************************************************************)
EXTENDS Naturals, Sequences

CONSTANTS
    Call,       \* invocations of @pin-wrapped tools
    Fact,       \* fact node ids: one for each (node_type, canonical_value)
    Value,      \* (entity, raw value) pairs
    EdgeType,   \* "{DeclaringClass}.{field}" labels
    Canonical,  \* normalizer outcome of a Value
    Dropped, Raises,
    Missing     \* "no such key"

ASSUME FactGraphAssumption ==
    /\ Canonical \in [Value -> Fact \cup {Dropped, Raises}]
    /\ Dropped \notin Fact
    /\ Raises \notin Fact
    /\ Dropped # Raises
    /\ Missing \notin Value

(****************************************************************************)
(* Event ids are uuid4 strings made for one item of one call; a pair names  *)
(* the same thing, uuid4 collisions aside.                                  *)
(****************************************************************************)
EventId == Call \X (Nat \ {0})

Edge == [event : EventId, type : EdgeType, target : Fact]

\* What the walk over a model hands to _emit_one: a field and its value.
Occurrence == [type : EdgeType, value : Value]

Node == [kind : {"event"}, id : EventId] \cup [kind : {"fact"}, id : Fact]
EventNode(ev) == [kind |-> "event", id |-> ev]
FactNode(f) == [kind |-> "fact", id |-> f]

\* "repeats" holds the (fact, event) pairs that the fact's source_events lists
\* more than once; a fact's other source events are given by its edges.
Graph == [facts : [Fact -> Value \cup {Missing}],
          events : SUBSET EventId,
          edges : SUBSET Edge,
          repeats : SUBSET (Fact \X EventId)]

\* Provenance is backfilled from the edges, each event once.
FromSnapshot(fs, evs, es) ==
    [facts |-> fs, events |-> evs, edges |-> es, repeats |-> {}]

EmptyGraph == FromSnapshot([f \in Fact |-> Missing], {}, {})

Knows(g, f) == g.facts[f] # Missing

AddEvent(g, ev) == [g EXCEPT !.events = @ \cup {ev}]

Mentions(g, ev, f) == \E e \in g.edges : e.event = ev /\ e.target = f

\* Mutant: a fact takes the value it was last seen with.
UpsertFact_Overwrites(g, v, ev) == [g EXCEPT !.facts[Canonical[v]] = v]

(****************************************************************************)
(* upsert_fact on a value whose canonical form is a fact: an existing node  *)
(* keeps the value it was created with and gets the event appended to its   *)
(* source_events, whether it is there or not; a new one takes this value.   *)
(****************************************************************************)
UpsertFact(g, v, ev) ==
    LET f == Canonical[v] IN
    IF ~Knows(g, f) THEN [g EXCEPT !.facts[f] = v]
    ELSE IF Mentions(g, ev, f) THEN [g EXCEPT !.repeats = @ \cup {<<f, ev>>}]
    ELSE g

\* Mutant: a DiGraph, one edge between an event and a fact.
AddEdge_Single(g, e) ==
    [g EXCEPT !.edges = {x \in @ : x.event # e.event \/ x.target # e.target} \cup {e}]

\* A MultiDiGraph: edges of different types between the same pair coexist.
AddEdge(g, e) == [g EXCEPT !.edges = @ \cup {e}]

(****************************************************************************)
(* Provenance as from_snapshot backfills it: the known events with an edge  *)
(* to the fact.                                                             *)
(****************************************************************************)
SourceEvents(g, f) ==
    {e.event : e \in {x \in g.edges : x.target = f}} \cap g.events

(****************************************************************************)
(* Endpoints an edge names but no node item was loaded for. networkx adds   *)
(* them as nodes with no "obj", and FactGraph.get raises KeyError on them.  *)
(****************************************************************************)
GhostFacts(g) == {f \in {e.target : e \in g.edges} : ~Knows(g, f)}
GhostEvents(g) == {e.event : e \in g.edges} \ g.events

------------------------------------------------------------------------------
(* What a result says: the reference for what an ingest leaves.             *)

Elems(s) == {s[i] : i \in DOMAIN s}

\* The edges of one item.
EdgesSaid(ev, item) ==
    {[event |-> ev, type |-> o.type, target |-> Canonical[o.value]] :
        o \in {x \in Elems(item) : Canonical[x.value] \in Fact}}

EventsOf(c, items) == {<<c, i>> : i \in DOMAIN items}

EdgesOf(c, items) == UNION {EdgesSaid(<<c, i>>, items[i]) : i \in DOMAIN items}

\* The values by which the items name a fact.
Spellings(items, f) ==
    {v \in Value : Canonical[v] = f /\ \E i \in DOMAIN items :
                      \E o \in Elems(items[i]) : o.value = v}

\* The graph holds all that the items of call c say.
HoldsAll(g, c, items) ==
    /\ EventsOf(c, items) \subseteq g.events
    /\ EdgesOf(c, items) \subseteq g.edges
    /\ \A e \in EdgesOf(c, items) : Knows(g, e.target)

\* From g to h nothing is taken away, and no event or edge is added but what
\* the items of call c say.
Grows(g, h, c, items) ==
    /\ g.events \subseteq h.events
    /\ h.events \subseteq g.events \cup EventsOf(c, items)
    /\ g.edges \subseteq h.edges
    /\ h.edges \subseteq g.edges \cup EdgesOf(c, items)
    /\ \A f \in Fact : Knows(g, f) => Knows(h, f)

Closed(g) == GhostFacts(g) = {} /\ GhostEvents(g) = {}
==============================================================================
