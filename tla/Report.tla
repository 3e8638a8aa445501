--------------------------------- MODULE Report ---------------------------------
(****************************************************************************)
(* The overviews of a session: graph_summary and search_nodes (tools.py),   *)
(* which load it, and the snapshot span of LangfuseHook with its Mermaid    *)
(* drawing (langfuse_hook.py, graph.py), made from the in-memory graph that *)
(* a hook is given after an ingest.                                         *)
(****************************************************************************)
EXTENDS Recall

CONSTANTS
    Declared,   \* node types registered by @pin
    Top         \* values of top_per_type, limit and max_facts

ASSUME ReportAssumption == Top \subseteq Nat

FactsOf(g, type) == {f \in Fact : Knows(g, f) /\ TypeOf[f] = type}

\* len(source_events): an event that lists the fact again counts again (once,
\* as none here names a fact more than twice).
Weight(g, f) ==
    Cardinality(SourceEvents(g, f)) + Cardinality({p \in g.repeats : p[1] = f})

\* Mutant: the sort is not reversed.
Heaviest_Lightest(g, fs, n) ==
    {kept \in SUBSET fs : /\ Cardinality(kept) = IF n < Cardinality(fs) THEN n ELSE Cardinality(fs)
                          /\ \A f \in kept : \A h \in fs \ kept : Weight(g, f) <= Weight(g, h)}

\* The n heaviest of some facts; which of equals is up to the sort.
Heaviest(g, fs, n) ==
    {kept \in SUBSET fs : /\ Cardinality(kept) = IF n < Cardinality(fs) THEN n ELSE Cardinality(fs)
                          /\ \A f \in kept : \A h \in fs \ kept : Weight(g, f) >= Weight(g, h)}

------------------------------------------------------------------------------
\* graph_summary: the types it has a line for, and of each type the number of
\* facts and the possible lists of top facts.
TypesShown == Declared \cup {type \in NodeType : FactsOf(Loaded, type) # {}}

CountShown(type) == Cardinality(FactsOf(Loaded, type))

TopFacts(type, n) == Heaviest(Loaded, FactsOf(Loaded, type), n)

\* search_nodes for a type and a pattern, given as the facts it matches; the
\* limit is looked at after a hit was added.
SearchNodes(type, pattern, limit) ==
    LET hits == FactsOf(Loaded, type) \cap pattern
        most == IF limit = 0 THEN 1 ELSE limit
    IN IF Cardinality(hits) <= most THEN {hits}
       ELSE {found \in SUBSET hits : Cardinality(found) = most}

\* to_mermaid: the facts kept, ...
Kept(n) == Heaviest(graph, {f \in Fact : Knows(graph, f)}, n)

\* Mutant: only events that connect two of them.
Drawn_Pairs(kept) ==
    {ev \in UNION {SourceEvents(graph, f) : f \in kept} : Cardinality(TargetsOf(ev) \cap kept) > 1}

\* ... the events they list that connect to one of them, and the arrows.
Drawn(kept) ==
    {ev \in UNION {SourceEvents(graph, f) : f \in kept} : TargetsOf(ev) \cap kept # {}}

Arrows(kept) == {e \in graph.edges : e.event \in Drawn(kept) /\ e.target \in kept}

\* "... and {extra} more facts"
Extra(kept) == Cardinality({f \in Fact : Knows(graph, f)} \ kept)

------------------------------------------------------------------------------
(* Properties.                                                              *)

\* "a map of the territory" (tools.py): the overviews agree with the history.
\* graph_summary has every declared type and every type seen, counts the facts
\* returned of it, and leaves out none that more items named than one it shows;
\* search_nodes misses a fact that was returned only when it found as many as
\* its limit.
OverviewIsHistory ==
    /\ TypesShown = Declared \cup {TypeOf[f] : f \in Said}
    /\ \A type \in TypesShown :
          LET facts == {f \in Said : TypeOf[f] = type} IN
          /\ CountShown(type) = Cardinality(facts)
          /\ \A n \in Top : \A kept \in TopFacts(type, n) :
                \A f \in kept, h \in facts \ kept :
                    Cardinality(SeenIn(f)) >= Cardinality(SeenIn(h))
          /\ \A pattern \in SUBSET Fact, limit \in Top : \A found \in SearchNodes(type, pattern, limit) :
                /\ found \subseteq facts \cap pattern
                /\ Cardinality(found) < limit => found = facts \cap pattern

\* "Events that connect at least one kept fact are rendered; orphan events are
\* omitted" (graph.py): a drawing has every fact or counts it as one more, no
\* fact in it is without the events it was seen in, and no arrow lacks an end.
DrawingIsConnected ==
    \A n \in Top : \A kept \in Kept(n) :
        /\ Cardinality(kept) + Extra(kept) = Cardinality(Said)
        /\ Drawn(kept) = UNION {SeenIn(f) : f \in kept}
        /\ \A f \in kept : SeenIn(f) = {e.event : e \in {a \in Arrows(kept) : a.target = f}}
==============================================================================
