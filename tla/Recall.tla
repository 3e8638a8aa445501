--------------------------------- MODULE Recall ---------------------------------
(****************************************************************************)
(* What the agent is told of its session by what_have_i_done, timeline and  *)
(* get_evidence (tools.py), asked between the calls of one tool thread.  A  *)
(* call is one step here (Ingest has the steps of it), and timestamps grow: *)
(* calls are numbered, call c writes record c of the log.                   *)
(****************************************************************************)
EXTENDS FactGraph, FiniteSets, SequencesExt

CONSTANTS
    Tool,
    StoreRaw,   \* the tools pinned with store_raw=True
    Results,    \* validated results each tool may return: sequences of items
    TypeOf,     \* node_type of a fact
    Limit,      \* values of the "limit" argument
    None

NodeType == {TypeOf[f] : f \in Fact}

ASSUME RecallAssumption ==
    /\ Call \subseteq Nat \ {0}
    /\ DOMAIN TypeOf = Fact
    /\ \A t \in Tool : \A items \in Results[t] :
          /\ items \in Seq(Seq(Occurrence))
          /\ \A i \in DOMAIN items : \A o \in ToSet(items[i]) : Canonical[o.value] # Raises
    /\ StoreRaw \subseteq Tool
    /\ Limit \subseteq Nat
    /\ None \notin Tool \cup Value \cup EventId \cup NodeType

VARIABLES
    said,       \* history: the items each call returned
    graph,      \* in-memory graph of the last ingest, as hooks are given it
    raws,       \* raw_events items: event -> raw return
    log         \* tool_calls records, oldest first

vars == <<said, graph, raws, log>>

Summary == {"ok", "duplicate", "error"}

\* The summary of an "ok" record is "+{new} new, +{linked} linked, +{edges} edges".
Record == [tool : Tool, event : EventId \cup {None}, summary : Summary,
           new : Nat, linked : Nat, edges : Nat]

\* What a load of the session gives.
Loaded == [graph EXCEPT !.repeats = {}]

------------------------------------------------------------------------------
ThisCall == Len(log) + 1

EdgeTo(ev, o) == [event |-> ev, type |-> o.type, target |-> Canonical[o.value]]

\* The fact was there before this occurrence of it.
Linked(s, f) == Knows(s.graph, f)

\* An ingest in progress: its graph, and the counts of IngestResult.
Progress(g) == [graph |-> g, new |-> 0, linked |-> 0, edges |-> 0]

\* Mutant: a count for each edge to a fact.
EmitOne_PerEdge(s, ev, o) ==
    LET f == Canonical[o.value] IN
    IF f = Dropped THEN s
    ELSE [graph |-> AddEdge(UpsertFact(s.graph, o.value, ev), EdgeTo(ev, o)),
          new |-> IF Linked(s, f) THEN s.new ELSE s.new + 1,
          linked |-> IF Linked(s, f) THEN s.linked \cup {<<f, s.edges>>} ELSE s.linked,
          edges |-> s.edges + 1]

\* _emit_one, with the facts the item has linked to so far; nothing comes of a
\* value with an empty canonical form.
EmitOne(s, ev, o) ==
    LET f == Canonical[o.value] IN
    IF f = Dropped THEN s
    ELSE [graph |-> AddEdge(UpsertFact(s.graph, o.value, ev), EdgeTo(ev, o)),
          new |-> IF Linked(s, f) THEN s.new ELSE s.new + 1,
          linked |-> IF Linked(s, f) THEN s.linked \cup {f} ELSE s.linked,
          edges |-> s.edges + 1]

\* The walk over an item: how things stand after each occurrence.
Emits(s, ev, item) ==
    LET walk[k \in 0 .. Len(item)] ==
            IF k = 0 THEN [s EXCEPT !.graph = AddEvent(@, ev), !.linked = {}]
            ELSE EmitOne(walk[k - 1], ev, item[k])
    IN walk

\* An item's event, and what the walk over it upserts; a fact is counted as
\* linked once for each item.
ExtractItem(s, ev, item) ==
    LET t == Emits(s, ev, item)[Len(item)]
    IN [t EXCEPT !.linked = s.linked + Cardinality(@)]

\* _build_payload: how things stand after each item.
Builds(g, c, items) ==
    LET build[i \in 0 .. Len(items)] ==
            IF i = 0 THEN Progress(g) ELSE ExtractItem(build[i - 1], <<c, i>>, items[i])
    IN build

\* Mutant: the last item is left out.
Ingested_ButLast(g, c, items) ==
    Builds(g, c, items)[IF items = <<>> THEN 0 ELSE Len(items) - 1]

Ingested(g, c, items) == Builds(g, c, items)[Len(items)]

FirstEvent(c, items) == IF items = <<>> THEN None ELSE <<c, 1>>

Recorded(t, items, ev, summary, counts) ==
    /\ ThisCall \in Call
    /\ said' = Append(said, items)
    /\ log' = Append(log, [tool |-> t, event |-> ev, summary |-> summary, new |-> counts.new,
                           linked |-> counts.linked, edges |-> counts.edges])

NoCounts == [new |-> 0, linked |-> 0, edges |-> 0]

\* The raw return of the whole call is stored for each of its events.
RawOf(items, i) == items

RawsWith(items) ==
    [ev \in DOMAIN raws \cup EventsOf(ThisCall, items) |->
        IF ev \in EventsOf(ThisCall, items) THEN RawOf(items, ev[2]) ELSE raws[ev]]

Init == said = <<>> /\ graph = EmptyGraph /\ raws = [ev \in {} |-> None] /\ log = <<>>

Ingest(t) ==
    \E items \in Results[t] :
        LET done == Ingested(Loaded, ThisCall, items) IN
        /\ Recorded(t, items, FirstEvent(ThisCall, items), "ok", done)
        /\ graph' = done.graph
        /\ raws' = IF t \in StoreRaw THEN RawsWith(items) ELSE raws

\* Mutant: whatever became of the earlier call.
SkipDuplicate_AnySummary(t) ==
    /\ \E r \in ToSet(log) : r.tool = t
    /\ Recorded(t, <<>>, None, "duplicate", NoCounts)
    /\ UNCHANGED <<graph, raws>>

\* The log holds a call of the tool with the same arguments: this one is
\* skipped (or "cached").
SkipDuplicate(t) ==
    /\ \E r \in ToSet(log) : r.tool = t /\ r.summary = "ok"
    /\ Recorded(t, <<>>, None, "duplicate", NoCounts)
    /\ UNCHANGED <<graph, raws>>

ToolRaises(t) ==
    Recorded(t, <<>>, None, "error", NoCounts) /\ UNCHANGED <<graph, raws>>

Over == ThisCall \notin Call /\ UNCHANGED vars

Next == (\E t \in Tool : Ingest(t) \/ SkipDuplicate(t) \/ ToolRaises(t)) \/ Over

Spec == Init /\ [][Next]_vars

------------------------------------------------------------------------------
(* The queries.                                                             *)

\* Mutant: by displayed value, as timeline does.
IsAskedFor_Displayed(f, type, value) ==
    TypeOf[f] = type /\ (value # None => Loaded.facts[f] = value)

\* A fact of the type, and of the canonical form of the value, if one is given.
IsAskedFor(f, type, value) ==
    TypeOf[f] = type /\ (value # None => Canonical[value] = f)

EntityEvents(type, value) ==
    UNION {SourceEvents(Loaded, f) :
              f \in {x \in Fact : Knows(Loaded, x) /\ IsAskedFor(x, type, value)}}

\* s[-n:] of a list of positions in order, which for n = 0 is all of it.
LastOf(S, n) == IF n = 0 THEN S ELSE {k \in S : Cardinality({j \in S : j > k}) < n}

FirstOf(s, n) == SubSeq(s, 1, IF n < Len(s) THEN n ELSE Len(s))

\* what_have_i_done(tool, type, value, limit), as positions in the log; it
\* lists them in this order.
WhatHaveIDone(tool, type, value, limit) ==
    LastOf({k \in DOMAIN log : /\ tool # None => log[k].tool = tool
                               /\ type # None => log[k].event \in EntityEvents(type, value)},
           limit)

Before(a, b) == a[1] < b[1] \/ (a[1] = b[1] /\ a[2] < b[2])

\* Sorted by timestamp: at each place the event that so many come before.
InOrder(evs) ==
    [k \in 1 .. Cardinality(evs) |->
        CHOOSE ev \in evs : Cardinality({x \in evs : Before(x, ev)}) = k - 1]

\* Mutant: by canonical form, as what_have_i_done does.
FindByValue_Canonical(v) == {f \in Fact : Knows(Loaded, f) /\ Canonical[v] = f}

\* find_by_value, which compares displayed values: the fact, if there is one.
FindByValue(v) == {f \in Fact : Loaded.facts[f] = v}

\* timeline: the events of the fact with this value, oldest first.
Timeline(v, limit) ==
    LET events == UNION {SourceEvents(Loaded, f) : f \in FindByValue(v)}
    IN FirstOf(InOrder(events), limit)

\* get_evidence of an event: the raw return, or a hint.
GetEvidence(ev) == IF ev \in graph.events /\ ev \in DOMAIN raws THEN raws[ev] ELSE None

TargetsOf(ev) == {e.target : e \in {x \in graph.edges : x.event = ev}}

\* Facts that share an event with fact f.
NeighboursOf(f) == (UNION {TargetsOf(ev) : ev \in SourceEvents(Loaded, f)}) \ {f}

\* 1000 * log2(n + 1)
Log2 == [n \in 1 .. 4 |-> <<1000, 1585, 2000, 2322>>[n]]

\* The relevance score of an event of fact f, in thousandths.
Score(f, ev) ==
    LET total == Cardinality(TargetsOf(ev))
        overlap == Cardinality(TargetsOf(ev) \cap NeighboursOf(f))
    IN IF total = 0 THEN 0 ELSE (overlap * Log2[total]) \div total

------------------------------------------------------------------------------
(* Properties.  The history of results is the reference.                    *)

FactsIn(item) == {Canonical[o.value] : o \in ToSet(item)} \cap Fact

SaidEvents == UNION {EventsOf(c, said[c]) : c \in DOMAIN said}

SaidEdges == UNION {EdgesOf(c, said[c]) : c \in DOMAIN said}

\* The events of fact f, by the history, and all the facts it knows.
SeenIn(f) == {ev \in SaidEvents : f \in FactsIn(said[ev[1]][ev[2]])}

Said == UNION {FactsIn(said[ev[1]][ev[2]]) : ev \in SaidEvents}

\* v is the first value in the item that names fact f.
FirstIn(item, f, v) ==
    \E k \in DOMAIN item :
        /\ Canonical[v] = f /\ item[k].value = v
        /\ \A j \in DOMAIN item : Canonical[item[j].value] = f => k <= j

\* v is the spelling in which fact f was first returned.
FirstSeenAs(f, v) ==
    \E ev \in SeenIn(f) : /\ \A other \in SeenIn(f) \ {ev} : Before(ev, other)
                          /\ FirstIn(said[ev[1]][ev[2]], f, v)

\* The facts that call c was the first to name.
NewWith(c) ==
    {f \in Said : (\E ev \in SeenIn(f) : ev[1] = c) /\ (\A ev \in SeenIn(f) : c <= ev[1])}

\* The facts that some item names.
NamedIn(items) == UNION {FactsIn(items[i]) : i \in DOMAIN items}

\* The places of a result's occurrences, and those where a fact is named.
PlacesIn(items) == UNION {{<<i, k>> : k \in DOMAIN items[i]} : i \in DOMAIN items}

At(items, p) == items[p[1]][p[2]]

FactAt(items, p) == Canonical[At(items, p).value]

Naming(items) == {p \in PlacesIn(items) : FactAt(items, p) \in Fact}

\* No fact is named twice, but one that is not new, by the same item.
NamesOnce(items, new) ==
    \A p, q \in Naming(items) :
        FactAt(items, p) = FactAt(items, q) =>
            p = q \/ (p[1] = q[1] /\ FactAt(items, p) \notin new)

\* "one count per node, not per edge", and "every edge created (one per fact
\* occurrence)" (extract.py): a call counts as new what no call before it named,
\* an edge for each time it names a fact, none of these twice, and as linked no
\* fewer facts than it named that were there before it; just these, unless it
\* names a fact of its own again or a fact in two items.
CountsAddUp ==
    \A c \in DOMAIN log :
        LET before == NamedIn(said[c]) \ NewWith(c) IN
        /\ log[c].new = Cardinality(NewWith(c))
        /\ log[c].edges = Cardinality(Naming(said[c]))
        /\ log[c].new + log[c].linked <= log[c].edges
        /\ Cardinality(before) <= log[c].linked
        /\ NamesOnce(said[c], NewWith(c)) => log[c].linked = Cardinality(before)

\* Every variable holds a value of its kind.
TypeOK ==
    /\ said \in Seq(Seq(Seq(Occurrence)))
    /\ log \in Seq(Record)
    /\ Len(said) = Len(log)
    /\ DOMAIN said \subseteq Call
    /\ graph \in Graph
    /\ DOMAIN raws \subseteq EventId

\* The graph is what the results said, and displays each fact as it was first
\* spelled.
GraphIsSaid ==
    /\ graph.events = SaidEvents
    /\ graph.edges = SaidEdges
    /\ \A f \in Fact : IF f \in Said THEN FirstSeenAs(f, graph.facts[f]) ELSE ~Knows(graph, f)

\* A record is of its call: of the first event made for it, or of none; a
\* duplicate has an earlier call that is not one.
LogIsSaid ==
    \A c \in DOMAIN log :
        /\ log[c].event = FirstEvent(c, said[c])
        /\ log[c].summary # "ok" => said[c] = <<>>
        /\ log[c].summary = "duplicate" =>
              \E b \in DOMAIN log : b < c /\ log[b].tool = log[c].tool /\ log[b].summary = "ok"

\* Raw returns are kept of the calls pinned with store_raw, and of those only; the
\* evidence of an event is what its whole call returned.
RawsAreSaid ==
    /\ DOMAIN raws = {ev \in SaidEvents : log[ev[1]].tool \in StoreRaw}
    /\ \A ev \in SaidEvents :
          GetEvidence(ev) = IF log[ev[1]].tool \in StoreRaw THEN said[ev[1]] ELSE None

\* Between two calls the graph, the log and the raw returns are what the results
\* so far make of them, whatever was skipped or raised in between.
Inv == TypeOK /\ GraphIsSaid /\ LogIsSaid /\ RawsAreSaid /\ CountsAddUp

\* A timeline is of a fact under the spelling it was first seen in, and under no
\* other ("displayed value (not canonical)", graph.py); it shows the oldest items
\* the fact was seen in, in the order they came in, whatever spellings it had
\* there.
TimelineIsHistory ==
    \A v \in Value, limit \in Limit :
        LET t == Timeline(v, limit)
            f == Canonical[v]
            seen == IF f \in Fact /\ FirstSeenAs(f, v) THEN SeenIn(f) ELSE {}
        IN
        /\ ToSet(t) \subseteq seen
        /\ Len(t) = IF limit < Cardinality(seen) THEN limit ELSE Cardinality(seen)
        /\ \A k \in DOMAIN t : \A ev \in seen \ ToSet(t) : Before(t[k], ev)
        /\ \A j, k \in DOMAIN t : j < k => Before(t[j], t[k])

\* The calls that returned the value, in any item and in any spelling of it.
Producers(v) == {c \in DOMAIN said : Canonical[v] \in NamedIn(said[c])}

\* "Filters AND together", "only calls that produced this exact entity", "by
\* either raw or canonical form" (graph-tools.md): what is listed produced the
\* value, with that tool if one is given, "limit" calls at most (all for 0).  Of
\* the calls that returned one item none is missing but for the limit, and then
\* it is older than what is listed.
ListedCallsProduced ==
    \A t \in Tool \cup {None}, v \in Value, limit \in Limit :
        Canonical[v] \in Fact =>
            LET listed == WhatHaveIDone(t, TypeOf[Canonical[v]], v, limit)
                asked == {c \in Producers(v) : t # None => log[c].tool = t}
                missing == {c \in asked \ listed : Len(said[c]) = 1}
            IN
            /\ listed \subseteq asked
            /\ limit > 0 => Cardinality(listed) <= limit
            /\ limit = 0 \/ Cardinality(listed) < limit => missing = {}
            /\ \A c \in listed, d \in missing : d < c

\* A skipped duplicate can be answered from memory: "did I already query ...
\* without re-running the call" (hooks-and-config.md).  Of the calls listed
\* for its tool, one older than it was ingested.
DuplicateIsAnswered ==
    \A k \in DOMAIN log : log[k].summary = "duplicate" =>
        \E c \in WhatHaveIDone(log[k].tool, None, None, Len(log)) :
            /\ c < k
            /\ log[c].summary = "ok"
            /\ \A i \in DOMAIN said[c] : FactsIn(said[c][i]) \subseteq TargetsOf(<<c, i>>)

\* "An event with no neighbour overlap scores 0" (test_timeline_ranking.py),
\* neighbours being "facts that share at least one *other* event with it"
\* (tools.py).
NoOverlapScoresZero ==
    \A f \in Fact : \A ev \in SourceEvents(Loaded, f) :
        (\A other \in SourceEvents(Loaded, f) \ {ev} :
            TargetsOf(ev) \cap TargetsOf(other) \subseteq {f}) => Score(f, ev) = 0
==============================================================================
