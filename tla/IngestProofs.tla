----------------------------- MODULE IngestProofs -----------------------------
(****************************************************************************)
(* Theorems about Ingest, for every number of calls, readers and workers,   *)
(* every set of values and tool results, with crashes and store failures.   *)
(* First what a call's graph is while the call goes on; then what is left   *)
(* in the store, in the log and with the handlers: Inv of Ingest is         *)
(* inductive, and the promises follow from it.                              *)
(****************************************************************************)
EXTENDS Ingest, TLAPS

------------------------------------------------------------------------------
(* What the graph operators return.                                         *)

\* The operators FactGraph builds a graph with stay within Graph.
LEMMA GraphOperators ==
    ASSUME NEW g \in Graph
    PROVE  /\ \A ev \in EventId : AddEvent(g, ev) \in Graph
           /\ \A v \in Value, ev \in EventId :
                  Canonical[v] \in Fact => UpsertFact(g, v, ev) \in Graph
           /\ \A e \in Edge : AddEdge(g, e) \in Graph
           /\ \A es \in SUBSET Edge : [g EXCEPT !.edges = es] \in Graph
           /\ g.facts \in [Fact -> Value \cup {Missing}]
  BY DEF Graph, AddEvent, UpsertFact, AddEdge

\* After an upsert the graph knows the fact of the value, and what it knew; a
\* known fact keeps its value, a new one takes this one.
LEMMA UpsertKnows ==
    ASSUME NEW g \in Graph, NEW v \in Value, NEW ev \in EventId, Canonical[v] \in Fact
    PROVE  LET h == UpsertFact(g, v, ev) IN
           /\ \A f \in Fact : Knows(h, f) <=> Knows(g, f) \/ f = Canonical[v]
           /\ \A f \in Fact : h.facts[f] = g.facts[f]
                                \/ (f = Canonical[v] /\ h.facts[f] = v /\ ~Knows(g, f))
           /\ h.events = g.events /\ h.edges = g.edges
  <1> DEFINE f == Canonical[v]
             h == UpsertFact(g, v, ev)
  <1>1. h.events = g.events /\ h.edges = g.edges
    BY DEF UpsertFact, Graph
  <1>2. CASE ~Knows(g, f)
    <2>1. h.facts = [g.facts EXCEPT ![f] = v]
      BY <1>2 DEF UpsertFact, Graph
    <2>2. QED
      BY <1>1, <1>2, <2>1, FactGraphAssumption DEF Knows, Graph
  <1>3. CASE Knows(g, f)
    <2>1. h.facts = g.facts
      BY <1>3 DEF UpsertFact, Graph
    <2>2. QED
      BY <1>1, <1>3, <2>1 DEF Knows
  <1>4. QED
    BY <1>2, <1>3

\* A snapshot of well-typed items is a graph.
LEMMA SnapshotType ==
    ASSUME NEW fs \in [Fact -> Value \cup {Missing}],
           NEW evs \in SUBSET EventId, NEW es \in SUBSET Edge
    PROVE  FromSnapshot(fs, evs, es) \in Graph
  BY DEF Graph, FromSnapshot

\* A search finds items of the store and nothing else.
LEMMA SearchedType ==
    ASSUME NEW S, NEW found \in Searched(S)
    PROVE  found \subseteq S
  BY DEF Searched

\* Persisting a record of a call leaves a log of records.
LEMMA RecordsType ==
    ASSUME TypeOK, NEW c \in Call, NEW t \in Time, NEW ev \in EventId \cup {None},
           NEW summary \in {"ok", "duplicate", "error"},
           PersistToolCall(BuildRecord(c, t, ev, summary))
    PROVE  log' \subseteq Record
  BY IngestAssumption DEF TypeOK, PersistToolCall, BuildRecord, Record

\* While an item is being walked, the position is one of the result.
LEMMA CurrentType ==
    ASSUME TypeOK, PositionOK, NEW c \in Call, EmitAt(c)
    PROVE  /\ item[c] \in DOMAIN ret[c]
           /\ occ[c] + 1 \in DOMAIN ret[c][item[c]]
           /\ Current(c) \in Occurrence
           /\ <<c, item[c]>> \in EventId
  <1>1. item[c] \in Nat /\ occ[c] \in Nat /\ ret[c] \in Seq(Seq(Occurrence))
    BY DEF TypeOK
  <1>2. item[c] > 0 /\ occ[c] # Len(ret[c][item[c]])
    BY <1>1 DEF EmitAt, ItemDone
  <1>3. item[c] \in DOMAIN ret[c] /\ ret[c][item[c]] \in Seq(Occurrence)
    BY <1>1, <1>2 DEF PositionOK
  <1>4. occ[c] + 1 \in DOMAIN ret[c][item[c]]
    BY <1>1, <1>2, <1>3 DEF PositionOK
  <1>5. QED
    BY <1>1, <1>2, <1>3, <1>4 DEF Current, EventId

------------------------------------------------------------------------------
(* Type correctness.                                                        *)

\* Every step keeps the types, given that positions are in bounds.
LEMMA TypeStep ==
    ASSUME TypeOK, PositionOK, [Next]_vars
    PROVE  TypeOK'
  <1>1. ASSUME NEW c \in Call, FindDuplicate(c) PROVE TypeOK'
    BY <1>1 DEF FindDuplicate, TypeOK, Goto, Labels, store, local, walk, payload
  <1>2. ASSUME NEW c \in Call, HandleDuplicate(c) PROVE TypeOK'
    BY <1>2, RecordsType
       DEF HandleDuplicate, TypeOK, Goto, Labels, Ended, store, local, walk, payload
  <1>26. ASSUME NEW c \in Call, CheckSoftLimit(c) PROVE TypeOK'
    BY <1>26 DEF CheckSoftLimit, TypeOK, Goto, Labels, Ended, store, local, walk, payload
  <1>3. ASSUME NEW c \in Call, RunTool(c) PROVE TypeOK'
    <2>1. Returns[ToolOf[c]] \subseteq Seq(Seq(Occurrence))
      BY IngestAssumption
    <2>2. QED
      BY <1>3, <2>1 DEF RunTool, TypeOK, Goto, Labels, store, payload
  <1>4. ASSUME NEW c \in Call, ValidationFails(c) PROVE TypeOK'
    BY <1>4 DEF ValidationFails, TypeOK, Goto, Labels, Ended, store, local, walk, payload
  <1>5. ASSUME NEW c \in Call, ToolRaises(c) PROVE TypeOK'
    BY <1>5 DEF ToolRaises, TypeOK, Goto, Labels, store, local, walk, payload
  <1>6. ASSUME NEW c \in Call, LogError(c) PROVE TypeOK'
    BY <1>6, RecordsType
       DEF LogError, TypeOK, Goto, Labels, Ended, store, local, walk, payload
  <1>7. ASSUME NEW a \in Actor, AcquireLock(a) PROVE TypeOK'
    BY <1>7 DEF AcquireLock, TypeOK, Goto, Labels, InCriticalSection, store, local,
                walk, payload
  <1>8. ASSUME NEW a \in Actor, LoadNodes(a) PROVE TypeOK'
    <2>1. PICK found \in Searched(StoredNodes) :
            graph' = [graph EXCEPT ![a] =
                FromSnapshot([f \in Fact |-> IF FactNode(f) \in found THEN facts[f] ELSE Missing],
                             {ev \in events : EventNode(ev) \in found}, {})]
      BY <1>8 DEF LoadNodes
    <2> DEFINE fs == [f \in Fact |-> IF FactNode(f) \in found THEN facts[f] ELSE Missing]
               evs == {ev \in events : EventNode(ev) \in found}
    <2>2. fs \in [Fact -> Value \cup {Missing}] /\ evs \subseteq EventId
      BY DEF TypeOK
    <2> HIDE DEF fs, evs
    <2>3. FromSnapshot(fs, evs, {}) \in Graph
      BY <2>2, SnapshotType
    <2>4. graph' = [graph EXCEPT ![a] = FromSnapshot(fs, evs, {})]
      BY <2>1 DEF fs, evs
    <2>5. graph' \in [Actor -> Graph]
      BY <2>3, <2>4 DEF TypeOK
    <2>6. QED
      BY <1>8, <2>5
         DEF LoadNodes, TypeOK, Goto, Labels, InCriticalSection, store, walk, payload
  <1>9. ASSUME NEW a \in Actor, LoadEdges(a) PROVE TypeOK'
    <2>0. PICK found \in Searched(edges) : graph' = [graph EXCEPT ![a].edges = found]
      BY <1>9 DEF LoadEdges
    <2>1. [graph[a] EXCEPT !.edges = found] \in Graph
      <3>1. found \in SUBSET Edge
        BY SearchedType DEF TypeOK
      <3>2. QED
        BY <3>1, GraphOperators DEF TypeOK
    <2>2. graph' = [graph EXCEPT ![a] = [graph[a] EXCEPT !.edges = found]]
      BY <2>0
    <2>3. graph' \in [Actor -> Graph]
      BY <2>1, <2>2 DEF TypeOK
    <2>4. QED
      BY <1>9, <2>3 DEF LoadEdges, TypeOK, Goto, Labels, InCriticalSection, store,
                        walk, payload
  <1>10. ASSUME NEW c \in Call, AddEventNode(c) PROVE TypeOK'
    <2> DEFINE ev == <<c, item[c] + 1>>
    <2>1. item[c] + 1 \in Nat \ {0} /\ ev \in EventId
      BY DEF TypeOK, EventId
    <2>2. AddEvent(graph[c], ev) \in Graph
      BY <2>1, GraphOperators DEF TypeOK, Actor
    <2>3. EventNode(ev) \in Node
      BY <2>1 DEF EventNode, Node
    <2>4. /\ graph' = [graph EXCEPT ![c] = AddEvent(graph[c], ev)]
          /\ payloadNodes' = [payloadNodes EXCEPT ![c] = Append(@, EventNode(ev))]
      BY <1>10 DEF AddEventNode
    <2> HIDE DEF ev
    <2>5. graph' \in [Actor -> Graph]
      BY <2>2, <2>4 DEF TypeOK
    <2>6. payloadNodes' \in [Call -> Seq(Node)]
      BY <2>3, <2>4 DEF TypeOK
    <2>7. item' \in [Call -> Nat] /\ occ' \in [Call -> Nat]
      BY <1>10, <2>1 DEF AddEventNode, TypeOK
    <2>8. QED
      BY <1>10, <2>5, <2>6, <2>7 DEF AddEventNode, TypeOK, store
  <1>11. ASSUME NEW c \in Call, EmitDropped(c) PROVE TypeOK'
    BY <1>11 DEF EmitDropped, EmitAt, TypeOK, store, payload
  <1>12. ASSUME NEW c \in Call, EmitOne(c) PROVE TypeOK'
    <2> DEFINE v == Current(c).value
               f == Canonical[v]
    <2>1. EmitAt(c) /\ f \in Fact
      BY <1>12 DEF EmitOne
    <2>2. Current(c) \in Occurrence /\ <<c, item[c]>> \in EventId
      BY <2>1, CurrentType
    <2>3. EdgeTo(c, f) \in Edge
      BY <2>1, <2>2 DEF Edge, EdgeTo, Occurrence
    <2>4. AddEdge(UpsertFact(graph[c], v, <<c, item[c]>>), EdgeTo(c, f)) \in Graph
      BY <2>1, <2>2, <2>3, GraphOperators DEF TypeOK, Actor, Occurrence
    <2>5. FactNode(f) \in Node
      BY <2>1 DEF FactNode, Node
    <2>6. /\ graph' = [graph EXCEPT ![c] =
                          AddEdge(UpsertFact(graph[c], v, <<c, item[c]>>), EdgeTo(c, f))]
          /\ payloadEdges' = [payloadEdges EXCEPT ![c] = Append(@, EdgeTo(c, f))]
          /\ LinkFact(c, f) \/ NewFact(c, f)
      BY <1>12 DEF EmitOne
    <2> HIDE DEF f, v
    <2>7. graph' \in [Actor -> Graph]
      BY <2>4, <2>6 DEF TypeOK
    <2>8. payloadEdges' \in [Call -> Seq(Edge)]
      BY <2>3, <2>6 DEF TypeOK
    <2>9. /\ payloadNodes' \in [Call -> Seq(Node)]
          /\ newFacts' \in [Call -> SUBSET Fact]
          /\ linkedFacts' \in [Call -> Seq(Node)]
      <3>1. CASE LinkFact(c, f)
        BY <2>5, <3>1 DEF LinkFact, TypeOK
      <3>2. CASE NewFact(c, f)
        BY <2>1, <2>5, <3>2 DEF NewFact, TypeOK
      <3>3. QED
        BY <2>6, <3>1, <3>2
    <2>10. occ' \in [Call -> Nat] /\ UNCHANGED <<ret, item>>
      BY <2>1 DEF EmitAt, TypeOK
    <2>11. UNCHANGED <<store, lock, pc, delivered>>
      BY <1>12 DEF EmitOne
    <2>12. QED
      BY <2>7, <2>8, <2>9, <2>10, <2>11 DEF TypeOK, store
  <1>13. ASSUME NEW c \in Call, EmitRaises(c) PROVE TypeOK'
    <2>1. occ' \in [Call -> Nat] /\ UNCHANGED <<ret, item>>
      BY <1>13 DEF EmitRaises, EmitAt, TypeOK
    <2>2. lock' \in [Proc -> Actor \cup {None}]
      BY <1>13 DEF EmitRaises, Unlock, TypeOK
    <2>3. pc' \in [Actor -> Labels]
      BY <1>13 DEF EmitRaises, Goto, Labels, Ended, TypeOK
    <2>4. QED
      BY <1>13, <2>1, <2>2, <2>3 DEF EmitRaises, TypeOK, store, payload
  <1>14. ASSUME NEW c \in Call, FinishBuild(c) PROVE TypeOK'
    <2>1. payloadNodes[c] \o linkedFacts[c] \in Seq(Node)
      BY DEF TypeOK
    <2>2. payloadNodes' = [payloadNodes EXCEPT ![c] = @ \o linkedFacts[c]]
      BY <1>14 DEF FinishBuild
    <2>3. payloadNodes' \in [Call -> Seq(Node)]
      BY <2>1, <2>2 DEF TypeOK
    <2>4. pc' \in [Actor -> Labels]
      BY <1>14 DEF FinishBuild, TypeOK, Goto, Labels, InCriticalSection
    <2>5. QED
      BY <1>14, <2>3, <2>4 DEF FinishBuild, TypeOK, store, walk
  <1>15. ASSUME NEW c \in Call, PutNode(c) PROVE TypeOK'
    <2> DEFINE n == Head(payloadNodes[c])
    <2>1. n \in Node /\ payloadNodes' \in [Call -> Seq(Node)]
      BY <1>15 DEF PutNode, TypeOK
    <2>2. graph[c].facts \in [Fact -> Value \cup {Missing}]
      BY DEF TypeOK, Graph, Actor
    <2>3. n.kind = "event" => n.id \in EventId
      BY <2>1 DEF Node
    <2>4. n.kind # "event" => n.id \in Fact
      BY <2>1 DEF Node
    <2> HIDE DEF n
    <2>5. /\ facts' \in [Fact -> Value \cup {Missing}]
          /\ events' \subseteq EventId
      BY <1>15, <2>2, <2>3, <2>4 DEF PutNode, Put, TypeOK, n
    <2>6. QED
      BY <1>15, <2>1, <2>5 DEF PutNode, TypeOK, walk
  <1>16. ASSUME NEW c \in Call, PutEdge(c) PROVE TypeOK'
    BY <1>16 DEF PutEdge, TypeOK, walk
  <1>17. ASSUME NEW c \in Call, ReleaseLock(c) PROVE TypeOK'
    BY <1>17 DEF ReleaseLock, Unlock, Goto, Labels, TypeOK, store, local, walk, payload
  <1>18. ASSUME NEW c \in Call, PutRaw(c) PROVE TypeOK'
    <2>1. RawsDue(c) \subseteq Nat \ {0}
      BY DEF RawsDue, TypeOK
    <2>2. raws' \subseteq EventId
      BY <1>18, <2>1 DEF PutRaw, TypeOK, EventId
    <2>3. QED
      BY <1>18, <2>2 DEF PutRaw, TypeOK, local, walk, payload
  <1>19. ASSUME NEW c \in Call, LogCall(c) PROVE TypeOK'
    <2>1. FirstEvent(c) \in EventId \cup {None}
      BY DEF FirstEvent, EventId
    <2>2. log' \subseteq Record
      BY <1>19, <2>1, RecordsType DEF LogCall
    <2>3. QED
      BY <1>19, <2>2 DEF LogCall, TypeOK, Goto, Labels, local, walk, payload
  <1>20. ASSUME NEW c \in Call, Dispatch(c) PROVE TypeOK'
    <2>1. ProcOf[c] \in Proc
      BY IngestAssumption DEF Actor
    <2>2. delivered' \in [Proc -> Seq(Call)]
      BY <1>20, <2>1 DEF Dispatch, TypeOK
    <2>3. QED
      BY <1>20, <2>2 DEF Dispatch, TypeOK, Goto, Labels, Ended, store, local, walk,
                         payload
  <1>21. ASSUME NEW a \in Actor, StoreFails(a) PROVE TypeOK'
    BY <1>21 DEF StoreFails, Unlock, Goto, Labels, Ended, TypeOK, store, local, walk,
                 payload
  <1>22. ASSUME NEW r \in Reader, ReadDone(r) PROVE TypeOK'
    BY <1>22 DEF ReadDone, Unlock, Goto, Labels, Ended, TypeOK, store, local, walk,
                 payload
  <1>23. ASSUME NEW p \in Proc, Crash(p) PROVE TypeOK'
    BY <1>23 DEF Crash, Labels, Ended, TypeOK, store, local, walk, payload
  <1>24. CASE UNCHANGED vars
    BY <1>24 DEF TypeOK, vars, store, local, walk, payload
  <1>25. QED
    BY <1>1, <1>2, <1>3, <1>4, <1>5, <1>6, <1>7, <1>8, <1>9, <1>10, <1>11, <1>12,
       <1>13, <1>14, <1>15, <1>16, <1>17, <1>18, <1>19, <1>20, <1>21, <1>22,
       <1>23, <1>24, <1>26
       DEF Next, CallStep, ActorStep, Idle

\* Every step keeps positions in bounds.
LEMMA PositionStep ==
    ASSUME TypeOK, PositionOK, [Next]_vars
    PROVE  PositionOK'
  <1>1. ASSUME NEW c \in Call, RunTool(c) PROVE PositionOK'
    <2>1. \A d \in Call : d # c => ret'[d] = ret[d]
      BY <1>1 DEF RunTool, TypeOK
    <2>2. item[c] = 0 /\ ret'[c] \in Seq(Seq(Occurrence))
      BY <1>1, IngestAssumption DEF RunTool, TypeOK, PositionOK
    <2>3. \A d \in Call : pc'[d] \in {"start", "run"} => pc[d] \in {"start", "run"}
      BY <1>1 DEF RunTool, Goto, TypeOK
    <2>4. QED
      BY <1>1, <2>1, <2>2, <2>3 DEF RunTool, PositionOK, TypeOK
  <1>2. ASSUME NEW c \in Call, AddEventNode(c) PROVE PositionOK'
    <2>1. \A d \in Call : d # c => item'[d] = item[d] /\ occ'[d] = occ[d]
      BY <1>2 DEF AddEventNode, TypeOK
    <2>2. item'[c] = item[c] + 1 /\ occ'[c] = 0 /\ item'[c] <= Len(ret[c])
      BY <1>2 DEF AddEventNode, HasItem, TypeOK
    <2>3. ret[c][item[c] + 1] \in Seq(Occurrence)
      BY <2>2 DEF TypeOK
    <2>4. ret' = ret /\ pc' = pc /\ pc[c] = "build"
      BY <1>2 DEF AddEventNode
    <2>5. SUFFICES ASSUME NEW d \in Call
                   PROVE  /\ item'[d] <= Len(ret[d])
                          /\ item'[d] > 0 => occ'[d] <= Len(ret[d][item'[d]])
                          /\ pc[d] \in {"start", "run"} => item'[d] = 0
      BY <2>4 DEF PositionOK
    <2>6. CASE d = c
      BY <2>2, <2>3, <2>4, <2>6
    <2>7. CASE d # c
      BY <2>1, <2>7 DEF PositionOK
    <2>8. QED
      BY <2>6, <2>7
  <1>3. ASSUME NEW c \in Call, EmitAt(c), pc' = pc \/ pc' = [pc EXCEPT ![c] = "rejected"]
        PROVE PositionOK'
    <2>1. occ[c] + 1 <= Len(ret[c][item[c]])
      <3>1. item[c] \in DOMAIN ret[c] /\ occ[c] + 1 \in DOMAIN ret[c][item[c]]
        BY <1>3, CurrentType
      <3>2. ret[c][item[c]] \in Seq(Occurrence)
        BY <3>1 DEF TypeOK
      <3>3. QED
        BY <3>1, <3>2
    <2>2. \A d \in Call : d # c => occ'[d] = occ[d]
      BY <1>3 DEF EmitAt, TypeOK
    <2>3. occ'[c] = occ[c] + 1
      BY <1>3 DEF EmitAt, TypeOK
    <2>4. ret' = ret /\ item' = item
      BY <1>3 DEF EmitAt
    <2>5. \A d \in Call : pc'[d] \in {"start", "run"} => pc[d] \in {"start", "run"}
      BY <1>3 DEF TypeOK, Actor
    <2>6. SUFFICES ASSUME NEW d \in Call
                   PROVE  item[d] > 0 => occ'[d] <= Len(ret[d][item[d]])
      BY <2>4, <2>5 DEF PositionOK
    <2>7. CASE d = c
      BY <2>1, <2>3, <2>7
    <2>8. CASE d # c
      BY <2>2, <2>8 DEF PositionOK
    <2>9. QED
      BY <2>7, <2>8
  <1>4. ASSUME UNCHANGED walk,
               \A c \in Call : pc'[c] \in {"start", "run"} => pc[c] \in {"start", "run"}
        PROVE PositionOK'
    BY <1>4 DEF PositionOK, walk
  <1>5. ASSUME NEW c \in Call, CallStep(c), ~RunTool(c), ~AddEventNode(c), ~EmitDropped(c),
               ~EmitOne(c), ~EmitRaises(c)
        PROVE  PositionOK'
    <2>1. UNCHANGED walk
      BY <1>5 DEF CallStep, FindDuplicate, HandleDuplicate, CheckSoftLimit, ValidationFails, ToolRaises,
                  LogError, FinishBuild, PutNode, PutEdge, ReleaseLock, PutRaw, LogCall,
                  Dispatch, local
    <2>2. CASE FindDuplicate(c)
      BY <1>4, <2>1, <2>2 DEF FindDuplicate, Goto, TypeOK
    <2>3. CASE ~FindDuplicate(c)
      <3>1. pc' = pc \/ \E l \in Labels \ {"start", "run"} : pc' = [pc EXCEPT ![c] = l]
        <4>1. CASE HandleDuplicate(c) \/ CheckSoftLimit(c) \/ ValidationFails(c) \/ ToolRaises(c) \/ LogError(c)
          BY <4>1 DEF HandleDuplicate, CheckSoftLimit, ValidationFails, ToolRaises, LogError, Goto,
                      Labels, Ended
        <4>2. CASE FinishBuild(c)
          BY <4>2 DEF FinishBuild, Goto, Labels, InCriticalSection
        <4>3. CASE ReleaseLock(c) \/ LogCall(c)
          BY <4>3 DEF ReleaseLock, LogCall, Goto, Labels
        <4>4. CASE Dispatch(c)
          BY <4>4 DEF Dispatch, Goto, Labels, Ended
        <4>5. CASE PutNode(c) \/ PutEdge(c) \/ PutRaw(c)
          BY <4>5 DEF PutNode, PutEdge, PutRaw
        <4>6. QED
          BY <1>5, <2>3, <4>1, <4>2, <4>3, <4>4, <4>5 DEF CallStep
      <3>2. \A d \in Call : pc'[d] \in {"start", "run"} => pc[d] \in {"start", "run"}
        BY <3>1 DEF TypeOK, Actor
      <3>3. QED
        BY <1>4, <2>1, <3>2
    <2>4. QED
      BY <2>2, <2>3
  <1>6. ASSUME NEW a \in Actor, ActorStep(a) PROVE PositionOK'
    <2>1. UNCHANGED walk
      BY <1>6 DEF ActorStep, AcquireLock, LoadNodes, LoadEdges, StoreFails, local
    <2>2. \E l \in Labels \ {"start", "run"} : pc' = [pc EXCEPT ![a] = l]
      BY <1>6 DEF ActorStep, AcquireLock, LoadNodes, LoadEdges, StoreFails, Goto, Labels,
                  Ended, InCriticalSection
    <2>3. QED
      BY <1>4, <2>1, <2>2 DEF TypeOK
  <1>7. ASSUME NEW r \in Reader, ReadDone(r) PROVE PositionOK'
    BY <1>4, <1>7 DEF ReadDone, Goto, TypeOK, local, Ended
  <1>8. ASSUME NEW p \in Proc, Crash(p) PROVE PositionOK'
    <2>1. UNCHANGED walk
      BY <1>8 DEF Crash, local
    <2>2. \A c \in Call : pc'[c] = pc[c] \/ pc'[c] = "crashed"
      BY <1>8 DEF Crash, Actor
    <2>3. QED
      BY <1>4, <2>1, <2>2
  <1>9. CASE UNCHANGED vars
    BY <1>4, <1>9 DEF vars, local
  <1>10. QED
    <2>1. ASSUME NEW c \in Call, EmitDropped(c) \/ EmitOne(c) PROVE PositionOK'
      BY <1>3, <2>1 DEF EmitDropped, EmitOne
    <2>2. ASSUME NEW c \in Call, EmitRaises(c) PROVE PositionOK'
      BY <1>3, <2>2 DEF EmitRaises, Goto
    <2>3. QED
      BY <1>1, <1>2, <1>5, <1>6, <1>7, <1>8, <1>9, <2>1, <2>2 DEF Next, Idle

\* The initial state has its types, and no walk has begun.
LEMMA InitType == Init => TypeOK /\ PositionOK
  <1> SUFFICES ASSUME Init PROVE TypeOK /\ PositionOK
    OBVIOUS
  <1>1. EmptyGraph \in Graph
    BY DEF EmptyGraph, FromSnapshot, Graph
  <1>2. pc \in [Actor -> Labels]
    BY DEF Init, Labels
  <1>3. facts \in [Fact -> Value \cup {Missing}]
    BY DEF Init, EmptyGraph, FromSnapshot
  <1>4. lock \in [Proc -> Actor \cup {None}]
    BY DEF Init
  <1>5. QED
    BY <1>1, <1>2, <1>3, <1>4 DEF Init, TypeOK, PositionOK

\* Every variable of every reachable state has its type, and the extraction
\* never walks past the result a tool returned.
THEOREM TypeCorrect == Spec => [](TypeOK /\ PositionOK)
  <1>1. Init => TypeOK /\ PositionOK
    BY InitType
  <1>2. TypeOK /\ PositionOK /\ [Next]_vars => (TypeOK /\ PositionOK)'
    BY TypeStep, PositionStep
  <1>3. QED
    BY <1>1, <1>2, PTL DEF Spec

------------------------------------------------------------------------------
(* No dangling edge in the store.                                           *)

\* Appending a node or an edge to a payload adds that one element.
LEMMA ElemsAppend ==
    ASSUME NEW S, NEW s \in Seq(S), NEW x \in S
    PROVE  Elems(Append(s, x)) = Elems(s) \cup {x}
  <1>1. /\ DOMAIN Append(s, x) = 1 .. Len(s) + 1
        /\ \A i \in DOMAIN s : Append(s, x)[i] = s[i]
        /\ Append(s, x)[Len(s) + 1] = x
        /\ DOMAIN s = 1 .. Len(s) /\ Len(s) \in Nat
    OBVIOUS
  <1>2. Elems(s) \cup {x} \subseteq Elems(Append(s, x))
    BY <1>1 DEF Elems
  <1>3. Elems(Append(s, x)) \subseteq Elems(s) \cup {x}
    <2>1. \A i \in 1 .. Len(s) + 1 : i \in DOMAIN s \/ i = Len(s) + 1
      BY <1>1
    <2>2. QED
      BY <1>1, <2>1 DEF Elems
  <1>4. QED
    BY <1>2, <1>3

\* Concatenation unites the elements.
LEMMA ElemsConcat ==
    ASSUME NEW S, NEW s \in Seq(S), NEW t \in Seq(S)
    PROVE  Elems(s \o t) = Elems(s) \cup Elems(t)
  <1>1. DOMAIN (s \o t) = 1 .. Len(s) + Len(t) /\ DOMAIN s = 1 .. Len(s)
        /\ DOMAIN t = 1 .. Len(t) /\ Len(s) \in Nat /\ Len(t) \in Nat
    OBVIOUS
  <1>2. \A i \in DOMAIN s : i \in DOMAIN (s \o t) /\ (s \o t)[i] = s[i]
    OBVIOUS
  <1>3. \A i \in DOMAIN t : Len(s) + i \in DOMAIN (s \o t) /\ (s \o t)[Len(s) + i] = t[i]
    OBVIOUS
  <1>4. \A i \in DOMAIN (s \o t) :
            \/ i \in DOMAIN s
            \/ i - Len(s) \in DOMAIN t /\ (s \o t)[i] = t[i - Len(s)]
    OBVIOUS
  <1>5. Elems(s) \subseteq Elems(s \o t)
    BY <1>2 DEF Elems
  <1>6. Elems(t) \subseteq Elems(s \o t)
    BY <1>3 DEF Elems
  <1>7. Elems(s \o t) \subseteq Elems(s) \cup Elems(t)
    BY <1>2, <1>4 DEF Elems
  <1>8. QED
    BY <1>5, <1>6, <1>7

\* Taking the head off leaves the others.
LEMMA ElemsTail ==
    ASSUME NEW S, NEW s \in Seq(S), s # <<>>
    PROVE  /\ Head(s) \in S
           /\ Elems(s) = Elems(Tail(s)) \cup {Head(s)}
  <1>1. Len(s) \in Nat \ {0} /\ Head(s) = s[1] /\ Tail(s) \in Seq(S)
    OBVIOUS
  <1>2. Len(Tail(s)) = Len(s) - 1 /\ \A i \in 1 .. Len(s) - 1 : Tail(s)[i] = s[i + 1]
    OBVIOUS
  <1>3. Elems(Tail(s)) \cup {Head(s)} \subseteq Elems(s)
    BY <1>1, <1>2 DEF Elems
  <1>4. \A i \in DOMAIN s : i # 1 => i - 1 \in DOMAIN Tail(s) /\ Tail(s)[i - 1] = s[i]
    BY <1>1, <1>2
  <1>5. Elems(s) \subseteq Elems(Tail(s)) \cup {Head(s)}
    BY <1>1, <1>4 DEF Elems
  <1>6. QED
    BY <1>1, <1>3, <1>5

\* A finished payload.
LEMMA ElemsEmpty == Elems(<<>>) = {}
  BY DEF Elems

\* Node items are never taken out of the store.
NodesStay ==
    /\ events \subseteq events'
    /\ \A f \in Fact : facts[f] # Missing => facts'[f] # Missing

\* A step leaves call c where it is, and what it has to put alone.
PayloadUntouched(c) ==
    /\ pc'[c] = pc[c] /\ item'[c] = item[c] /\ graph'[c] = graph[c]
    /\ payloadNodes'[c] = payloadNodes[c] /\ payloadEdges'[c] = payloadEdges[c]
    /\ newFacts'[c] = newFacts[c] /\ linkedFacts'[c] = linkedFacts[c]

\* ... and all its locals.
Untouched(c) == PayloadUntouched(c) /\ ret'[c] = ret[c] /\ occ'[c] = occ[c]

InBuild == BeforeBuild \cup {"build", "persist"}

\* A call's payload stays closed while others only add nodes to the store.
LEMMA Frame ==
    ASSUME TypeOK, NEW c \in Call, ClosedAt(c), NodesStay, PayloadUntouched(c)
    PROVE  ClosedAt(c)'
  <1>1. Pending(c)' = Pending(c)
    BY DEF Pending, PayloadUntouched
  <1>2. \A e \in Elems(payloadEdges[c]) : e.target \in Fact
    <2>1. Elems(payloadEdges[c]) \subseteq Edge
      BY DEF TypeOK, Elems
    <2>2. QED
      BY <2>1 DEF Edge
  <1>3. QED
    BY <1>1, <1>2 DEF ClosedAt, NodesStay, PayloadUntouched

\* No step of the system takes a node item out of the store: a fact is only
\* put with a value its call's graph has for it.
LEMMA NodesStayStep ==
    ASSUME TypeOK, PayloadClosed, [Next]_vars
    PROVE  NodesStay
  <1>1. ASSUME facts' = facts, events' = events PROVE NodesStay
    BY <1>1 DEF NodesStay
  <1>2. ASSUME NEW c \in Call, PutNode(c) PROVE NodesStay
    <2> DEFINE n == Head(payloadNodes[c])
    <2>1. pc[c] = "persist" /\ payloadNodes[c] # <<>> /\ payloadNodes[c] \in Seq(Node)
      BY <1>2 DEF PutNode, TypeOK
    <2>2. n \in Node /\ n \in Elems(payloadNodes[c])
      BY <2>1, ElemsTail
    <2>3. n \in Pending(c) /\ ClosedAt(c)
      BY <2>2 DEF Pending, PayloadClosed
    <2>4. CASE n.kind = "event"
      BY <1>2, <2>4 DEF PutNode, Put, NodesStay
    <2>5. CASE n.kind # "event"
      <3>1. n.id \in Fact /\ n = FactNode(n.id)
        BY <2>2, <2>5 DEF Node, FactNode
      <3>2. Knows(graph[c], n.id)
        BY <2>1, <2>3, <3>1 DEF ClosedAt
      <3>3. events' = events /\ facts' = [facts EXCEPT ![n.id] = graph[c].facts[n.id]]
        BY <1>2, <2>5 DEF PutNode, Put
      <3> HIDE DEF n
      <3>4. QED
        BY <3>1, <3>2, <3>3 DEF NodesStay, Knows, TypeOK
    <2>6. QED
      BY <2>4, <2>5
  <1>3. ASSUME NEW c \in Call, CallStep(c), ~PutNode(c) PROVE facts' = facts /\ events' = events
    BY <1>3 DEF CallStep, FindDuplicate, HandleDuplicate, CheckSoftLimit, RunTool, ValidationFails,
                ToolRaises, LogError, AddEventNode, EmitDropped, EmitOne, EmitRaises,
                FinishBuild, PutEdge, ReleaseLock, PutRaw, LogCall, Dispatch, store
  <1>4. ASSUME NEW a \in Actor, ActorStep(a) PROVE facts' = facts /\ events' = events
    BY <1>4 DEF ActorStep, AcquireLock, LoadNodes, LoadEdges, StoreFails, store
  <1>5. CASE \/ \E r \in Reader : ReadDone(r)
             \/ \E p \in Proc : Crash(p)
             \/ UNCHANGED vars
    BY <1>1, <1>5 DEF ReadDone, Crash, vars, store
  <1>6. QED
    BY <1>1, <1>2, <1>3, <1>4, <1>5 DEF Next, Idle

\* A step of one actor leaves another's call alone.
LEMMA OthersUntouched ==
    ASSUME TypeOK, NEW a \in Actor, NEW d \in Call, d # a,
           (a \in Call /\ CallStep(a)) \/ ActorStep(a) \/ ReadDone(a)
    PROVE  Untouched(d)
  <1> d \in Actor
    BY DEF Actor
  <1>1. \A f : [pc EXCEPT ![a] = f][d] = pc[d]
    BY DEF TypeOK
  <1>2. CASE a \in Call /\ (FindDuplicate(a) \/ HandleDuplicate(a) \/ CheckSoftLimit(a)
                               \/ ValidationFails(a) \/ ToolRaises(a) \/ LogError(a))
    BY <1>1, <1>2 DEF FindDuplicate, HandleDuplicate, CheckSoftLimit, ValidationFails, ToolRaises,
                      LogError, Goto, Untouched, PayloadUntouched, local, walk, payload
  <1>14. CASE a \in Call /\ RunTool(a)
    BY <1>1, <1>14 DEF RunTool, Goto, Untouched, PayloadUntouched, payload, TypeOK
  <1>3. CASE a \in Call /\ AddEventNode(a)
    BY <1>3 DEF AddEventNode, Untouched, PayloadUntouched, TypeOK
  <1>4. CASE a \in Call /\ EmitDropped(a)
    BY <1>4 DEF EmitDropped, EmitAt, Untouched, PayloadUntouched, payload
  <1>5. CASE a \in Call /\ EmitRaises(a)
    BY <1>1, <1>5 DEF EmitRaises, EmitAt, Goto, Untouched, PayloadUntouched, payload
  <1>6. CASE a \in Call /\ EmitOne(a)
    <2>1. PICK g, e, f : /\ graph' = [graph EXCEPT ![a] = g]
                         /\ payloadEdges' = [payloadEdges EXCEPT ![a] = Append(@, e)]
                         /\ LinkFact(a, f) \/ NewFact(a, f)
      BY <1>6 DEF EmitOne
    <2>2. graph'[d] = graph[d] /\ payloadEdges'[d] = payloadEdges[d]
      BY <2>1 DEF TypeOK
    <2>3. /\ payloadNodes'[d] = payloadNodes[d]
          /\ newFacts'[d] = newFacts[d]
          /\ linkedFacts'[d] = linkedFacts[d]
      <3>1. CASE LinkFact(a, f)
        BY <3>1 DEF LinkFact, TypeOK
      <3>2. CASE NewFact(a, f)
        BY <3>2 DEF NewFact, TypeOK
      <3>3. QED
        BY <2>1, <3>1, <3>2
    <2>4. QED
      BY <1>6, <2>2, <2>3 DEF EmitOne, EmitAt, Untouched, PayloadUntouched
  <1>7. CASE a \in Call /\ FinishBuild(a)
    BY <1>1, <1>7 DEF FinishBuild, Goto, Untouched, PayloadUntouched, TypeOK, walk
  <1>8. CASE a \in Call /\ PutNode(a)
    BY <1>8 DEF PutNode, Untouched, PayloadUntouched, TypeOK, walk
  <1>9. CASE a \in Call /\ PutEdge(a)
    BY <1>9 DEF PutEdge, Untouched, PayloadUntouched, TypeOK, walk
  <1>10. CASE a \in Call /\ (ReleaseLock(a) \/ PutRaw(a) \/ LogCall(a) \/ Dispatch(a))
    BY <1>1, <1>10 DEF ReleaseLock, PutRaw, LogCall, Dispatch, Goto, Untouched, PayloadUntouched,
                       local, walk, payload
  <1>11. CASE AcquireLock(a) \/ StoreFails(a) \/ ReadDone(a)
    BY <1>1, <1>11 DEF AcquireLock, StoreFails, ReadDone, Goto, Untouched, PayloadUntouched,
                       local, walk, payload
  <1>12. CASE LoadNodes(a) \/ LoadEdges(a)
    <2>1. \E g : graph' = [graph EXCEPT ![a] = g]
      BY <1>12 DEF LoadNodes, LoadEdges
    <2>2. graph'[d] = graph[d]
      BY <2>1 DEF TypeOK
    <2>3. QED
      BY <1>1, <1>12, <2>2 DEF LoadNodes, LoadEdges, Goto, Untouched, PayloadUntouched,
                                    walk, payload
  <1>13. QED
    BY <1>2, <1>3, <1>4, <1>5, <1>6, <1>7, <1>8, <1>9, <1>10, <1>11, <1>12, <1>14
       DEF CallStep, ActorStep

\* An emitted occurrence: its edge and its fact are in the graph, and among
\* what the call has to put, whether the fact was created or linked to.
LEMMA EmitOneEffect ==
    ASSUME TypeOK, PositionOK, NEW c \in Call, ClosedAt(c), EmitOne(c)
    PROVE  LET v == Current(c).value
               f == Canonical[v]
           IN
           /\ pc[c] = "build" /\ item[c] > 0
           /\ v \in Value /\ f \in Fact /\ EdgeTo(c, f) \in Edge
           /\ \A h \in Fact : Knows(graph'[c], h) <=> Knows(graph[c], h) \/ h = f
           /\ \A h \in Fact : graph'[c].facts[h] = graph[c].facts[h]
                                \/ (h = f /\ graph'[c].facts[h] = v /\ ~Knows(graph[c], h))
           /\ graph'[c].events = graph[c].events
           /\ graph'[c].edges = graph[c].edges \cup {EdgeTo(c, f)}
           /\ Elems(payloadEdges'[c]) = Elems(payloadEdges[c]) \cup {EdgeTo(c, f)}
           /\ Pending(c)' = Pending(c) \cup {FactNode(f)}
           /\ Elems(payloadNodes[c]) \subseteq Elems(payloadNodes'[c])
           /\ \A h \in newFacts'[c] : FactNode(h) \in Elems(payloadNodes'[c])
  <1> c \in Actor
    BY DEF Actor
  <1> DEFINE v == Current(c).value
             f == Canonical[v]
  <1>1. /\ EmitAt(c) /\ f \in Fact
        /\ graph' = [graph EXCEPT ![c] =
                        AddEdge(UpsertFact(graph[c], v, <<c, item[c]>>), EdgeTo(c, f))]
        /\ IF Knows(graph[c], f) THEN LinkFact(c, f) ELSE NewFact(c, f)
        /\ payloadEdges' = [payloadEdges EXCEPT ![c] = Append(@, EdgeTo(c, f))]
        /\ UNCHANGED <<facts, events, pc>>
    BY DEF EmitOne, store
  <1>2. /\ pc[c] = "build" /\ item' = item /\ item[c] > 0
        /\ Current(c) \in Occurrence /\ <<c, item[c]>> \in EventId
    BY <1>1, CurrentType DEF EmitAt, ItemDone
  <1>3. v \in Value /\ EdgeTo(c, f) \in Edge /\ FactNode(f) \in Node
    BY <1>1, <1>2 DEF Occurrence, Edge, EdgeTo, FactNode, Node
  <1>4. /\ EdgeTo(c, f).event = <<c, item[c]>>
        /\ EdgeTo(c, f).target = f
    BY DEF EdgeTo
  <1>5. /\ \A h \in Fact : Knows(graph'[c], h) <=> Knows(graph[c], h) \/ h = f
        /\ \A h \in Fact : graph'[c].facts[h] = graph[c].facts[h]
                             \/ (h = f /\ graph'[c].facts[h] = v /\ ~Knows(graph[c], h))
        /\ graph'[c].events = graph[c].events
        /\ graph'[c].edges = graph[c].edges \cup {EdgeTo(c, f)}
    <2> DEFINE g == UpsertFact(graph[c], v, <<c, item[c]>>)
    <2>1. g \in Graph /\ graph[c] \in Graph
      BY <1>1, <1>2, <1>3, GraphOperators DEF TypeOK
    <2>2. /\ \A h \in Fact : Knows(g, h) <=> Knows(graph[c], h) \/ h = f
          /\ \A h \in Fact : g.facts[h] = graph[c].facts[h]
                               \/ (h = f /\ g.facts[h] = v /\ ~Knows(graph[c], h))
          /\ g.events = graph[c].events /\ g.edges = graph[c].edges
      BY <1>1, <1>2, <1>3, <2>1, UpsertKnows
    <2> HIDE DEF g
    <2>3. graph'[c] = AddEdge(g, EdgeTo(c, f))
      BY <1>1 DEF TypeOK, g
    <2>4. /\ graph'[c].facts = g.facts /\ graph'[c].events = g.events
          /\ graph'[c].edges = g.edges \cup {EdgeTo(c, f)}
      BY <2>1, <2>3 DEF AddEdge, Graph
    <2>5. QED
      BY <2>2, <2>4 DEF Knows
  <1> HIDE DEF f, v
  <1>6. Elems(payloadEdges'[c]) = Elems(payloadEdges[c]) \cup {EdgeTo(c, f)}
    <2>1. payloadEdges'[c] = Append(payloadEdges[c], EdgeTo(c, f))
          /\ payloadEdges[c] \in Seq(Edge)
      BY <1>1 DEF TypeOK
    <2>2. QED
      BY <1>3, <2>1, ElemsAppend
  \* Either way the fact is pending afterwards.
  <1>7. /\ Pending(c)' = Pending(c) \cup {FactNode(f)}
        /\ Elems(payloadNodes[c]) \subseteq Elems(payloadNodes'[c])
        /\ \A h \in newFacts'[c] : FactNode(h) \in Elems(payloadNodes'[c])
    <2>1. CASE LinkFact(c, f)
      <3>1. payloadNodes' = payloadNodes /\ newFacts' = newFacts
        BY <2>1 DEF LinkFact
      <3>2. CASE f \in newFacts[c] \/ FactNode(f) \in Elems(linkedFacts[c])
        BY <1>1, <1>2, <2>1, <3>1, <3>2 DEF LinkFact, Pending, ClosedAt
      <3>3. CASE ~(f \in newFacts[c] \/ FactNode(f) \in Elems(linkedFacts[c]))
        <4>1. linkedFacts'[c] = Append(linkedFacts[c], FactNode(f))
              /\ linkedFacts[c] \in Seq(Node)
          BY <2>1, <3>3 DEF LinkFact, TypeOK
        <4>2. Elems(linkedFacts'[c]) = Elems(linkedFacts[c]) \cup {FactNode(f)}
          BY <1>3, <4>1, ElemsAppend
        <4>3. QED
          BY <1>1, <1>2, <3>1, <4>2 DEF Pending, ClosedAt
      <3>4. QED
        BY <3>2, <3>3
    <2>2. CASE NewFact(c, f)
      <3>1. /\ payloadNodes'[c] = Append(payloadNodes[c], FactNode(f))
            /\ newFacts'[c] = newFacts[c] \cup {f}
            /\ linkedFacts' = linkedFacts
            /\ payloadNodes[c] \in Seq(Node)
        BY <2>2 DEF NewFact, TypeOK
      <3>2. Elems(payloadNodes'[c]) = Elems(payloadNodes[c]) \cup {FactNode(f)}
        BY <1>3, <3>1, ElemsAppend
      <3>3. QED
        BY <1>1, <1>2, <3>1, <3>2 DEF Pending, ClosedAt
    <2>3. QED
      BY <1>1, <2>1, <2>2
  <1>8. QED
    BY <1>1, <1>2, <1>3, <1>5, <1>6, <1>7 DEF f, v

\* A step of a call keeps its own payload closed.
LEMMA OwnStep ==
    ASSUME TypeOK, PositionOK, PayloadClosed, NodesStay, NEW c \in Call,
           CallStep(c) \/ ActorStep(c)
    PROVE  ClosedAt(c)'
  <1> c \in Actor
    BY DEF Actor
  <1>0. ClosedAt(c)
    BY DEF PayloadClosed
  \* Steps that take the call out of the locked section, or never led into it.
  <1>1. ASSUME pc'[c] \notin InBuild PROVE ClosedAt(c)'
    BY <1>1 DEF ClosedAt, InBuild
  \* Steps on the way to the extraction.
  <1>2. ASSUME pc[c] \in BeforeBuild, pc'[c] \in BeforeBuild, UNCHANGED <<item, payload>>
        PROVE  ClosedAt(c)'
    <2>1. pc'[c] \notin {"build", "persist"}
      BY <1>2 DEF BeforeBuild
    <2>2. QED
      BY <1>0, <1>2, <2>1 DEF ClosedAt, payload
  \* Steps that stay where they are and leave the payload alone.
  <1>3. ASSUME UNCHANGED <<pc, item, graph, payload>> PROVE ClosedAt(c)'
    BY <1>0, <1>3, Frame DEF PayloadUntouched, payload
  <1>4. CASE FindDuplicate(c)
    BY <1>1, <1>2, <1>4 DEF FindDuplicate, Goto, BeforeBuild, InBuild, TypeOK, local, walk
  <1>5. CASE RunTool(c) \/ AcquireLock(c) \/ LoadNodes(c)
    BY <1>2, <1>5 DEF RunTool, AcquireLock, LoadNodes, Goto, BeforeBuild, TypeOK, local, walk
  <1>6. CASE HandleDuplicate(c) \/ CheckSoftLimit(c) \/ ValidationFails(c) \/ ToolRaises(c)
             \/ LogError(c)
    BY <1>1, <1>6 DEF HandleDuplicate, CheckSoftLimit, ValidationFails, ToolRaises, LogError, Goto,
                      BeforeBuild, InBuild, TypeOK
  <1>7. CASE EmitRaises(c) \/ ReleaseLock(c) \/ LogCall(c) \/ Dispatch(c) \/ StoreFails(c)
    BY <1>1, <1>7 DEF EmitRaises, ReleaseLock, LogCall, Dispatch, StoreFails, Goto,
                      BeforeBuild, InBuild, TypeOK
  <1>8. CASE EmitDropped(c) \/ PutRaw(c)
    BY <1>3, <1>8 DEF EmitDropped, EmitAt, PutRaw, local, walk
  <1>9. CASE LoadEdges(c)
    <2>1. pc[c] \in BeforeBuild /\ pc'[c] = "build" /\ UNCHANGED <<item, payload>>
      BY <1>9 DEF LoadEdges, BeforeBuild, Goto, TypeOK, walk
    <2>2. /\ item'[c] = 0 /\ newFacts'[c] = {}
          /\ payloadNodes'[c] = <<>> /\ payloadEdges'[c] = <<>> /\ linkedFacts'[c] = <<>>
      BY <1>0, <2>1 DEF ClosedAt, payload
    <2>3. Pending(c)' = {}
      BY <2>2, ElemsEmpty DEF Pending
    <2>4. QED
      BY <2>1, <2>2, <2>3, ElemsEmpty DEF ClosedAt, BeforeBuild
  <1>10. CASE AddEventNode(c)
    <2> DEFINE ev == <<c, item[c] + 1>>
    <2>1. /\ pc[c] = "build" /\ pc' = pc
          /\ UNCHANGED <<facts, events, payloadEdges, newFacts, linkedFacts>>
          /\ item'[c] = item[c] + 1
          /\ payloadNodes'[c] = Append(payloadNodes[c], EventNode(ev))
          /\ graph'[c] = AddEvent(graph[c], ev)
      BY <1>10 DEF AddEventNode, TypeOK, store
    <2>2. EventNode(ev) \in Node
      BY DEF EventNode, Node, EventId, TypeOK
    <2>3. payloadNodes[c] \in Seq(Node)
      BY DEF TypeOK
    <2>4. Elems(payloadNodes'[c]) = Elems(payloadNodes[c]) \cup {EventNode(ev)}
      BY <2>1, <2>2, <2>3, ElemsAppend
    <2>5. Pending(c)' = Pending(c) \cup {EventNode(ev)}
      BY <2>1, <2>4 DEF Pending
    <2>6. graph'[c].facts = graph[c].facts
      BY <2>1 DEF AddEvent, TypeOK, Graph
    <2>7. \A f \in Fact : FactNode(f) # EventNode(ev)
      BY DEF FactNode, EventNode
    <2>8. EventNode(<<c, item'[c]>>) \in Elems(payloadNodes'[c])
      BY <2>1, <2>4
    <2>9. pc'[c] \notin BeforeBuild
      BY <2>1 DEF BeforeBuild
    <2> HIDE DEF ev
    <2>10. \A f \in newFacts'[c] : FactNode(f) \in Elems(payloadNodes'[c])
      BY <1>0, <2>1, <2>4 DEF ClosedAt
    <2>11. \A f \in Fact : FactNode(f) \in Pending(c)' => Knows(graph'[c], f)
      BY <1>0, <2>1, <2>5, <2>6, <2>7 DEF ClosedAt, Knows
    <2>12. \A e \in Elems(payloadEdges'[c]) :
              /\ e.event \in events' \/ EventNode(e.event) \in Pending(c)'
              /\ facts'[e.target] # Missing \/ FactNode(e.target) \in Pending(c)'
      BY <1>0, <2>1, <2>5 DEF ClosedAt
    <2>13. QED
      BY <2>8, <2>9, <2>10, <2>11, <2>12 DEF ClosedAt
  <1>11. CASE EmitOne(c)
    <2> DEFINE f == Canonical[Current(c).value]
    <2>1. /\ pc[c] = "build" /\ item[c] > 0 /\ f \in Fact
          /\ \A h \in Fact : Knows(graph'[c], h) <=> Knows(graph[c], h) \/ h = f
          /\ Elems(payloadEdges'[c]) = Elems(payloadEdges[c]) \cup {EdgeTo(c, f)}
          /\ Pending(c)' = Pending(c) \cup {FactNode(f)}
          /\ Elems(payloadNodes[c]) \subseteq Elems(payloadNodes'[c])
          /\ \A h \in newFacts'[c] : FactNode(h) \in Elems(payloadNodes'[c])
      BY <1>0, <1>11, EmitOneEffect
    <2>2. EdgeTo(c, f).event = <<c, item[c]>> /\ EdgeTo(c, f).target = f
      BY DEF EdgeTo
    <2>3. UNCHANGED <<facts, events, pc, item>>
      BY <1>11 DEF EmitOne, EmitAt, store
    <2> HIDE DEF f
    <2>4. pc'[c] = "build" /\ pc'[c] \notin BeforeBuild
      BY <2>1, <2>3 DEF BeforeBuild
    <2>5. EventNode(<<c, item'[c]>>) \in Elems(payloadNodes'[c])
      BY <1>0, <2>1, <2>3 DEF ClosedAt
    <2>6. EventNode(EdgeTo(c, f).event) \in Pending(c)'
      BY <2>2, <2>3, <2>5 DEF Pending
    <2>7. \A h \in Fact : FactNode(h) = FactNode(f) => h = f
      BY DEF FactNode
    <2>8. \A h \in Fact : FactNode(h) \in Pending(c)' => Knows(graph'[c], h)
      BY <1>0, <2>1, <2>7 DEF ClosedAt
    <2>9. ASSUME NEW e \in Elems(payloadEdges'[c])
          PROVE  /\ e.event \in events' \/ EventNode(e.event) \in Pending(c)'
                 /\ facts'[e.target] # Missing \/ FactNode(e.target) \in Pending(c)'
      <3>1. CASE e = EdgeTo(c, f)
        BY <2>1, <2>2, <2>6, <3>1
      <3>2. CASE e \in Elems(payloadEdges[c])
        BY <1>0, <2>1, <2>3, <3>2 DEF ClosedAt
      <3>3. QED
        BY <2>1, <3>1, <3>2
    <2>10. QED
      BY <2>1, <2>4, <2>5, <2>8, <2>9 DEF ClosedAt
  <1>12. CASE FinishBuild(c)
    <2>1. /\ pc[c] = "build" /\ pc'[c] = "persist"
          /\ payloadNodes'[c] = payloadNodes[c] \o linkedFacts[c]
          /\ payloadNodes[c] \in Seq(Node) /\ linkedFacts[c] \in Seq(Node)
          /\ UNCHANGED <<facts, events, graph, payloadEdges>>
      BY <1>12 DEF FinishBuild, Goto, TypeOK, store
    <2>2. Pending(c)' = Pending(c)
      BY <2>1, ElemsConcat DEF Pending
    <2>3. QED
      BY <1>0, <2>1, <2>2 DEF ClosedAt, BeforeBuild
  <1>13. CASE PutNode(c)
    <2> DEFINE n == Head(payloadNodes[c])
    <2>1. /\ pc[c] = "persist" /\ pc' = pc /\ payloadNodes[c] # <<>>
          /\ payloadNodes[c] \in Seq(Node)
          /\ payloadNodes'[c] = Tail(payloadNodes[c])
          /\ Put(n, c)
          /\ UNCHANGED <<graph, payloadEdges>>
      BY <1>13 DEF PutNode, TypeOK
    <2>2. n \in Node /\ Elems(payloadNodes[c]) = Elems(payloadNodes'[c]) \cup {n}
      BY <2>1, ElemsTail
    <2>3. Pending(c) = Pending(c)' \cup {n}
      BY <2>1, <2>2 DEF Pending
    <2> HIDE DEF n
    <2>4. \A h \in Fact : FactNode(h) \in Pending(c) => Knows(graph[c], h)
      BY <1>0, <2>1 DEF ClosedAt
    <2>5. \A ev : n = EventNode(ev) => ev \in events'
      BY <2>1 DEF EventNode, Put
    <2>6. \A h \in Fact : n = FactNode(h) => facts'[h] # Missing
      BY <2>1, <2>3, <2>4 DEF FactNode, Put, Knows, TypeOK
    <2>7. Elems(payloadEdges[c]) \subseteq Edge
      BY DEF TypeOK, Elems
    <2>8. ASSUME NEW e \in Elems(payloadEdges[c])
          PROVE  /\ e.event \in events' \/ EventNode(e.event) \in Pending(c)'
                 /\ facts'[e.target] # Missing \/ FactNode(e.target) \in Pending(c)'
      <3>1. /\ e.event \in events \/ EventNode(e.event) \in Pending(c)
            /\ facts[e.target] # Missing \/ FactNode(e.target) \in Pending(c)
            /\ e.target \in Fact
        BY <1>0, <2>1, <2>7, <2>8 DEF ClosedAt, Edge
      <3>2. QED
        BY <2>3, <2>5, <2>6, <3>1 DEF NodesStay
    <2>9. pc'[c] = "persist" /\ payloadEdges' = payloadEdges /\ graph' = graph
      BY <2>1
    <2>10. QED
      BY <2>3, <2>4, <2>8, <2>9 DEF ClosedAt, BeforeBuild
  <1>14. CASE PutEdge(c)
    <2>1. /\ pc[c] = "persist" /\ payloadEdges[c] # <<>> /\ payloadEdges[c] \in Seq(Edge)
          /\ payloadEdges'[c] = Tail(payloadEdges[c])
          /\ UNCHANGED <<facts, events, pc, graph, payloadNodes, linkedFacts>>
      BY <1>14 DEF PutEdge, TypeOK
    <2>2. Elems(payloadEdges'[c]) \subseteq Elems(payloadEdges[c])
      BY <2>1, ElemsTail
    <2>3. Pending(c)' = Pending(c)
      BY <2>1 DEF Pending
    <2>4. QED
      BY <1>0, <2>1, <2>2, <2>3 DEF ClosedAt, BeforeBuild
  <1>15. QED
    BY <1>4, <1>5, <1>6, <1>7, <1>8, <1>9, <1>10, <1>11, <1>12, <1>13, <1>14
       DEF CallStep, ActorStep

\* Each step of the system keeps every payload closed.
LEMMA ClosedStep ==
    ASSUME TypeOK, PositionOK, PayloadClosed, [Next]_vars
    PROVE  PayloadClosed'
  <1>1. NodesStay
    BY NodesStayStep
  <1> SUFFICES ASSUME NEW d \in Call PROVE ClosedAt(d)'
    BY DEF PayloadClosed
  <1>2. ClosedAt(d) /\ d \in Actor
    BY DEF PayloadClosed, Actor
  <1>3. ASSUME NEW a \in Actor, (a \in Call /\ CallStep(a)) \/ ActorStep(a) \/ ReadDone(a),
               d # a
        PROVE  ClosedAt(d)'
    BY <1>1, <1>2, <1>3, OthersUntouched, Frame DEF Untouched
  <1>4. CASE CallStep(d) \/ ActorStep(d)
    BY <1>1, <1>4, OwnStep
  <1>5. ASSUME NEW p \in Proc, Crash(p) PROVE ClosedAt(d)'
    <2>1. pc'[d] = "crashed" \/ pc'[d] = pc[d]
      BY <1>2, <1>5 DEF Crash
    <2>2. CASE pc'[d] = "crashed"
      BY <2>2 DEF ClosedAt, BeforeBuild
    <2>3. CASE pc'[d] = pc[d]
      BY <1>1, <1>2, <1>5, <2>3, Frame DEF Crash, PayloadUntouched, local, walk, payload
    <2>4. QED
      BY <2>1, <2>2, <2>3
  <1>6. CASE UNCHANGED vars
    BY <1>1, <1>2, <1>6, Frame DEF PayloadUntouched, vars, local, walk, payload
  <1>7. Call \subseteq Actor /\ Reader \subseteq Actor /\ d \notin Reader
    BY IngestAssumption DEF Actor
  <1>8. QED
    BY <1>3, <1>4, <1>5, <1>6, <1>7 DEF Next, Idle

\* EdgeEndpointsStored, edge by edge.
LEMMA EndpointsOfEdges ==
    EdgeEndpointsStored <=> \A e \in edges : e.event \in events /\ facts[e.target] # Missing
  BY DEF EdgeEndpointsStored, Closed, GhostFacts, GhostEvents, StoredGraph, FromSnapshot, Knows

\* An edge is put when its call has put all its nodes.
LEMMA EndpointsStep ==
    ASSUME TypeOK, PayloadClosed, EdgeEndpointsStored, [Next]_vars
    PROVE  EdgeEndpointsStored'
  <1>1. NodesStay
    BY NodesStayStep
  <1>2. \A e \in edges : e.event \in events' /\ facts'[e.target] # Missing
    <2>1. \A e \in edges : e.target \in Fact
      BY DEF TypeOK, Edge
    <2>2. QED
      BY <1>1, <2>1, EndpointsOfEdges DEF NodesStay
  <1>3. ASSUME NEW c \in Call, PutEdge(c)
        PROVE  \A e \in edges' : e.event \in events' /\ facts'[e.target] # Missing
    <2> DEFINE h == Head(payloadEdges[c])
    <2>1. /\ pc[c] = "persist" /\ payloadNodes[c] = <<>>
          /\ payloadEdges[c] # <<>> /\ payloadEdges[c] \in Seq(Edge)
          /\ edges' \subseteq edges \cup {h}
          /\ events' = events /\ facts' = facts
      BY <1>3 DEF PutEdge, NodesWritten, TypeOK
    <2>2. h \in Elems(payloadEdges[c])
      BY <2>1, ElemsTail
    <2>3. Pending(c) = {}
      BY <2>1, ElemsEmpty DEF Pending
    <2>4. h.event \in events /\ facts[h.target] # Missing
      BY <2>1, <2>2, <2>3 DEF PayloadClosed, ClosedAt
    <2> HIDE DEF h
    <2>5. QED
      BY <1>2, <2>1, <2>4
  <1>4. ASSUME NEW c \in Call, CallStep(c), ~PutEdge(c) PROVE edges' = edges
    BY <1>4 DEF CallStep, FindDuplicate, HandleDuplicate, CheckSoftLimit, RunTool, ValidationFails,
                ToolRaises, LogError, AddEventNode, EmitDropped, EmitOne, EmitRaises,
                FinishBuild, PutNode, ReleaseLock, PutRaw, LogCall, Dispatch, store
  <1>5. ASSUME NEW a \in Actor, ActorStep(a) PROVE edges' = edges
    BY <1>5 DEF ActorStep, AcquireLock, LoadNodes, LoadEdges, StoreFails, store
  <1>6. CASE \/ \E r \in Reader : ReadDone(r)
             \/ \E p \in Proc : Crash(p)
             \/ UNCHANGED vars
    <2>1. edges' = edges
      BY <1>6 DEF ReadDone, Crash, vars, store
    <2>2. QED
      BY <1>2, <2>1, EndpointsOfEdges DEF EdgeEndpointsStored, Closed, GhostFacts, GhostEvents,
                                          StoredGraph, FromSnapshot, Knows
  <1>7. ASSUME \A e \in edges' : e.event \in events' /\ facts'[e.target] # Missing
        PROVE  EdgeEndpointsStored'
    BY <1>7 DEF EdgeEndpointsStored, Closed, GhostFacts, GhostEvents, StoredGraph, FromSnapshot,
                Knows
  <1>8. QED
    BY <1>2, <1>3, <1>4, <1>5, <1>6, <1>7 DEF Next, Idle

\* Initially nothing is stored and no payload exists.
LEMMA ClosedInvInit == Init => ClosedInv
  <1> SUFFICES ASSUME Init PROVE ClosedInv
    OBVIOUS
  <1>1. PayloadClosed
    BY DEF Init, PayloadClosed, ClosedAt, BeforeBuild, Actor
  <1>2. EdgeEndpointsStored
    BY EndpointsOfEdges DEF Init
  <1>3. TypeOK /\ PositionOK
    BY InitType
  <1>4. QED
    BY <1>1, <1>2, <1>3 DEF ClosedInv

\* In every reachable state, what the walk reads, what a call still has to put
\* and what is stored fit together.
THEOREM ClosedInvHolds == Spec => []ClosedInv
  <1>1. Init => ClosedInv
    BY ClosedInvInit
  <1>2. ClosedInv /\ [Next]_vars => ClosedInv'
    BY TypeStep, PositionStep, ClosedStep, EndpointsStep DEF ClosedInv
  <1>3. QED
    BY <1>1, <1>2, PTL DEF Spec

\* Whatever calls of whatever workers are interleaved, fail or crash at
\* whatever put, no stored edge names an event or a fact that is not stored.
THEOREM EndpointsSafe == Spec => []EdgeEndpointsStored
  <1>1. ClosedInv => EdgeEndpointsStored
    BY DEF ClosedInv
  <1>2. QED
    BY <1>1, ClosedInvHolds, PTL

------------------------------------------------------------------------------
(* What a result says, and how far a walk has come in it.                   *)

\* The edges of a result are those its occurrences make.
LEMMA EdgesOfCall ==
    ASSUME NEW c \in Call
    PROVE  /\ \A i \in DOMAIN ret[c] : \A j \in DOMAIN ret[c][i] :
                  Canonical[ret[c][i][j].value] \in Fact => EdgeMade(c, i, j) \in EdgesOf(c, ret[c])
           /\ \A e \in EdgesOf(c, ret[c]) :
                  \E i \in DOMAIN ret[c] : \E j \in DOMAIN ret[c][i] :
                      Canonical[ret[c][i][j].value] \in Fact /\ e = EdgeMade(c, i, j)
  <1>1. ASSUME NEW i \in DOMAIN ret[c]
        PROVE  EdgesSaid(<<c, i>>, ret[c][i])
                   = {EdgeMade(c, i, j) : j \in {k \in DOMAIN ret[c][i] :
                                                Canonical[ret[c][i][k].value] \in Fact}}
    BY DEF EdgesSaid, Elems, EdgeMade
  <1>2. \A e : e \in EdgesOf(c, ret[c])
                    <=> \E i \in DOMAIN ret[c] : e \in EdgesSaid(<<c, i>>, ret[c][i])
    BY DEF EdgesOf
  <1>3. ASSUME NEW i \in DOMAIN ret[c], NEW e
        PROVE  e \in EdgesSaid(<<c, i>>, ret[c][i])
                   <=> \E j \in DOMAIN ret[c][i] :
                           Canonical[ret[c][i][j].value] \in Fact /\ e = EdgeMade(c, i, j)
    BY <1>1
  <1>4. ASSUME NEW i \in DOMAIN ret[c], NEW j \in DOMAIN ret[c][i],
               Canonical[ret[c][i][j].value] \in Fact
        PROVE  EdgeMade(c, i, j) \in EdgesOf(c, ret[c])
    <2>1. EdgeMade(c, i, j) \in EdgesSaid(<<c, i>>, ret[c][i])
      BY <1>3, <1>4
    <2>2. QED
      BY <1>2, <2>1
  <1>5. ASSUME NEW e \in EdgesOf(c, ret[c])
        PROVE  \E i \in DOMAIN ret[c] : \E j \in DOMAIN ret[c][i] :
                   Canonical[ret[c][i][j].value] \in Fact /\ e = EdgeMade(c, i, j)
    <2>1. PICK i \in DOMAIN ret[c] : e \in EdgesSaid(<<c, i>>, ret[c][i])
      BY <1>2
    <2>2. QED
      BY <1>3, <2>1
  <1>6. QED
    BY <1>4, <1>5

\* They are the call's own.
LEMMA EdgesOfOwner ==
    ASSUME NEW c \in Call, NEW e \in EdgesOf(c, ret[c])
    PROVE  e.event[1] = c /\ e.target \in Fact
  BY EdgesOfCall DEF EdgeMade

\* When the walk is over it has made them all.
LEMMA WalkMadeAll ==
    ASSUME TypeOK, NEW c \in Call, WalkOver(c),
           NEW e \in EdgesOf(c, ret[c])
    PROVE  \E i \in DOMAIN ret[c] : \E j \in DOMAIN ret[c][i] :
               Made(c, i, j) /\ e = EdgeMade(c, i, j)
  <1>0. PICK i \in DOMAIN ret[c] : \E j \in DOMAIN ret[c][i] :
            Canonical[ret[c][i][j].value] \in Fact /\ e = EdgeMade(c, i, j)
    BY EdgesOfCall
  <1>1. PICK j \in DOMAIN ret[c][i] :
            Canonical[ret[c][i][j].value] \in Fact /\ e = EdgeMade(c, i, j)
    BY <1>0
  <1>2. ret[c] \in Seq(Seq(Occurrence)) /\ item[c] = Len(ret[c]) /\ item[c] \in Nat
    BY DEF TypeOK, WalkOver
  <1>3. i \in 1 .. item[c] /\ ret[c][i] \in Seq(Occurrence)
    BY <1>2
  <1>4. i = item[c] => j <= occ[c]
    BY <1>2, <1>3 DEF WalkOver, ItemDone
  <1>5. Made(c, i, j)
    BY <1>1, <1>2, <1>3, <1>4 DEF Made
  <1>6. QED
    BY <1>1, <1>5

\* When the walk is over, all the result says is in the call's graph.
LEMMA WalkedHolds ==
    ASSUME TypeOK, NEW c \in Call, FollowsWalk(c), WalkOver(c)
    PROVE  HoldsAll(graph[c], c, ret[c])
  <1>1. \A ev \in EventsOf(c, ret[c]) : ev \in graph[c].events
    <2>1. item[c] = Len(ret[c]) /\ DOMAIN ret[c] = 1 .. Len(ret[c])
      BY DEF WalkOver, TypeOK
    <2>2. QED
      BY <2>1 DEF EventsOf, FollowsWalk
  <1>2. \A e \in EdgesOf(c, ret[c]) : e \in graph[c].edges /\ Knows(graph[c], e.target)
    BY WalkMadeAll DEF FollowsWalk
  <1>3. QED
    BY <1>1, <1>2 DEF HoldsAll

\* When all is put besides, it is stored.
LEMMA CommittedHolds ==
    ASSUME TypeOK, NEW c \in Call, FollowsWalk(c), WalkOver(c),
           payloadNodes[c] = <<>>, payloadEdges[c] = <<>>, pc[c] # "build"
    PROVE  /\ HoldsAll(StoredGraph, c, ret[c])
           /\ HoldsAll(graph[c], c, ret[c])
  <1>1. Pending(c) = {} /\ Elems(payloadEdges[c]) = {}
    BY ElemsEmpty DEF Pending
  <1>2. /\ \A ev \in graph[c].events : ev \in events
        /\ graph[c].edges \subseteq edges
        /\ \A f \in Fact : Knows(graph[c], f) => facts[f] # Missing
    BY <1>1 DEF FollowsWalk, Covered
  <1>3. HoldsAll(graph[c], c, ret[c])
    BY WalkedHolds
  <1>4. \A e \in EdgesOf(c, ret[c]) : e.target \in Fact
    BY EdgesOfOwner
  <1>5. HoldsAll(StoredGraph, c, ret[c])
    BY <1>2, <1>3, <1>4 DEF HoldsAll, StoredGraph, FromSnapshot, Knows
  <1>6. QED
    BY <1>3, <1>5

------------------------------------------------------------------------------
(* What a step does to the store.                                           *)

\* The store keeps what it has; a call adds to it what it has to put.
StoreGrows ==
    /\ NodesStay
    /\ edges \subseteq edges'
    /\ raws \subseteq raws'

AddedBy(c) ==
    /\ \A ev \in events' \ events : pc[c] = "persist" /\ EventNode(ev) \in Pending(c)
    /\ \A e \in edges' \ edges : pc[c] = "persist" /\ e \in Elems(payloadEdges[c])
    /\ \A ev \in raws' \ raws : pc[c] = "raw" /\ ev[1] = c

\* Putting an edge whose key is taken puts the same edge again.
LEMMA PutEdgeAdds ==
    ASSUME TypeOK, NEW c \in Call, PutEdge(c)
    PROVE  /\ Head(payloadEdges[c]) \in Elems(payloadEdges[c])
           /\ edges' = edges \cup {Head(payloadEdges[c])}
           /\ Elems(payloadEdges[c]) = Elems(payloadEdges'[c]) \cup {Head(payloadEdges[c])}
  <1> DEFINE e == Head(payloadEdges[c])
  <1>1. payloadEdges[c] \in Seq(Edge) /\ payloadEdges[c] # <<>>
        /\ payloadEdges'[c] = Tail(payloadEdges[c])
    BY DEF PutEdge, TypeOK
  <1>2. e \in Edge /\ Elems(payloadEdges[c]) = Elems(payloadEdges'[c]) \cup {e}
    BY <1>1, ElemsTail
  <1>3. edges' = {x \in edges : EdgeKey(x) # EdgeKey(e)} \cup {e}
    BY DEF PutEdge
  <1> HIDE DEF e
  <1>4. ASSUME NEW x \in edges, EdgeKey(x) = EdgeKey(e) PROVE x = e
    <2>1. x \in Edge
      BY DEF TypeOK
    <2>2. x.event = e.event /\ x.type = e.type /\ x.target = e.target
      BY <1>4 DEF EdgeKey
    <2>3. QED
      BY <1>2, <2>1, <2>2 DEF Edge
  <1>5. edges' = edges \cup {e}
    BY <1>3, <1>4
  <1>6. QED
    BY <1>2, <1>5 DEF e

\* Whatever a call does, the store only grows, by what the call had to put.
LEMMA CallAdds ==
    ASSUME TypeOK, PayloadClosed, NEW c \in Call, CallStep(c)
    PROVE  StoreGrows /\ AddedBy(c)
  <1>0. NodesStay
    BY NodesStayStep DEF Next
  <1>1. CASE PutNode(c)
    <2> DEFINE n == Head(payloadNodes[c])
    <2>1. /\ pc[c] = "persist" /\ payloadNodes[c] # <<>> /\ payloadNodes[c] \in Seq(Node)
          /\ UNCHANGED <<edges, raws>> /\ Put(n, c)
      BY <1>1 DEF PutNode, TypeOK
    <2>2. n \in Node /\ n \in Pending(c)
      BY <2>1, ElemsTail DEF Pending
    <2> HIDE DEF n
    <2>3. \A ev \in events' \ events : n = EventNode(ev)
      BY <2>1, <2>2 DEF Put, Node, EventNode
    <2>4. QED
      BY <1>0, <2>1, <2>2, <2>3 DEF StoreGrows, AddedBy
  <1>2. CASE PutEdge(c)
    <2>1. pc[c] = "persist" /\ UNCHANGED <<events, raws>>
      BY <1>2 DEF PutEdge
    <2>2. QED
      BY <1>0, <1>2, <2>1, PutEdgeAdds DEF StoreGrows, AddedBy
  <1>3. CASE PutRaw(c)
    BY <1>0, <1>3 DEF PutRaw, StoreGrows, AddedBy
  <1>4. CASE ~PutNode(c) /\ ~PutEdge(c) /\ ~PutRaw(c)
    <2>1. UNCHANGED <<events, edges, raws>>
      BY <1>4 DEF CallStep, FindDuplicate, HandleDuplicate, CheckSoftLimit, RunTool,
                  ValidationFails, ToolRaises, LogError, AddEventNode, EmitDropped, EmitOne,
                  EmitRaises, FinishBuild, ReleaseLock, LogCall, Dispatch, store
    <2>2. QED
      BY <1>0, <2>1 DEF StoreGrows, AddedBy
  <1>5. QED
    BY <1>1, <1>2, <1>3, <1>4

\* All other steps leave the store, and the records, as they are.
OtherStep ==
    \/ \E a \in Actor : ActorStep(a)
    \/ \E r \in Reader : ReadDone(r)
    \/ \E p \in Proc : Crash(p)
    \/ UNCHANGED vars

LEMMA OthersAddNothing ==
    ASSUME OtherStep
    PROVE  UNCHANGED <<store, ret>>
  BY DEF OtherStep, ActorStep, AcquireLock, LoadNodes, LoadEdges, StoreFails, ReadDone, Crash,
         vars, local, walk

LEMMA StepCases == [Next]_vars <=> OtherStep \/ \E c \in Call : CallStep(c)
  BY DEF Next, OtherStep, Idle

\* Every step lets the store grow.
LEMMA StoreGrowsStep ==
    ASSUME TypeOK, PayloadClosed, [Next]_vars
    PROVE  StoreGrows
  BY CallAdds, OthersAddNothing, StepCases DEF StoreGrows, NodesStay, store

------------------------------------------------------------------------------
(* A call's graph and payload follow its walk.                              *)

\* A step that leaves a call's graph and its place in the result alone, and
\* takes nothing off its payload but what it puts.
LEMMA FollowsOn ==
    ASSUME TypeOK, NEW c \in Call, FollowsWalk(c), StoreGrows,
           ret'[c] = ret[c], item'[c] = item[c], graph'[c] = graph[c],
           \A i \in DOMAIN ret[c] : \A j \in DOMAIN ret[c][i] : Made(c, i, j)' => Made(c, i, j),
           Pending(c)' \subseteq Pending(c),
           \A n \in Pending(c) : \/ n \in Pending(c)'
                                 \/ \E ev \in events' : n = EventNode(ev)
                                 \/ \E f \in Fact : n = FactNode(f) /\ facts'[f] # Missing,
           Elems(payloadEdges'[c]) \subseteq Elems(payloadEdges[c]),
           Elems(payloadEdges[c]) \subseteq Elems(payloadEdges'[c]) \cup edges'
    PROVE  FollowsWalk(c)'
  <1>1. \A ev : EventNode(ev) \in Pending(c) =>
            ev \in events' \/ EventNode(ev) \in Pending(c)'
    BY DEF EventNode, FactNode
  <1>2. \A f \in Fact : FactNode(f) \in Pending(c) =>
            facts'[f] # Missing \/ FactNode(f) \in Pending(c)'
    BY DEF EventNode, FactNode
  <1>3. Covered(graph[c], c)'
    <2>1. Covered(graph[c], c)
      BY DEF FollowsWalk
    <2>2. \A ev \in graph[c].events : ev \in events' \/ EventNode(ev) \in Pending(c)'
      BY <1>1, <2>1 DEF Covered, StoreGrows, NodesStay
    <2>3. graph[c].edges \subseteq edges' \cup Elems(payloadEdges'[c])
      BY <2>1 DEF Covered, StoreGrows
    <2>4. \A f \in Fact : Knows(graph[c], f) =>
              facts'[f] # Missing \/ FactNode(f) \in Pending(c)'
      BY <1>2, <2>1 DEF Covered, StoreGrows, NodesStay
    <2>5. QED
      BY <2>2, <2>3, <2>4 DEF Covered, Knows
  <1>4. \A i \in DOMAIN ret[c] : \A j \in DOMAIN ret[c][i] : EdgeMade(c, i, j)' = EdgeMade(c, i, j)
    BY DEF EdgeMade
  <1>5. \A i \in DOMAIN ret[c] : \A j \in DOMAIN ret[c][i] : Made(c, i, j)' =>
            EdgeMade(c, i, j)' \in graph[c].edges /\ Knows(graph[c], EdgeMade(c, i, j)'.target)
    BY <1>4 DEF FollowsWalk
  <1>6. QED
    BY <1>3, <1>5 DEF FollowsWalk, Knows

\* Another's step.
LEMMA DeltaFrame ==
    ASSUME TypeOK, NEW c \in Call, DeltaAt(c), StoreGrows, Untouched(c)
    PROVE  DeltaAt(c)'
  <1>1. Pending(c)' = Pending(c)
    BY DEF Pending, Untouched, PayloadUntouched
  <1>2. \A i, j : Made(c, i, j)' <=> Made(c, i, j)
    BY DEF Made, Untouched, PayloadUntouched
  <1>3. FollowsWalk(c) => FollowsWalk(c)'
    BY <1>1, <1>2, FollowsOn DEF Untouched, PayloadUntouched
  <1>4. WalkOver(c)' <=> WalkOver(c)
    BY DEF WalkOver, ItemDone, Untouched, PayloadUntouched
  <1>5. QED
    BY <1>3, <1>4 DEF DeltaAt, Committed, Untouched, PayloadUntouched

\* Loading the nodes.
LEMMA LoadNodesFollows ==
    ASSUME TypeOK, PositionOK, NEW c \in Call, ClosedAt(c), LoadNodes(c)
    PROVE  FollowsWalk(c)'
  <1> c \in Actor
    BY DEF Actor
  <1>1. /\ pc[c] = "loadNodes" /\ pc'[c] = "loadEdges"
        /\ item'[c] = 0 /\ payloadNodes'[c] = <<>> /\ payloadEdges'[c] = <<>>
        /\ UNCHANGED <<facts, events, edges, ret>>
    BY DEF LoadNodes, Goto, TypeOK, ClosedAt, BeforeBuild, store, walk, payload
  <1>2. PICK found : graph'[c] =
            FromSnapshot([f \in Fact |-> IF FactNode(f) \in found THEN facts[f] ELSE Missing],
                         {ev \in events : EventNode(ev) \in found}, {})
    BY DEF LoadNodes, TypeOK
  <1>3. /\ graph'[c].events \subseteq events /\ graph'[c].edges = {}
        /\ \A f \in Fact : Knows(graph'[c], f) => facts[f] # Missing
    BY <1>2 DEF FromSnapshot, Knows
  <1>4. Pending(c)' = {} /\ Elems(payloadEdges'[c]) = {}
    BY <1>1, ElemsEmpty DEF Pending
  <1>5. \A i \in DOMAIN ret[c] : \A j \in DOMAIN ret[c][i] : ~Made(c, i, j)'
    <2>1. DOMAIN ret[c] \subseteq Nat \ {0}
      BY DEF TypeOK
    <2>2. QED
      BY <1>1, <2>1 DEF Made
  <1>6. Covered(graph[c], c)'
    BY <1>1, <1>3 DEF Covered, Knows
  <1>7. QED
    BY <1>1, <1>3, <1>4, <1>5, <1>6 DEF FollowsWalk

\* Loading the edges: none is the call's own yet.
LEMMA LoadEdgesFollows ==
    ASSUME TypeOK, PositionOK, NEW c \in Call, ClosedAt(c), FollowsWalk(c), StoredAt(c),
           LoadEdges(c)
    PROVE  FollowsWalk(c)'
  <1> c \in Actor
    BY DEF Actor
  <1>1. /\ pc[c] = "loadEdges" /\ pc'[c] = "build"
        /\ item[c] = 0 /\ payloadNodes[c] = <<>> /\ payloadEdges[c] = <<>> /\ linkedFacts[c] = <<>>
        /\ UNCHANGED <<facts, events, edges, walk, payload>>
    BY DEF LoadEdges, Goto, TypeOK, ClosedAt, BeforeBuild, store
  <1>2. PICK found \in Searched(edges) : graph'[c] = [graph[c] EXCEPT !.edges = found]
    BY DEF LoadEdges, TypeOK
  <1>3. found \subseteq edges
    BY <1>2, SearchedType
  <1>4. /\ graph'[c].events = graph[c].events /\ graph'[c].facts = graph[c].facts
        /\ graph'[c].edges = found
    BY <1>2 DEF TypeOK, Graph
  <1>5. Pending(c)' = {} /\ Pending(c) = {} /\ Elems(payloadEdges'[c]) = {}
    BY <1>1, ElemsEmpty DEF Pending, payload
  <1>6. \A i \in DOMAIN ret[c] : \A j \in DOMAIN ret[c][i] : ~Made(c, i, j)'
    <2>1. DOMAIN ret[c] \subseteq Nat \ {0}
      BY DEF TypeOK
    <2>2. QED
      BY <1>1, <2>1 DEF Made, walk
  <1>7. \A e \in edges : e.event[1] # c
    BY <1>1 DEF StoredAt, MayHaveStored
  <1>8. Covered(graph[c], c)'
    <2>1. Covered(graph[c], c)
      BY DEF FollowsWalk
    <2>2. QED
      BY <1>1, <1>3, <1>4, <1>5, <2>1 DEF Covered, Knows
  <1>9. QED
    BY <1>1, <1>3, <1>4, <1>5, <1>6, <1>7, <1>8 DEF FollowsWalk, walk

\* The next item: its event is in the graph, and will be put.
LEMMA AddEventFollows ==
    ASSUME TypeOK, PositionOK, NEW c \in Call, FollowsWalk(c), AddEventNode(c)
    PROVE  FollowsWalk(c)'
  <1> c \in Actor
    BY DEF Actor
  <1> DEFINE ev == <<c, item[c] + 1>>
  <1>1. /\ pc[c] = "build" /\ ItemDone(c) /\ item[c] + 1 <= Len(ret[c])
        /\ item'[c] = item[c] + 1 /\ occ'[c] = 0
        /\ payloadNodes'[c] = Append(payloadNodes[c], EventNode(ev))
        /\ graph'[c] = AddEvent(graph[c], ev)
        /\ UNCHANGED <<facts, events, edges, pc, ret, payloadEdges, linkedFacts>>
    BY DEF AddEventNode, HasItem, TypeOK, store
  <1>2. item[c] \in Nat /\ ret[c] \in Seq(Seq(Occurrence)) /\ payloadNodes[c] \in Seq(Node)
    BY DEF TypeOK
  <1>3. EventNode(ev) \in Node
    BY <1>2 DEF EventNode, Node, EventId
  <1>4. Pending(c)' = Pending(c) \cup {EventNode(ev)}
    <2>1. Elems(payloadNodes'[c]) = Elems(payloadNodes[c]) \cup {EventNode(ev)}
      BY <1>1, <1>2, <1>3, ElemsAppend
    <2>2. QED
      BY <1>1, <2>1 DEF Pending
  <1>5. /\ graph'[c].events = graph[c].events \cup {ev}
        /\ graph'[c].edges = graph[c].edges /\ graph'[c].facts = graph[c].facts
    BY <1>1 DEF AddEvent, TypeOK, Graph
  <1>6. ev \in EventsOf(c, ret[c])
    BY <1>1, <1>2 DEF EventsOf
  <1>7. \A i \in 1 .. item'[c] : i \in 1 .. item[c] \/ <<c, i>> = ev
    <2>1. \A i \in 1 .. item[c] + 1 : i \in 1 .. item[c] \/ i = item[c] + 1
      BY <1>2
    <2>2. item'[c] = item[c] + 1
      BY <1>1
    <2>3. QED
      BY <2>1, <2>2
  \* What the last item makes is made.
  <1>8. ASSUME NEW i \in DOMAIN ret[c], NEW j \in DOMAIN ret[c][i], Made(c, i, j)'
        PROVE  Made(c, i, j)
    <2>1. i \in Nat \ {0} /\ ret[c][i] \in Seq(Occurrence) /\ j \in 1 .. Len(ret[c][i])
      BY <1>2
    <2>2. Canonical[ret[c][i][j].value] \in Fact /\ i <= item[c]
      BY <1>1, <1>2, <1>8, <2>1 DEF Made
    <2>3. i = item[c] => j <= occ[c]
      BY <1>1, <2>1 DEF ItemDone
    <2>4. QED
      BY <1>2, <2>1, <2>2, <2>3 DEF Made
  <1>9. EventNode(ev).id = ev
    BY DEF EventNode
  <1> HIDE DEF ev
  <1>10. Covered(graph[c], c)'
    <2>1. Covered(graph[c], c)
      BY DEF FollowsWalk
    <2>2. QED
      BY <1>1, <1>4, <1>5, <2>1 DEF Covered, Knows
  <1>11. \A i \in DOMAIN ret[c] : \A j \in DOMAIN ret[c][i] : EdgeMade(c, i, j)' = EdgeMade(c, i, j)
    BY <1>1 DEF EdgeMade
  <1>12. \A i \in DOMAIN ret[c] : \A j \in DOMAIN ret[c][i] : Made(c, i, j)' =>
             EdgeMade(c, i, j)' \in graph'[c].edges /\ Knows(graph'[c], EdgeMade(c, i, j)'.target)
    BY <1>5, <1>8, <1>11 DEF FollowsWalk, Knows
  <1>13. \A i \in 1 .. item'[c] : <<c, i>> \in graph'[c].events
    BY <1>5, <1>7 DEF FollowsWalk
  <1>14. \A n \in Pending(c)' : n.kind = "event" => n.id \in EventsOf(c, ret[c])
    BY <1>4, <1>6, <1>9 DEF FollowsWalk
  <1>15. QED
    BY <1>1, <1>5, <1>10, <1>12, <1>13, <1>14 DEF FollowsWalk

\* The next occurrence: its edge is one the result says.
LEMMA EmitOneFollows ==
    ASSUME TypeOK, PositionOK, NEW c \in Call, ClosedAt(c), FollowsWalk(c), EmitOne(c)
    PROVE  FollowsWalk(c)'
  <1> DEFINE f == Canonical[Current(c).value]
             e == EdgeTo(c, f)
  <1>1. /\ f \in Fact
        /\ \A h \in Fact : Knows(graph'[c], h) <=> Knows(graph[c], h) \/ h = f
        /\ graph'[c].events = graph[c].events
        /\ graph'[c].edges = graph[c].edges \cup {e}
        /\ Elems(payloadEdges'[c]) = Elems(payloadEdges[c]) \cup {e}
        /\ Pending(c)' = Pending(c) \cup {FactNode(f)}
    BY EmitOneEffect
  <1>2. /\ EmitAt(c) /\ occ'[c] = occ[c] + 1
        /\ UNCHANGED <<facts, events, edges, pc, ret, item>>
    BY DEF EmitOne, EmitAt, TypeOK, store
  <1>3. /\ item[c] \in DOMAIN ret[c] /\ occ[c] + 1 \in DOMAIN ret[c][item[c]]
        /\ Current(c) = ret[c][item[c]][occ[c] + 1]
    BY <1>2, CurrentType DEF Current
  <1>4. e = EdgeMade(c, item[c], occ[c] + 1) /\ e.target = f /\ e.event[1] = c
    BY <1>3 DEF EdgeMade, EdgeTo
  <1>5. e \in EdgesOf(c, ret[c])
    <2>1. Canonical[ret[c][item[c]][occ[c] + 1].value] \in Fact
      BY <1>1, <1>3
    <2> HIDE DEF e
    <2>2. QED
      BY <1>3, <1>4, <2>1, EdgesOfCall
  <1>6. FactNode(f).kind # "event" /\ item[c] \in Nat /\ occ[c] \in Nat
    BY DEF FactNode, TypeOK
  <1> HIDE DEF e, f
  <1>7. ASSUME NEW i \in DOMAIN ret[c], NEW j \in DOMAIN ret[c][i], Made(c, i, j)'
        PROVE  Made(c, i, j) \/ (i = item[c] /\ j = occ[c] + 1)
    <2>1. i \in Nat /\ j \in Nat
      <3>1. ret[c] \in Seq(Seq(Occurrence))
        BY DEF TypeOK
      <3>2. i \in Nat /\ ret[c][i] \in Seq(Occurrence)
        BY <3>1
      <3>3. QED
        BY <3>2
    <2>2. QED
      BY <1>2, <1>6, <1>7, <2>1 DEF Made
  <1>8. \A i \in DOMAIN ret[c] : \A j \in DOMAIN ret[c][i] : EdgeMade(c, i, j)' = EdgeMade(c, i, j)
    BY <1>2 DEF EdgeMade
  <1>9. ASSUME NEW i \in DOMAIN ret[c], NEW j \in DOMAIN ret[c][i], Made(c, i, j)'
        PROVE  EdgeMade(c, i, j) \in graph'[c].edges /\ Knows(graph'[c], EdgeMade(c, i, j).target)
    <2>1. CASE Made(c, i, j)
      <3>1. EdgeMade(c, i, j).target \in Fact
        BY <2>1 DEF Made, EdgeMade
      <3>2. QED
        BY <1>1, <2>1, <3>1 DEF FollowsWalk
    <2>2. CASE i = item[c] /\ j = occ[c] + 1
      BY <1>1, <1>4, <2>2
    <2>3. QED
      BY <1>7, <1>9, <2>1, <2>2
  <1>10. Covered(graph[c], c)'
    <2>1. Covered(graph[c], c)
      BY DEF FollowsWalk
    <2>2. QED
      BY <1>1, <1>2, <2>1 DEF Covered
  <1>11. QED
    BY <1>1, <1>2, <1>4, <1>5, <1>6, <1>8, <1>9, <1>10 DEF FollowsWalk

\* A call's own step.
LEMMA DeltaOwn ==
    ASSUME TypeOK, PositionOK, PayloadClosed, NEW c \in Call, DeltaAt(c), StoredAt(c),
           StoreGrows, CallStep(c) \/ ActorStep(c)
    PROVE  DeltaAt(c)'
  <1> c \in Actor
    BY DEF Actor
  <1> DEFINE Due == {"loadEdges", "build", "persist", "raw", "dispatch", "done"}
  <1>0. ClosedAt(c)
    BY DEF PayloadClosed
  <1>1. ASSUME pc'[c] \notin Due PROVE DeltaAt(c)'
    BY <1>1 DEF DeltaAt, Committed
  <1>2. ASSUME pc'[c] \in {"loadEdges", "build"}, FollowsWalk(c)' PROVE DeltaAt(c)'
    BY <1>2 DEF DeltaAt, Committed
  <1>3. CASE FindDuplicate(c) \/ HandleDuplicate(c) \/ CheckSoftLimit(c)
    BY <1>1, <1>3 DEF FindDuplicate, HandleDuplicate, CheckSoftLimit, Goto, TypeOK
  <1>4. CASE RunTool(c) \/ ValidationFails(c) \/ ToolRaises(c) \/ LogError(c)
    BY <1>1, <1>4 DEF RunTool, ValidationFails, ToolRaises, LogError, Goto, TypeOK
  <1>5. CASE AcquireLock(c) \/ EmitRaises(c) \/ StoreFails(c)
    BY <1>1, <1>5 DEF AcquireLock, EmitRaises, StoreFails, Goto, TypeOK
  <1>6. CASE LoadNodes(c)
    BY <1>0, <1>2, <1>6, LoadNodesFollows DEF LoadNodes, Goto, TypeOK
  <1>7. CASE LoadEdges(c)
    BY <1>0, <1>2, <1>7, LoadEdgesFollows DEF LoadEdges, Goto, TypeOK, DeltaAt
  <1>8. CASE AddEventNode(c)
    BY <1>2, <1>8, AddEventFollows DEF AddEventNode, DeltaAt
  <1>9. CASE EmitOne(c)
    BY <1>0, <1>2, <1>9, EmitOneFollows DEF EmitOne, EmitAt, DeltaAt
  <1>10. CASE EmitDropped(c)
    <2>1. /\ EmitAt(c) /\ occ'[c] = occ[c] + 1 /\ Canonical[Current(c).value] \notin Fact
          /\ pc[c] = "build"
          /\ UNCHANGED <<store, pc, ret, item, graph, payload>>
      BY <1>10, FactGraphAssumption DEF EmitDropped, EmitAt, TypeOK
    <2>2. Current(c) = ret[c][item[c]][occ[c] + 1] /\ occ[c] \in Nat /\ item[c] \in Nat
      BY DEF Current, TypeOK
    <2>3. ASSUME NEW i \in DOMAIN ret[c], NEW j \in DOMAIN ret[c][i], Made(c, i, j)'
          PROVE  Made(c, i, j)
      <3>1. i \in Nat /\ j \in Nat
        <4>1. ret[c] \in Seq(Seq(Occurrence))
          BY DEF TypeOK
        <4>2. i \in Nat /\ ret[c][i] \in Seq(Occurrence)
          BY <4>1
        <4>3. QED
          BY <4>2
      <3>2. QED
        BY <2>1, <2>2, <2>3, <3>1 DEF Made
    <2>4. Pending(c)' = Pending(c)
      BY <2>1 DEF Pending, payload
    <2>5. FollowsWalk(c) /\ pc'[c] = "build"
      BY <2>1 DEF DeltaAt
    <2>6. FollowsWalk(c)'
      BY <2>1, <2>3, <2>4, <2>5, FollowsOn DEF payload
    <2>7. QED
      BY <1>2, <2>5, <2>6
  <1>11. CASE FinishBuild(c)
    <2>1. /\ pc[c] = "build" /\ pc'[c] = "persist" /\ ItemDone(c) /\ ~HasItem(c, item[c] + 1)
          /\ payloadNodes'[c] = payloadNodes[c] \o linkedFacts[c]
          /\ payloadNodes[c] \in Seq(Node) /\ linkedFacts[c] \in Seq(Node)
          /\ UNCHANGED <<walk, graph, payloadEdges, linkedFacts>>
      BY <1>11 DEF FinishBuild, Goto, TypeOK
    <2>2. Pending(c)' = Pending(c)
      BY <2>1, ElemsConcat DEF Pending
    <2>3. \A i, j : Made(c, i, j)' <=> Made(c, i, j)
      BY <2>1 DEF Made, walk
    <2>4. FollowsWalk(c)'
      BY <2>1, <2>2, <2>3, FollowsOn DEF DeltaAt, walk
    <2>5. item[c] = Len(ret[c])
      <3>1. item[c] \in Nat /\ Len(ret[c]) \in Nat /\ item[c] <= Len(ret[c])
        BY DEF TypeOK, PositionOK
      <3>2. QED
        BY <2>1, <3>1 DEF HasItem
    <2>6. WalkOver(c)'
      BY <2>1, <2>5 DEF WalkOver, ItemDone, walk
    <2>7. QED
      BY <2>1, <2>4, <2>6 DEF DeltaAt, Committed
  <1>12. CASE PutNode(c)
    <2> DEFINE n == Head(payloadNodes[c])
    <2>1. /\ pc[c] = "persist" /\ pc'[c] = pc[c]
          /\ payloadNodes[c] # <<>> /\ payloadNodes[c] \in Seq(Node)
          /\ payloadNodes'[c] = Tail(payloadNodes[c])
          /\ Put(n, c)
          /\ UNCHANGED <<walk, graph, payloadEdges>>
      BY <1>12 DEF PutNode, TypeOK
    <2>2. n \in Node /\ Pending(c) = Pending(c)' \cup {n}
      BY <2>1, ElemsTail DEF Pending
    <2> HIDE DEF n
    <2>3. \/ \E ev \in events' : n = EventNode(ev)
          \/ \E f \in Fact : n = FactNode(f) /\ facts'[f] # Missing
      <3>1. CASE n.kind = "event"
        BY <2>1, <2>2, <3>1 DEF Node, EventNode, Put
      <3>2. CASE n.kind # "event"
        <4>1. n.id \in Fact /\ n = FactNode(n.id)
          BY <2>2, <3>2 DEF Node, FactNode
        <4>2. Knows(graph[c], n.id)
          BY <1>0, <2>1, <2>2, <4>1 DEF ClosedAt
        <4>3. QED
          BY <2>1, <3>2, <4>1, <4>2 DEF Put, Knows, TypeOK
      <3>3. QED
        BY <3>1, <3>2
    <2>4. \A i, j : Made(c, i, j)' <=> Made(c, i, j)
      BY <2>1 DEF Made, walk
    <2>5. FollowsWalk(c)'
      BY <2>1, <2>2, <2>3, <2>4, FollowsOn DEF DeltaAt, walk
    <2>6. QED
      BY <2>1, <2>5 DEF DeltaAt, Committed, WalkOver, ItemDone, walk
  <1>13. CASE PutEdge(c)
    <2>1. /\ pc[c] = "persist" /\ pc'[c] = pc[c]
          /\ UNCHANGED <<walk, graph, payloadNodes, linkedFacts>>
      BY <1>13 DEF PutEdge, TypeOK
    <2>2. Pending(c)' = Pending(c)
      BY <2>1 DEF Pending
    <2>3. \A i, j : Made(c, i, j)' <=> Made(c, i, j)
      BY <2>1 DEF Made, walk
    <2>4. FollowsWalk(c)'
      BY <1>13, <2>1, <2>2, <2>3, FollowsOn, PutEdgeAdds DEF DeltaAt, walk
    <2>5. QED
      BY <2>1, <2>4 DEF DeltaAt, Committed, WalkOver, ItemDone, walk
  <1>14. CASE ReleaseLock(c) \/ PutRaw(c) \/ LogCall(c) \/ Dispatch(c)
    <2>1. UNCHANGED local /\ pc[c] \in {"persist", "raw", "dispatch"}
          /\ pc'[c] \in {"raw", "dispatch", "done"}
      BY <1>14 DEF ReleaseLock, PutRaw, LogCall, Dispatch, Goto, TypeOK
    <2>2. Pending(c)' = Pending(c)
      BY <2>1 DEF Pending, local, payload
    <2>3. \A i, j : Made(c, i, j)' <=> Made(c, i, j)
      BY <2>1 DEF Made, local, walk
    <2>4. FollowsWalk(c)'
      BY <2>1, <2>2, <2>3, FollowsOn DEF DeltaAt, Committed, local, walk, payload
    <2>5. WalkOver(c)'
      BY <2>1 DEF DeltaAt, Committed, WalkOver, ItemDone, local, walk
    <2>6. payloadNodes[c] = <<>> /\ payloadEdges[c] = <<>>
      BY <1>14 DEF ReleaseLock, PutRaw, LogCall, Dispatch, DeltaAt, Committed
    <2>7. QED
      BY <2>1, <2>4, <2>5, <2>6 DEF DeltaAt, local, payload
  <1>15. QED
    BY <1>3, <1>4, <1>5, <1>6, <1>7, <1>8, <1>9, <1>10, <1>11, <1>12, <1>13, <1>14
       DEF CallStep, ActorStep

------------------------------------------------------------------------------
(* Where a call goes.                                                       *)

AfterRecord == {"dispatch", "done", "aborted", "crashed"}
AsDuplicate == {"duplicate", "softLimit", "skipped"}

\* A call never goes back: not before its tool, not to where it had stored
\* nothing; its result does not change once it has one.
Onward(c) ==
    /\ pc'[c] \in {"start", "run"} => pc[c] \in {"start", "run"} /\ ret'[c] = ret[c]
    /\ pc[c] \in MayHaveStored => pc'[c] \in MayHaveStored
    /\ pc[c] \in AfterRecord => pc'[c] \in AfterRecord
    /\ pc[c] = "done" => pc'[c] = "done"
    /\ pc[c] # "run" => ret'[c] = ret[c]
    /\ pc'[c] \in AsDuplicate => pc[c] \in AsDuplicate \/ FindDuplicate(c)

LEMMA OnwardOwn ==
    ASSUME TypeOK, NEW c \in Call, CallStep(c) \/ ActorStep(c)
    PROVE  Onward(c)
  <1> c \in Actor
    BY DEF Actor
  <1> USE DEF Onward, MayHaveStored, AfterRecord, AsDuplicate
  <1>1. CASE FindDuplicate(c) \/ HandleDuplicate(c) \/ CheckSoftLimit(c)
    BY <1>1 DEF FindDuplicate, HandleDuplicate, CheckSoftLimit, Goto, TypeOK, local, walk
  <1>2. CASE RunTool(c) \/ ValidationFails(c) \/ ToolRaises(c) \/ LogError(c)
    BY <1>2 DEF RunTool, ValidationFails, ToolRaises, LogError, Goto, TypeOK, local, walk
  <1>3. CASE AcquireLock(c) \/ LoadNodes(c) \/ LoadEdges(c)
    BY <1>3 DEF AcquireLock, LoadNodes, LoadEdges, Goto, TypeOK, local, walk
  <1>4. CASE AddEventNode(c) \/ EmitDropped(c) \/ EmitOne(c) \/ EmitRaises(c)
    BY <1>4 DEF AddEventNode, EmitDropped, EmitOne, EmitRaises, EmitAt, Goto, TypeOK
  <1>5. CASE FinishBuild(c) \/ PutNode(c) \/ PutEdge(c) \/ ReleaseLock(c)
    BY <1>5 DEF FinishBuild, PutNode, PutEdge, ReleaseLock, Goto, TypeOK, local, walk
  <1>6. CASE PutRaw(c) \/ LogCall(c) \/ Dispatch(c)
    BY <1>6 DEF PutRaw, LogCall, Dispatch, Goto, TypeOK, local, walk
  <1>7. CASE StoreFails(c)
    BY <1>7 DEF StoreFails, AtStore, Goto, TypeOK, local, walk
  <1>8. QED
    BY <1>1, <1>2, <1>3, <1>4, <1>5, <1>6, <1>7 DEF CallStep, ActorStep

\* What a step is to a given call: its own, one that leaves it alone, or a
\* crash of its worker.
LEMMA StepFor ==
    ASSUME TypeOK, [Next]_vars, NEW c \in Call
    PROVE  \/ CallStep(c) \/ ActorStep(c)
           \/ Untouched(c)
           \/ pc'[c] = "crashed" /\ pc[c] \notin Ended /\ UNCHANGED <<store, local>>
  <1>1. Call \subseteq Actor /\ Reader \subseteq Actor /\ c \notin Reader /\ c \in Actor
    BY IngestAssumption DEF Actor
  <1>2. ASSUME NEW p \in Proc, Crash(p)
        PROVE  \/ Untouched(c)
               \/ pc'[c] = "crashed" /\ pc[c] \notin Ended /\ UNCHANGED <<store, local>>
    BY <1>1, <1>2 DEF Crash, Untouched, PayloadUntouched, local, walk, payload
  <1>3. CASE UNCHANGED vars
    BY <1>3 DEF vars, Untouched, PayloadUntouched, local, walk, payload
  <1>4. QED
    BY <1>1, <1>2, <1>3, OthersUntouched DEF Next, Idle

LEMMA OnwardStep ==
    ASSUME TypeOK, [Next]_vars, NEW c \in Call
    PROVE  Onward(c)
  <1>1. CASE CallStep(c) \/ ActorStep(c)
    BY <1>1, OnwardOwn
  <1>2. CASE Untouched(c)
    BY <1>2 DEF Onward, Untouched, PayloadUntouched
  <1>3. CASE pc'[c] = "crashed" /\ pc[c] \notin Ended /\ UNCHANGED <<store, local>>
    BY <1>3 DEF Onward, MayHaveStored, AfterRecord, AsDuplicate, Ended, local, walk
  <1>4. QED
    BY <1>1, <1>2, <1>3, StepFor

\* Every step keeps every call's graph and payload along its walk.
LEMMA DeltaStep ==
    ASSUME ClosedInv, NEW c \in Call, DeltaAt(c), StoredAt(c), [Next]_vars
    PROVE  DeltaAt(c)'
  <1>1. StoreGrows
    BY StoreGrowsStep DEF ClosedInv
  <1>2. CASE CallStep(c) \/ ActorStep(c)
    BY <1>1, <1>2, DeltaOwn DEF ClosedInv
  <1>3. CASE Untouched(c)
    BY <1>1, <1>3, DeltaFrame DEF ClosedInv
  <1>4. CASE pc'[c] = "crashed"
    BY <1>4 DEF DeltaAt, Committed
  <1>5. QED
    BY <1>2, <1>3, <1>4, StepFor DEF ClosedInv

------------------------------------------------------------------------------
(* What is stored of a call.                                                *)

\* What a step adds to the store is of the call that takes it, and of what its
\* result says.
LEMMA AddedIsSaid ==
    ASSUME ClosedInv, \A c \in Call : DeltaAt(c), [Next]_vars
    PROVE  /\ \A ev \in events' : ev \in events
                  \/ \E c \in Call : pc[c] = "persist" /\ ev \in EventsOf(c, ret[c])
           /\ \A e \in edges' : e \in edges
                  \/ \E c \in Call : pc[c] = "persist" /\ e \in EdgesOf(c, ret[c])
           /\ \A ev \in raws' : ev \in raws \/ \E c \in Call : pc[c] = "raw" /\ ev[1] = c
  <1>1. CASE OtherStep
    BY <1>1, OthersAddNothing DEF store
  <1>2. ASSUME NEW c \in Call, CallStep(c)
        PROVE  /\ \A ev \in events' \ events : pc[c] = "persist" /\ ev \in EventsOf(c, ret[c])
               /\ \A e \in edges' \ edges : pc[c] = "persist" /\ e \in EdgesOf(c, ret[c])
               /\ \A ev \in raws' \ raws : pc[c] = "raw" /\ ev[1] = c
    <2>1. AddedBy(c)
      BY <1>2, CallAdds DEF ClosedInv
    <2>2. pc[c] = "persist" => FollowsWalk(c)
      BY DEF DeltaAt
    <2>3. \A ev : EventNode(ev).kind = "event" /\ EventNode(ev).id = ev
      BY DEF EventNode
    <2>4. pc[c] = "persist" =>
              /\ \A ev : EventNode(ev) \in Pending(c) => ev \in EventsOf(c, ret[c])
              /\ Elems(payloadEdges[c]) \subseteq EdgesOf(c, ret[c])
      BY <2>2, <2>3 DEF FollowsWalk
    <2>5. QED
      BY <2>1, <2>4 DEF AddedBy
  <1>3. QED
    BY <1>1, <1>2, StepCases

LEMMA StoredStep ==
    ASSUME ClosedInv, \A d \in Call : DeltaAt(d), NEW c \in Call, StoredAt(c), [Next]_vars
    PROVE  StoredAt(c)'
  <1>1. Onward(c)
    BY OnwardStep DEF ClosedInv
  <1>2. \A d \in Call : \A ev \in EventsOf(d, ret[d]) : ev[1] = d
    BY DEF EventsOf
  <1>3. \A d \in Call : \A e \in EdgesOf(d, ret[d]) : e.event[1] = d
    BY EdgesOfOwner
  \* What is added of this call, it adds itself.
  <1>4. /\ \A ev \in events' : ev[1] = c =>
               ev \in events \/ (pc[c] = "persist" /\ ev \in EventsOf(c, ret[c]))
        /\ \A e \in edges' : e.event[1] = c =>
               e \in edges \/ (pc[c] = "persist" /\ e \in EdgesOf(c, ret[c]))
        /\ \A ev \in raws' : ev[1] = c => ev \in raws \/ pc[c] = "raw"
    BY <1>2, <1>3, AddedIsSaid
  <1>5. ASSUME pc[c] \notin MayHaveStored
        PROVE  \A ev \in events' \cup raws' \cup {e.event : e \in edges'} : ev[1] # c
    BY <1>4, <1>5 DEF MayHaveStored, StoredAt
  <1>6. CASE pc[c] = "run"
    <2>1. pc'[c] \in {"start", "run"} => ret'[c] = <<>>
      BY <1>1, <1>6 DEF Onward, StoredAt
    <2>2. \A ev \in events' \cup raws' \cup {e.event : e \in edges'} : ev[1] # c
      BY <1>5, <1>6 DEF MayHaveStored
    <2>3. QED
      BY <2>1, <2>2 DEF StoredAt
  <1>7. CASE pc[c] # "run"
    <2>1. ret'[c] = ret[c] /\ (pc'[c] \in {"start", "run"} => ret'[c] = <<>>)
      BY <1>1, <1>7 DEF Onward, StoredAt
    <2>2. pc'[c] \notin MayHaveStored => pc[c] \notin MayHaveStored
      BY <1>1 DEF Onward
    <2>3. /\ \A ev \in events' : ev[1] = c => ev \in EventsOf(c, ret[c])
          /\ \A e \in edges' : e.event[1] = c => e \in EdgesOf(c, ret[c])
      BY <1>4 DEF StoredAt
    <2>4. QED
      BY <1>5, <2>1, <2>2, <2>3 DEF StoredAt
  <1>8. QED
    BY <1>6, <1>7

------------------------------------------------------------------------------
(* What is committed is whole and stays so; what the log says of it is true. *)

\* A call past the lock: all its result is stored, and in the graph its
\* handlers get.
LEMMA CommittedWhole ==
    ASSUME TypeOK, NEW c \in Call, DeltaAt(c), StoredAt(c), Committed(c)
    PROVE  WholeDelta(StoredGraph, c) /\ WholeDelta(graph[c], c)
  <1>1. HoldsAll(StoredGraph, c, ret[c]) /\ HoldsAll(graph[c], c, ret[c])
    BY CommittedHolds DEF DeltaAt, Committed
  <1>2. \A e \in edges : e.event[1] = c => e \in EdgesOf(c, ret[c])
    BY DEF StoredAt
  <1>3. \A e \in graph[c].edges : e.event[1] = c => e \in EdgesOf(c, ret[c])
    BY DEF DeltaAt, FollowsWalk
  <1>4. QED
    BY <1>1, <1>2, <1>3 DEF WholeDelta, StoredGraph, FromSnapshot

\* Another call may add to the store, but nothing of this one.
LEMMA WholeStays ==
    ASSUME NEW c \in Call, WholeDelta(StoredGraph, c), StoreGrows, StoredAt(c)',
           ret'[c] = ret[c]
    PROVE  WholeDelta(StoredGraph, c)'
  <1>1. \A e \in EdgesOf(c, ret[c]) : e.target \in Fact
    BY EdgesOfOwner
  <1>2. /\ EventsOf(c, ret[c]) \subseteq events /\ EdgesOf(c, ret[c]) \subseteq edges
        /\ \A e \in EdgesOf(c, ret[c]) : facts[e.target] # Missing
    BY DEF WholeDelta, HoldsAll, StoredGraph, FromSnapshot, Knows
  <1>3. /\ EventsOf(c, ret[c]) \subseteq events' /\ EdgesOf(c, ret[c]) \subseteq edges'
        /\ \A e \in EdgesOf(c, ret[c]) : facts'[e.target] # Missing
    BY <1>1, <1>2 DEF StoreGrows, NodesStay
  <1>4. \A e \in edges' : e.event[1] = c => e \in EdgesOf(c, ret[c])
    BY DEF StoredAt
  <1>5. QED
    BY <1>3, <1>4 DEF WholeDelta, HoldsAll, StoredGraph, FromSnapshot, Knows

LEMMA ReportedStays ==
    ASSUME NEW c \in Call, Reported(c), StoreGrows, StoredAt(c)', Onward(c)
    PROVE  Reported(c)' /\ ret'[c] = ret[c]
  <1>1. pc[c] \in AfterRecord /\ pc[c] # "run" /\ WholeDelta(StoredGraph, c)
    BY DEF Reported, AfterRecord
  <1>2. pc'[c] \in AfterRecord /\ ret'[c] = ret[c]
    BY <1>1 DEF Onward
  <1>3. WholeDelta(StoredGraph, c)'
    BY <1>1, <1>2, WholeStays
  <1>4. QED
    BY <1>2, <1>3 DEF Reported, AfterRecord

\* A call that writes its record has all its result stored.
LEMMA LogCallReports ==
    ASSUME TypeOK, NEW c \in Call, DeltaAt(c), StoredAt(c), StoredAt(c)', StoreGrows, LogCall(c)
    PROVE  Reported(c)'
  <1>1. pc[c] = "raw" /\ pc'[c] = "dispatch" /\ ret'[c] = ret[c]
    BY DEF LogCall, Goto, TypeOK, local, walk, Actor
  <1>2. WholeDelta(StoredGraph, c)
    BY <1>1, CommittedWhole DEF Committed
  <1>3. QED
    BY <1>1, <1>2, WholeStays DEF Reported

\* The log has no new record but of a call that ended as the record says.
LEMMA LogGains ==
    ASSUME [Next]_vars, NEW r \in log'
    PROVE  \/ r \in log
           \/ r.event = None /\ r.summary # "ok"
           \/ \E c \in Call : /\ LogCall(c)
                              /\ r.event = FirstEvent(c) /\ r.summary = "ok"
                              /\ r.tool = ToolOf[c] /\ r.args = ArgsOf[c]
  <1>1. CASE OtherStep
    BY <1>1, OthersAddNothing DEF store
  <1>2. ASSUME NEW c \in Call, HandleDuplicate(c) \/ LogError(c)
        PROVE  r \in log \/ (r.event = None /\ r.summary # "ok")
    <2>1. PICK t \in Time, summary \in {"duplicate", "error"} :
              PersistToolCall(BuildRecord(c, t, None, summary))
      BY <1>2 DEF HandleDuplicate, LogError
    <2>2. QED
      BY <2>1 DEF PersistToolCall, BuildRecord
  <1>5. ASSUME NEW c \in Call, LogCall(c)
        PROVE  r \in log \/ /\ r.event = FirstEvent(c) /\ r.summary = "ok"
                            /\ r.tool = ToolOf[c] /\ r.args = ArgsOf[c]
    <2>1. PICK t : PersistToolCall(BuildRecord(c, t, FirstEvent(c), "ok"))
      BY <1>5 DEF LogCall
    <2>2. QED
      BY <2>1 DEF PersistToolCall, BuildRecord
  <1>3. ASSUME NEW c \in Call, CallStep(c), ~HandleDuplicate(c), ~LogError(c), ~LogCall(c)
        PROVE  log' = log
    BY <1>3 DEF CallStep, FindDuplicate, CheckSoftLimit, RunTool, ValidationFails, ToolRaises,
                AddEventNode, EmitDropped, EmitOne, EmitRaises, FinishBuild, PutNode, PutEdge,
                ReleaseLock, PutRaw, Dispatch, store
  <1>4. QED
    BY <1>1, <1>2, <1>3, <1>5, StepCases

\* The invariant of a call holds in the next state as well.
CallsStay ==
    /\ StoreGrows
    /\ \A c \in Call : Onward(c) /\ StoredAt(c)' /\ DeltaAt(c)'

LEMMA CallsStayStep ==
    ASSUME Inv, [Next]_vars
    PROVE  CallsStay
  BY StoreGrowsStep, OnwardStep, StoredStep, DeltaStep DEF Inv, ClosedInv, CallsStay

LEMMA FirstEventOwner ==
    ASSUME NEW c \in Call
    PROVE  FirstEvent(c) = None \/ (FirstEvent(c) = <<c, 1>> /\ ret[c] # <<>>)
  BY DEF FirstEvent

LEMMA RecordsStep ==
    ASSUME Inv, [Next]_vars
    PROVE  RecordsOK'
  <1>0. CallsStay
    BY CallsStayStep
  <1>1. ASSUME NEW c \in Call, Reported(c) PROVE Reported(c)'
    BY <1>0, <1>1, ReportedStays DEF CallsStay
  <1>2. ASSUME NEW c \in Call, LogCall(c) PROVE Reported(c)'
    BY <1>0, <1>2, LogCallReports DEF CallsStay, Inv, ClosedInv
  <1>3. ASSUME NEW r \in log
        PROVE  r.event = None \/ (r.event[1] \in Call /\ Reported(r.event[1]))
    <2>1. r.event \in EventId \cup {None}
      BY DEF Inv, ClosedInv, TypeOK, Record
    <2>2. QED
      BY <2>1 DEF EventId, Inv, RecordsOK
  <1>4. ASSUME NEW r \in log'
        PROVE  /\ r.summary = "ok" =>
                     \E c \in Call : r.tool = ToolOf[c] /\ r.args = ArgsOf[c] /\ Reported(c)'
               /\ r.event = None \/ Reported(r.event[1])'
    <2>1. CASE r \in log
      BY <1>1, <1>3, <2>1 DEF Inv, RecordsOK
    <2>2. CASE r.event = None /\ r.summary # "ok"
      BY <2>2
    <2>3. ASSUME NEW c \in Call, LogCall(c), r.event = FirstEvent(c), r.summary = "ok",
                 r.tool = ToolOf[c], r.args = ArgsOf[c]
          PROVE  /\ r.tool = ToolOf[c] /\ r.args = ArgsOf[c] /\ Reported(c)'
                 /\ r.event = None \/ Reported(r.event[1])'
      BY <1>2, <2>3, FirstEventOwner
    <2>4. QED
      BY <2>1, <2>2, <2>3, LogGains
  <1>5. ASSUME NEW p \in Proc, NEW c \in Elems(delivered'[p])
        PROVE  pc'[c] = "done"
    <2>1. delivered[p] \in Seq(Call)
      BY DEF Inv, ClosedInv, TypeOK
    <2>2. \A d \in Elems(delivered[p]) : d \in Call /\ pc[d] = "done"
      BY <2>1 DEF Elems, Inv, RecordsOK
    <2>3. \A d \in Elems(delivered[p]) : pc'[d] = "done"
      BY <1>0, <2>2 DEF CallsStay, Onward
    <2>4. CASE delivered' = delivered
      BY <1>5, <2>3, <2>4
    <2>5. ASSUME NEW d \in Call, Dispatch(d) PROVE pc'[c] = "done"
      <3>1. pc'[d] = "done"
        BY <2>5 DEF Dispatch, Goto, Inv, ClosedInv, TypeOK, Actor
      <3>2. delivered'[p] = delivered[p] \/ delivered'[p] = Append(delivered[p], d)
        BY <2>5 DEF Dispatch, Inv, ClosedInv, TypeOK
      <3>3. Elems(delivered'[p]) \subseteq Elems(delivered[p]) \cup {d}
        <4>1. Elems(Append(delivered[p], d)) = Elems(delivered[p]) \cup {d}
          BY <2>1, ElemsAppend
        <4>2. QED
          BY <3>2, <4>1
      <3>4. QED
        BY <1>5, <2>3, <3>1, <3>3
    <2>6. ASSUME NEW q \in Proc, Crash(q) PROVE pc'[c] = "done"
      <3>1. delivered'[p] = delivered[p] \/ delivered'[p] = <<>>
        BY <2>6 DEF Crash, Inv, ClosedInv, TypeOK
      <3>2. QED
        BY <1>5, <2>3, <3>1, ElemsEmpty
    <2>7. ASSUME NEW d \in Call, CallStep(d), ~Dispatch(d) PROVE delivered' = delivered
      BY <2>7 DEF CallStep, FindDuplicate, HandleDuplicate, CheckSoftLimit, RunTool,
                  ValidationFails, ToolRaises, LogError, AddEventNode, EmitDropped, EmitOne,
                  EmitRaises, FinishBuild, PutNode, PutEdge, ReleaseLock, PutRaw, LogCall
    <2>8. ASSUME OtherStep, \A q \in Proc : ~Crash(q) PROVE delivered' = delivered
      BY <2>8 DEF OtherStep, ActorStep, AcquireLock, LoadNodes, LoadEdges, StoreFails, ReadDone,
                  vars
    <2>9. QED
      BY <2>4, <2>5, <2>6, <2>7, <2>8, StepCases
  <1>6. QED
    BY <1>4, <1>5 DEF RecordsOK

LEMMA RecordImpliesStep ==
    ASSUME Inv, [Next]_vars
    PROVE  RecordImpliesIngested'
  <1>0. CallsStay /\ RecordsOK'
    BY CallsStayStep, RecordsStep
  <1> SUFFICES ASSUME NEW r \in log', NEW c \in Call, r.event = <<c, 1>>
               PROVE  /\ r.summary = "ok" /\ r.tool = ToolOf[c] /\ r.args = ArgsOf[c]
                      /\ WholeDelta(StoredGraph, c)'
                      /\ ToolOf[c] \in StoreRaw => \A i \in 1 .. Len(ret'[c]) : <<c, i>> \in raws'
    BY DEF RecordImpliesIngested
  <1>1. r.event # None /\ r.event[1] = c
    BY IngestAssumption DEF EventId
  <1>2. WholeDelta(StoredGraph, c)'
    BY <1>0, <1>1 DEF RecordsOK, Reported
  <1>3. CASE r \in log
    <2>1. Reported(c)
      BY <1>1, <1>3 DEF Inv, RecordsOK
    <2>2. ret'[c] = ret[c] /\ raws \subseteq raws'
      BY <1>0, <2>1, ReportedStays DEF CallsStay, StoreGrows
    <2>3. QED
      BY <1>2, <1>3, <2>2 DEF Inv, RecordImpliesIngested
  <1>4. ASSUME NEW d \in Call, LogCall(d), r.event = FirstEvent(d), r.summary = "ok",
               r.tool = ToolOf[d], r.args = ArgsOf[d]
        PROVE  /\ r.summary = "ok" /\ r.tool = ToolOf[c] /\ r.args = ArgsOf[c]
               /\ ToolOf[c] \in StoreRaw => \A i \in 1 .. Len(ret'[c]) : <<c, i>> \in raws'
    <2>1. d = c
      <3>1. r.event = <<d, 1>>
        BY <1>1, <1>4, FirstEventOwner
      <3>2. QED
        BY <1>1, <3>1
    <2>2. RawsDue(c) = {} /\ ret' = ret /\ raws' = raws
      BY <1>4, <2>1 DEF LogCall, local, walk
    <2>3. QED
      BY <1>4, <2>1, <2>2 DEF RawsDue
  <1>5. QED
    BY <1>1, <1>2, <1>3, <1>4, LogGains

LEMMA SkippedStep ==
    ASSUME Inv, [Next]_vars
    PROVE  SkippedWorkIsInGraph'
  <1>0. CallsStay
    BY CallsStayStep
  <1> SUFFICES ASSUME NEW c \in Call, pc'[c] \in AsDuplicate
               PROVE  \E d \in Call \ {c} : ToolOf[d] = ToolOf[c] /\ ArgsOf[d] = ArgsOf[c]
                                            /\ Reported(d)'
    BY DEF SkippedWorkIsInGraph, AsDuplicate, Reported
  <1>1. ASSUME NEW d \in Call \ {c}, ToolOf[d] = ToolOf[c], ArgsOf[d] = ArgsOf[c], Reported(d)
        PROVE  \E e \in Call \ {c} : ToolOf[e] = ToolOf[c] /\ ArgsOf[e] = ArgsOf[c] /\ Reported(e)'
    BY <1>0, <1>1, ReportedStays DEF CallsStay
  <1>2. CASE pc[c] \in AsDuplicate
    BY <1>1, <1>2 DEF Inv, SkippedWorkIsInGraph, AsDuplicate, Reported
  <1>3. CASE FindDuplicate(c)
    <2>1. PICK records \in Searched(log) : Matching(c, records) # {}
      <3>1. "run" \notin AsDuplicate
        BY DEF AsDuplicate
      <3>2. QED
        BY <1>3, <3>1 DEF FindDuplicate, Goto, Inv, ClosedInv, TypeOK, Actor
    <2>2. PICK r \in log : r.tool = ToolOf[c] /\ r.args = ArgsOf[c] /\ r.summary = "ok"
      BY <2>1, SearchedType DEF Matching
    <2>3. PICK d \in Call : r.tool = ToolOf[d] /\ r.args = ArgsOf[d] /\ Reported(d)
      BY <2>2 DEF Inv, RecordsOK
    <2>4. d # c
      BY <1>3, <2>3 DEF FindDuplicate, Reported
    <2>5. QED
      BY <1>1, <2>2, <2>3, <2>4
  <1>4. QED
    BY <1>0, <1>2, <1>3 DEF CallsStay, Onward

------------------------------------------------------------------------------
(* The theorems.                                                            *)

LEMMA InvInit == Init => Inv
  <1> SUFFICES ASSUME Init PROVE Inv
    OBVIOUS
  <1>1. ClosedInv
    BY ClosedInvInit
  <1>2. \A c \in Call : pc[c] = "start"
    BY DEF Init, Actor
  <1>3. ASSUME NEW c \in Call PROVE DeltaAt(c) /\ StoredAt(c)
    BY <1>2 DEF Init, DeltaAt, Committed, StoredAt
  <1>4. RecordsOK
    BY ElemsEmpty DEF Init, RecordsOK
  <1>5. RecordImpliesIngested /\ SkippedWorkIsInGraph
    BY <1>2 DEF Init, RecordImpliesIngested, SkippedWorkIsInGraph
  <1>6. QED
    BY <1>1, <1>3, <1>4, <1>5 DEF Inv

\* In every reachable state, however many workers share the store and wherever
\* they die: calls' graphs and payloads follow their walks, what is stored is
\* what results say, and the log and the notifications tell of whole ingests.
THEOREM InvHolds == Spec => []Inv
  <1>1. Init => Inv
    BY InvInit
  <1>2. Inv /\ [Next]_vars => Inv'
    <2> SUFFICES ASSUME Inv, [Next]_vars PROVE Inv'
      OBVIOUS
    <2>1. ClosedInv'
      BY TypeStep, PositionStep, ClosedStep, EndpointsStep DEF Inv, ClosedInv
    <2>2. \A c \in Call : (DeltaAt(c) /\ StoredAt(c))'
      BY CallsStayStep DEF CallsStay
    <2>3. QED
      BY <2>1, <2>2, RecordsStep, RecordImpliesStep, SkippedStep DEF Inv
  <1>3. QED
    BY <1>1, <1>2, PTL DEF Spec

\* Workers never lose each other's links: once a call has left the lock, the
\* store holds exactly what its result says of it, and forever after.
THEOREM CommittedStaysWhole == Spec => []CommittedDeltaStored
  <1>1. Inv => CommittedDeltaStored
    BY CommittedWhole DEF Inv, ClosedInv, CommittedDeltaStored
  <1>2. QED
    BY <1>1, InvHolds, PTL

\* A record of the tool log that names an event tells of a finished ingest.
THEOREM RecordsTellTruth == Spec => []RecordImpliesIngested
  <1>1. Inv => RecordImpliesIngested
    BY DEF Inv
  <1>2. QED
    BY <1>1, InvHolds, PTL

\* A duplicate is skipped only when another call's whole result is stored.
THEOREM SkipsAreJustified == Spec => []SkippedWorkIsInGraph
  <1>1. Inv => SkippedWorkIsInGraph
    BY DEF Inv
  <1>2. QED
    BY <1>1, InvHolds, PTL

\* What a handler was given is all in the store.
THEOREM HandlersSafe == Spec => []HandlersSeeStored
  <1>1. Inv => HandlersSeeStored
    <2> SUFFICES ASSUME Inv, NEW p \in Proc, NEW c \in Elems(delivered[p])
                 PROVE  /\ WholeDelta(graph[c], c)
                        /\ graph[c].events \subseteq events
                        /\ graph[c].edges \subseteq edges
                        /\ \A f \in Fact : Knows(graph[c], f) => facts[f] # Missing
      BY DEF HandlersSeeStored
    <2>1. c \in Call /\ pc[c] = "done"
      <3>1. delivered[p] \in Seq(Call)
        BY DEF Inv, ClosedInv, TypeOK
      <3>2. QED
        BY <3>1 DEF Inv, RecordsOK, Elems
    <2>2. WholeDelta(graph[c], c)
      BY <2>1, CommittedWhole DEF Inv, ClosedInv, Committed
    <2>3. Covered(graph[c], c) /\ payloadNodes[c] = <<>> /\ payloadEdges[c] = <<>>
      BY <2>1 DEF Inv, DeltaAt, Committed, FollowsWalk
    <2>4. Pending(c) = {} /\ Elems(payloadEdges[c]) = {}
      BY <2>1, <2>3, ElemsEmpty DEF Pending
    <2>5. QED
      BY <2>2, <2>3, <2>4 DEF Covered
  <1>2. QED
    BY <1>1, InvHolds, PTL

\* A rejected call, even on its last item, leaves nothing of itself.
THEOREM RejectedLeaveNothing == Spec => []RejectedLeavesNothing
  <1>1. Inv => RejectedLeavesNothing
    <2> SUFFICES ASSUME Inv, NEW c \in Call, pc[c] = "rejected"
                 PROVE  /\ \A ev \in events \cup raws \cup {e.event : e \in edges} : ev[1] # c
                        /\ \A r \in log : r.event = None \/ r.event[1] # c
      BY DEF RejectedLeavesNothing
    <2>1. \A ev \in events \cup raws \cup {e.event : e \in edges} : ev[1] # c
      BY DEF Inv, StoredAt, MayHaveStored
    <2>2. \A r \in log : r.event = None \/ r.event[1] # c
      BY DEF Inv, RecordsOK, Reported
    <2>3. QED
      BY <2>1, <2>2
  <1>2. QED
    BY <1>1, InvHolds, PTL

==============================================================================
