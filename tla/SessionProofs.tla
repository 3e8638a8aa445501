---------------------------- MODULE SessionProofs ----------------------------
(****************************************************************************)
(* What a session promises as a whole.  First, with any number of workers   *)
(* on one store: Ingest implements MergedSession, step by step.  Then what  *)
(* the session lock gives the threads of one worker: facts are new once,    *)
(* values never change, a call's graph is the one a reload builds, reads    *)
(* are consistent, and Ingest implements AtomicSession.                     *)
(*                                                                          *)
(* The hypotheses of the second part are those under which the code makes   *)
(* that promise: all actors are threads of one process (SameWorker; the     *)
(* lock is a process's own) and the store holds no more items than a search *)
(* returns (SearchesComplete; _SCAN_LIMIT in store.py).                     *)
(****************************************************************************)
EXTENDS IngestProofs, IngestRefinement

------------------------------------------------------------------------------
(* Workers that share a store: MergedSession.                               *)

\* The operators of the abstract session on graphs are those of the session.
LEMMA SameOperators ==
    /\ Merged!EmptyGraph = EmptyGraph
    /\ \A c, items : Merged!EventsOf(c, items) = EventsOf(c, items)
    /\ \A c, items : Merged!EdgesOf(c, items) = EdgesOf(c, items)
    /\ \A items, f : Merged!Spellings(items, f) = Spellings(items, f)
    /\ \A g, f : Merged!Knows(g, f) <=> Knows(g, f)
    /\ \A g, c, items : Merged!HoldsAll(g, c, items) <=> HoldsAll(g, c, items)
    /\ \A g, h, c, items : Merged!Grows(g, h, c, items) <=> Grows(g, h, c, items)
    /\ \A g : Merged!Closed(g) <=> Closed(g)
  <1>1. Merged!EmptyGraph = EmptyGraph
    BY DEF Merged!EmptyGraph, EmptyGraph, Merged!FromSnapshot, FromSnapshot
  <1>2. \A c, items : Merged!EventsOf(c, items) = EventsOf(c, items)
    BY DEF Merged!EventsOf, EventsOf
  <1>3. \A c, items : Merged!EdgesOf(c, items) = EdgesOf(c, items)
    BY DEF Merged!EdgesOf, EdgesOf, Merged!EdgesSaid, EdgesSaid, Merged!Elems, Elems
  <1>4. \A items, f : Merged!Spellings(items, f) = Spellings(items, f)
    BY DEF Merged!Spellings, Spellings, Merged!Elems, Elems
  <1>5. \A g, f : Merged!Knows(g, f) <=> Knows(g, f)
    BY DEF Merged!Knows, Knows
  <1>6. \A g, c, items : Merged!HoldsAll(g, c, items) <=> HoldsAll(g, c, items)
    BY <1>2, <1>3, <1>5 DEF Merged!HoldsAll, HoldsAll
  <1>7. \A g, h, c, items : Merged!Grows(g, h, c, items) <=> Grows(g, h, c, items)
    BY <1>2, <1>3, <1>5 DEF Merged!Grows, Grows
  <1>8. \A g : Merged!Closed(g) <=> Closed(g)
    BY <1>5 DEF Merged!Closed, Closed, Merged!GhostFacts, GhostFacts, Merged!GhostEvents,
                GhostEvents
  <1>9. QED
    BY <1>1, <1>2, <1>3, <1>4, <1>5, <1>6, <1>7, <1>8

------------------------------------------------------------------------------
(* Values are spellings some call has returned.                             *)

Said(r, v, f) == v = Missing \/ \E d \in Call : v \in Spellings(r[d], f)

LEMMA ValuesSaidSplit ==
    ValuesSaid <=> \A f \in Fact : /\ Said(ret, facts[f], f)
                                   /\ \A a \in Actor : Said(ret, graph[a].facts[f], f)
  BY DEF ValuesSaid, Said

\* What a call has returned it has returned for good.
LEMMA SaidStays ==
    ASSUME Inv, [Next]_vars, NEW f \in Fact, NEW v, Said(ret, v, f)
    PROVE  Said(ret', v, f)
  <1>1. CASE v = Missing
    BY <1>1 DEF Said
  <1>2. ASSUME NEW d \in Call, v \in Spellings(ret[d], f) PROVE v \in Spellings(ret'[d], f)
    <2>1. CASE ret'[d] = ret[d]
      BY <1>2, <2>1
    <2>2. CASE pc[d] = "run"
      <3>1. ret[d] = <<>>
        BY <2>2 DEF Inv, StoredAt
      <3>2. Spellings(ret[d], f) = {}
        BY <3>1 DEF Spellings
      <3>3. QED
        BY <1>2, <3>2
    <2>3. QED
      BY <2>1, <2>2, OnwardStep DEF Onward, Inv, ClosedInv
  <1>3. QED
    BY <1>1, <1>2 DEF Said

\* An actor's graph takes its values from the store, or from its own result.
LEMMA GraphValues ==
    ASSUME Inv, ValuesSaid, [Next]_vars, NEW a \in Actor, NEW f \in Fact
    PROVE  Said(ret', graph'[a].facts[f], f)
  <1>0. graph \in [Actor -> Graph] /\ Said(ret, facts[f], f) /\ Said(ret, graph[a].facts[f], f)
    BY ValuesSaidSplit DEF Inv, ClosedInv, TypeOK
  <1>1. ASSUME graph'[a].facts[f] \in {Missing, facts[f], graph[a].facts[f]}
        PROVE  Said(ret', graph'[a].facts[f], f)
    <2>1. Said(ret, graph'[a].facts[f], f)
      BY <1>0, <1>1 DEF Said
    <2>2. QED
      BY <2>1, SaidStays
  <1>2. ASSUME NEW b \in Actor, LoadNodes(b) PROVE Said(ret', graph'[a].facts[f], f)
    <2>1. PICK found : graph' = [graph EXCEPT ![b] =
              FromSnapshot([h \in Fact |-> IF FactNode(h) \in found THEN facts[h] ELSE Missing],
                           {ev \in events : EventNode(ev) \in found}, {})]
      BY <1>2 DEF LoadNodes
    <2>2. graph'[a].facts[f] \in {Missing, facts[f], graph[a].facts[f]}
      BY <1>0, <2>1 DEF FromSnapshot
    <2>3. QED
      BY <1>1, <2>2
  <1>3. ASSUME NEW b \in Actor, LoadEdges(b) PROVE Said(ret', graph'[a].facts[f], f)
    <2>1. PICK found : graph' = [graph EXCEPT ![b] = [graph[b] EXCEPT !.edges = found]]
      BY <1>3 DEF LoadEdges
    <2>2. graph'[a].facts = graph[a].facts
      BY <1>0, <2>1 DEF Graph
    <2>3. QED
      BY <1>1, <2>2
  <1>4. ASSUME NEW c \in Call, AddEventNode(c) PROVE Said(ret', graph'[a].facts[f], f)
    <2>1. graph' = [graph EXCEPT ![c] = AddEvent(graph[c], <<c, item[c] + 1>>)]
      BY <1>4 DEF AddEventNode
    <2>2. graph'[a].facts = graph[a].facts
      BY <1>0, <2>1 DEF Graph, AddEvent
    <2>3. QED
      BY <1>1, <2>2
  <1>5. ASSUME NEW c \in Call, EmitOne(c) PROVE Said(ret', graph'[a].facts[f], f)
    <2> DEFINE v == Current(c).value
    <2>1. TypeOK /\ PositionOK /\ ClosedAt(c)
      BY DEF Inv, ClosedInv, PayloadClosed
    <2>2. EmitAt(c) /\ ret' = ret /\ \E g : graph' = [graph EXCEPT ![c] = g]
      BY <1>5 DEF EmitOne, EmitAt
    <2>3. CASE a = c
      <3>1. \/ graph'[c].facts[f] = graph[c].facts[f]
            \/ f = Canonical[v] /\ graph'[c].facts[f] = v /\ v \in Value
        BY <1>5, <2>1, EmitOneEffect
      <3>2. /\ item[c] \in DOMAIN ret[c] /\ occ[c] + 1 \in DOMAIN ret[c][item[c]]
            /\ v = ret[c][item[c]][occ[c] + 1].value
        BY <2>1, <2>2, CurrentType DEF Current
      <3> HIDE DEF v
      <3>3. ASSUME f = Canonical[v], v \in Value PROVE v \in Spellings(ret[c], f)
        BY <3>2, <3>3 DEF Spellings, Elems
      <3>4. CASE graph'[c].facts[f] = graph[c].facts[f]
        BY <1>1, <2>3, <3>4
      <3>5. CASE f = Canonical[v] /\ graph'[c].facts[f] = v /\ v \in Value
        BY <2>2, <2>3, <3>3, <3>5 DEF Said
      <3>6. QED
        BY <3>1, <3>4, <3>5
    <2>4. CASE a # c
      BY <1>0, <1>1, <2>2, <2>4
    <2>5. QED
      BY <2>3, <2>4
  <1>6. CASE graph' = graph
    BY <1>1, <1>6
  <1>7. ASSUME NEW c \in Call, CallStep(c), ~AddEventNode(c), ~EmitOne(c) PROVE graph' = graph
    BY <1>7 DEF CallStep, FindDuplicate, HandleDuplicate, CheckSoftLimit, RunTool,
                ValidationFails, ToolRaises, LogError, EmitDropped, EmitRaises, FinishBuild,
                PutNode, PutEdge, ReleaseLock, PutRaw, LogCall, Dispatch, local
  <1>8. ASSUME NEW b \in Actor, ActorStep(b), ~LoadNodes(b), ~LoadEdges(b) PROVE graph' = graph
    BY <1>8 DEF ActorStep, AcquireLock, StoreFails, local
  <1>9. CASE \/ \E r \in Reader : ReadDone(r)
             \/ \E p \in Proc : Crash(p)
             \/ UNCHANGED vars
    BY <1>6, <1>9 DEF ReadDone, Crash, vars, local
  <1>10. QED
    BY <1>2, <1>3, <1>4, <1>5, <1>6, <1>7, <1>8, <1>9, StepCases DEF OtherStep

\* A step changes the facts of the store only where a call puts one, with the
\* value the call's graph has for it.
LEMMA FactsFromGraph ==
    ASSUME Inv, [Next]_vars
    PROVE  \/ facts' = facts
           \/ \E c \in Call : \E f \in Fact : facts' = [facts EXCEPT ![f] = graph[c].facts[f]]
  <1>1. ASSUME NEW c \in Call, PutNode(c), facts' # facts
        PROVE  \E f \in Fact : facts' = [facts EXCEPT ![f] = graph[c].facts[f]]
    <2> DEFINE n == Head(payloadNodes[c])
    <2>1. payloadNodes[c] \in Seq(Node) /\ payloadNodes[c] # <<>>
      BY <1>1 DEF PutNode, Inv, ClosedInv, TypeOK
    <2>2. n \in Node
      BY <2>1, ElemsTail
    <2> HIDE DEF n
    <2>3. n.kind # "event" /\ facts' = [facts EXCEPT ![n.id] = graph[c].facts[n.id]]
      BY <1>1 DEF PutNode, Put, n
    <2>4. n.id \in Fact
      BY <2>2, <2>3 DEF Node
    <2>5. QED
      BY <2>3, <2>4
  <1>2. ASSUME NEW c \in Call, CallStep(c), ~PutNode(c) PROVE facts' = facts
    BY <1>2 DEF CallStep, FindDuplicate, HandleDuplicate, CheckSoftLimit, RunTool,
                ValidationFails, ToolRaises, LogError, AddEventNode, EmitDropped, EmitOne,
                EmitRaises, FinishBuild, PutEdge, ReleaseLock, PutRaw, LogCall, Dispatch, store
  <1>3. QED
    BY <1>1, <1>2, OthersAddNothing, StepCases DEF store

LEMMA ValuesSaidStep ==
    ASSUME Inv, ValuesSaid, [Next]_vars
    PROVE  ValuesSaid'
  <1>1. ASSUME NEW f \in Fact PROVE Said(ret', facts'[f], f)
    <2>1. Said(ret, facts[f], f) /\ \A a \in Actor : Said(ret, graph[a].facts[f], f)
      BY ValuesSaidSplit
    <2>2. facts'[f] = facts[f] \/ \E c \in Call : facts'[f] = graph[c].facts[f]
      BY FactsFromGraph DEF Inv, ClosedInv, TypeOK
    <2>3. Said(ret, facts'[f], f)
      BY <2>1, <2>2 DEF Actor
    <2>4. QED
      BY <2>3, SaidStays
  <1>2. QED
    BY <1>1, GraphValues DEF ValuesSaid, Said

LEMMA ValuesSaidInit == Init => ValuesSaid
  BY DEF Init, ValuesSaid, EmptyGraph, FromSnapshot

------------------------------------------------------------------------------
(* The simulation.                                                          *)

LEMMA MergedInit == Init => Merged!Init
  <1> SUFFICES ASSUME Init PROVE Merged!Init
    OBVIOUS
  <1>1. StoredGraph = EmptyGraph
    BY DEF Init, StoredGraph, EmptyGraph, FromSnapshot
  <1>2. {c \in Call : Committed(c)} = {}
    BY DEF Init, Committed, Actor
  <1>3. ret = [c \in Call |-> <<>>]
    BY DEF Init
  <1>4. QED
    BY <1>1, <1>2, <1>3, SameOperators DEF Merged!Init

\* A put of a node or an edge adds a part of the call's result.
LEMMA PutAdds ==
    ASSUME Inv, Inv', ValuesSaid, NEW c \in Call, PutNode(c) \/ PutEdge(c)
    PROVE  Merged!Add(c)
  <1>1. [Next]_vars /\ CallStep(c)
    BY DEF Next, CallStep
  <1>2. /\ pc[c] = "persist" /\ UNCHANGED <<pc, ret>>
    BY DEF PutNode, PutEdge, walk
  <1>3. StoreGrows /\ AddedBy(c)
    BY <1>1, CallAdds DEF Inv, ClosedInv
  <1>4. /\ \A ev \in events' \ events : ev \in EventsOf(c, ret[c])
        /\ edges' \ edges \subseteq EdgesOf(c, ret[c])
    <2>1. FollowsWalk(c)
      BY <1>2 DEF Inv, DeltaAt
    <2>2. \A ev : EventNode(ev).kind = "event" /\ EventNode(ev).id = ev
      BY DEF EventNode
    <2>3. QED
      BY <1>3, <2>1, <2>2 DEF AddedBy, FollowsWalk
  <1>5. Grows(StoredGraph, StoredGraph', c, ret[c])
    BY <1>3, <1>4 DEF Grows, StoredGraph, FromSnapshot, Knows, StoreGrows, NodesStay
  <1>6. \A f \in Fact : \/ StoredGraph'.facts[f] = StoredGraph.facts[f]
                        \/ \E d \in Call : StoredGraph'.facts[f] \in Spellings(ret[d], f)
    <2>1. StoredGraph.facts = facts /\ StoredGraph'.facts = facts'
      BY DEF StoredGraph, FromSnapshot
    <2>2. ASSUME NEW d \in Call, NEW f \in Fact,
                 facts' = [facts EXCEPT ![f] = graph[d].facts[f]], NEW h \in Fact
          PROVE  \/ facts'[h] = facts[h]
                 \/ \E e \in Call : facts'[h] \in Spellings(ret[e], h)
      <3>1. h # f => facts'[h] = facts[h]
        BY <2>2 DEF Inv, ClosedInv, TypeOK
      <3>2. facts'[f] = graph[d].facts[f]
        BY <2>2 DEF Inv, ClosedInv, TypeOK
      <3>3. Said(ret, facts[f], f) /\ Said(ret, graph[d].facts[f], f)
        BY ValuesSaidSplit DEF Actor
      <3>4. facts[f] # Missing => facts'[f] # Missing
        BY <1>3 DEF StoreGrows, NodesStay
      <3>5. QED
        BY <3>1, <3>2, <3>3, <3>4 DEF Said
    <2>3. QED
      BY <1>1, <2>1, <2>2, FactsFromGraph
  <1>7. Closed(StoredGraph')
    BY DEF Inv, ClosedInv, EdgeEndpointsStored
  <1>8. c \notin {d \in Call : Committed(d)}
        /\ {d \in Call : Committed(d)}' = {d \in Call : Committed(d)}
    BY <1>2 DEF Committed
  <1>9. QED
    BY <1>2, <1>5, <1>6, <1>7, <1>8, SameOperators DEF Merged!Add, Merged!Respelled

\* A call leaves the lock when all its result says is stored.
LEMMA ReleaseFinishes ==
    ASSUME Inv, NEW c \in Call, ReleaseLock(c)
    PROVE  Merged!Finish(c)
  <1>1. /\ pc[c] = "persist" /\ pc' = [pc EXCEPT ![c] = "raw"]
        /\ payloadNodes[c] = <<>> /\ payloadEdges[c] = <<>>
        /\ UNCHANGED <<store, ret>> /\ pc \in [Actor -> Labels] /\ Call \subseteq Actor
    BY DEF ReleaseLock, Goto, local, walk, Inv, ClosedInv, TypeOK, Actor
  <1>2. HoldsAll(StoredGraph, c, ret[c])
    BY <1>1, CommittedHolds DEF Inv, ClosedInv, DeltaAt
  <1>3. StoredGraph' = StoredGraph
    BY <1>1 DEF StoredGraph, store
  <1>4. {d \in Call : Committed(d)}' = {d \in Call : Committed(d)} \cup {c}
    <2>1. \A d \in Call : d # c => pc'[d] = pc[d]
      BY <1>1
    <2>2. pc'[c] = "raw"
      BY <1>1
    <2>3. QED
      BY <2>1, <2>2 DEF Committed
  <1>5. QED
    BY <1>1, <1>2, <1>3, <1>4, SameOperators DEF Merged!Finish

\* A tool returns.
LEMMA RunReturns ==
    ASSUME Inv, NEW c \in Call, RunTool(c)
    PROVE  Merged!Return(c)
  <1>1. /\ pc[c] = "run" /\ pc' = [pc EXCEPT ![c] = "acquire"] /\ UNCHANGED store
        /\ \E r \in Returns[ToolOf[c]] : ret' = [ret EXCEPT ![c] = r]
        /\ pc \in [Actor -> Labels] /\ Call \subseteq Actor
    BY DEF RunTool, Goto, Inv, ClosedInv, TypeOK, Actor
  <1>2. ret[c] = <<>>
    BY <1>1 DEF Inv, StoredAt
  <1>3. \A d \in Call : Committed(d)' <=> Committed(d)
    BY <1>1 DEF Committed
  <1>4. c \notin {d \in Call : Committed(d)}
        /\ {d \in Call : Committed(d)}' = {d \in Call : Committed(d)}
    BY <1>1, <1>3 DEF Committed
  <1>5. StoredGraph' = StoredGraph
    BY <1>1 DEF StoredGraph, store
  <1>6. Result[c] = Returns[ToolOf[c]]
    BY DEF Result
  <1>7. QED
    BY <1>1, <1>2, <1>4, <1>5, <1>6 DEF Merged!Return

\* A step that changes neither the graph in the store nor what calls returned,
\* and after which no further call is committed.
LEMMA OthersDie ==
    ASSUME UNCHANGED <<facts, events, edges, ret>>,
           \A c \in Call : Committed(c)' => Committed(c)
    PROVE  [Merged!Next]_(Merged!vars)
  <1>1. StoredGraph' = StoredGraph
    BY DEF StoredGraph
  <1>2. {d \in Call : Committed(d)}' \subseteq {d \in Call : Committed(d)}
    OBVIOUS
  <1>3. Merged!Die
    BY <1>1, <1>2 DEF Merged!Die
  <1>4. QED
    BY <1>3 DEF Merged!Next

LEMMA MergedStep ==
    ASSUME Inv, Inv', ValuesSaid, [Next]_vars
    PROVE  [Merged!Next]_(Merged!vars)
  <1>1. ASSUME NEW c \in Call, PutNode(c) \/ PutEdge(c) PROVE [Merged!Next]_(Merged!vars)
    BY <1>1, PutAdds DEF Merged!Next
  <1>2. ASSUME NEW c \in Call, ReleaseLock(c) PROVE [Merged!Next]_(Merged!vars)
    BY <1>2, ReleaseFinishes DEF Merged!Next
  <1>3. ASSUME NEW c \in Call, RunTool(c) PROVE [Merged!Next]_(Merged!vars)
    BY <1>3, RunReturns DEF Merged!Next
  <1>4. ASSUME NEW c \in Call, CallStep(c),
               ~PutNode(c), ~PutEdge(c), ~ReleaseLock(c), ~RunTool(c)
        PROVE  [Merged!Next]_(Merged!vars)
    <2>1. UNCHANGED <<facts, events, edges, ret>>
      BY <1>4 DEF CallStep, FindDuplicate, HandleDuplicate, CheckSoftLimit, ValidationFails,
                  ToolRaises, LogError, AddEventNode, EmitDropped, EmitOne, EmitRaises, EmitAt,
                  FinishBuild, PutRaw, LogCall, Dispatch, store, local, walk
    <2>2. \/ pc' = pc
          \/ \E l \in Labels : /\ pc' = [pc EXCEPT ![c] = l]
                               /\ l \in {"raw", "dispatch", "done"} => Committed(c)
      <3>1. CASE FindDuplicate(c) \/ HandleDuplicate(c) \/ CheckSoftLimit(c) \/ ValidationFails(c)
        BY <3>1 DEF FindDuplicate, HandleDuplicate, CheckSoftLimit, ValidationFails, Goto, Labels,
                    Ended
      <3>2. CASE ToolRaises(c) \/ LogError(c) \/ EmitRaises(c) \/ FinishBuild(c)
        BY <3>2 DEF ToolRaises, LogError, EmitRaises, FinishBuild, Goto, Labels, Ended,
                    InCriticalSection
      <3>3. CASE LogCall(c) \/ Dispatch(c)
        BY <3>3 DEF LogCall, Dispatch, Goto, Labels, Ended, Committed
      <3>4. CASE AddEventNode(c) \/ EmitDropped(c) \/ EmitOne(c) \/ PutRaw(c)
        BY <3>4 DEF AddEventNode, EmitDropped, EmitOne, PutRaw
      <3>5. QED
        BY <1>4, <3>1, <3>2, <3>3, <3>4 DEF CallStep
    <2>3. pc \in [Actor -> Labels] /\ Call \subseteq Actor
      BY DEF Inv, ClosedInv, TypeOK, Actor
    <2>4. \A d \in Call : Committed(d)' => Committed(d)
      BY <2>2, <2>3 DEF Committed
    <2>5. QED
      BY <2>1, <2>4, OthersDie
  <1>5. CASE OtherStep
    <2>1. UNCHANGED <<facts, events, edges, ret>>
      BY <1>5, OthersAddNothing DEF store
    <2>2. \A d \in Call : pc'[d] \in {"raw", "dispatch", "done"} => pc'[d] = pc[d]
      <3>1. pc \in [Actor -> Labels] /\ Call \subseteq Actor /\ Call \cap Reader = {}
        BY IngestAssumption DEF Inv, ClosedInv, TypeOK, Actor
      <3>2. ASSUME NEW a \in Actor, ActorStep(a), NEW d \in Call
            PROVE  pc'[d] \in {"raw", "dispatch", "done"} => pc'[d] = pc[d]
        BY <3>1, <3>2 DEF ActorStep, AcquireLock, LoadNodes, LoadEdges, StoreFails, Goto
      <3>3. ASSUME NEW r \in Reader, ReadDone(r), NEW d \in Call PROVE pc'[d] = pc[d]
        BY <3>1, <3>3 DEF ReadDone, Goto
      <3>4. ASSUME NEW p \in Proc, Crash(p), NEW d \in Call
            PROVE  pc'[d] = "crashed" \/ pc'[d] = pc[d]
        BY <3>1, <3>4 DEF Crash
      <3>5. QED
        BY <1>5, <3>2, <3>3, <3>4 DEF OtherStep, vars
    <2>3. \A d \in Call : Committed(d)' => Committed(d)
      BY <2>2 DEF Committed
    <2>4. QED
      BY <2>1, <2>3, OthersDie
  <1>6. QED
    BY <1>1, <1>2, <1>3, <1>4, <1>5, StepCases

\* Every behaviour of the session, whatever number of workers share the store
\* and wherever they die, is one of the abstract session in which calls merge
\* parts of their results and report only what is there whole.
THEOREM MergesAsPromised == Spec => ImplementsMerged
  <1>1. Inv /\ Inv' /\ ValuesSaid /\ [Next]_vars => [Merged!Next]_(Merged!vars)
    BY MergedStep
  <1>2. Inv /\ ValuesSaid /\ [Next]_vars => ValuesSaid'
    BY ValuesSaidStep
  <1>3. Init => ValuesSaid
    BY ValuesSaidInit
  <1>4. QED
    BY <1>1, <1>2, <1>3, MergedInit, InvHolds, PTL DEF Spec, ImplementsMerged, Merged!Spec

------------------------------------------------------------------------------
(* Mutual exclusion.                                                        *)

\* A step of an actor.
StepOf(a) ==
    \/ a \in Call /\ CallStep(a)
    \/ ActorStep(a)
    \/ a \in Reader /\ ReadDone(a)

LEMMA NextCases ==
    [Next]_vars <=> \/ \E a \in Actor : StepOf(a)
                    \/ \E p \in Proc : Crash(p)
                    \/ UNCHANGED vars
  BY DEF Next, StepOf, Idle, Actor

\* An actor that steps leaves the place and the graph of the others alone.
LEMMA OthersKept ==
    ASSUME TypeOK, NEW a \in Actor, StepOf(a), NEW b \in Actor, b # a
    PROVE  pc'[b] = pc[b] /\ graph'[b] = graph[b] /\ (b \in Call => Untouched(b))
  <1>1. b \in Call => Untouched(b)
    BY OthersUntouched DEF StepOf
  <1>2. \E l : pc' = pc \/ pc' = [pc EXCEPT ![a] = l]
    <2>1. CASE a \in Call /\ CallStep(a)
      BY <2>1 DEF CallStep, FindDuplicate, HandleDuplicate, CheckSoftLimit, RunTool,
                  ValidationFails, ToolRaises, LogError, AddEventNode, EmitDropped, EmitOne,
                  EmitRaises, FinishBuild, PutNode, PutEdge, ReleaseLock, PutRaw, LogCall,
                  Dispatch, Goto
    <2>2. CASE ActorStep(a) \/ ReadDone(a)
      BY <2>2 DEF ActorStep, AcquireLock, LoadNodes, LoadEdges, StoreFails, ReadDone, Goto
    <2>3. QED
      BY <2>1, <2>2 DEF StepOf
  <1>3. \E g : graph' = graph \/ graph' = [graph EXCEPT ![a] = g]
    <2>1. CASE a \in Call /\ CallStep(a)
      BY <2>1 DEF CallStep, FindDuplicate, HandleDuplicate, CheckSoftLimit, RunTool,
                  ValidationFails, ToolRaises, LogError, AddEventNode, EmitDropped, EmitOne,
                  EmitRaises, FinishBuild, PutNode, PutEdge, ReleaseLock, PutRaw, LogCall,
                  Dispatch, local
    <2>2. CASE ActorStep(a) \/ ReadDone(a)
      BY <2>2 DEF ActorStep, AcquireLock, LoadNodes, LoadEdges, StoreFails, ReadDone, local
    <2>3. QED
      BY <2>1, <2>2 DEF StepOf
  <1>4. QED
    BY <1>1, <1>2, <1>3 DEF TypeOK

\* In one worker at most one actor is inside the lock.
LEMMA OneInside ==
    ASSUME SameWorker, LockHeld,
           NEW a \in Actor, pc[a] \in InCriticalSection,
           NEW b \in Actor, pc[b] \in InCriticalSection
    PROVE  a = b
  BY DEF SameWorker, LockHeld

\* Whoever is inside the lock holds it, in any number of workers.
LEMMA LockHeldStep ==
    ASSUME TypeOK, LockHeld, [Next]_vars
    PROVE  LockHeld'
  <1> SUFFICES ASSUME NEW b \in Actor, pc'[b] \in InCriticalSection
               PROVE  lock'[ProcOf[b]] = b
    BY DEF LockHeld
  <1>0. ProcOf \in [Actor -> Proc] /\ None \notin Actor /\ lock \in [Proc -> Actor \cup {None}]
        /\ pc \in [Actor -> Labels]
    BY IngestAssumption DEF TypeOK
  <1>1. ASSUME NEW a \in Actor, Unlock(a), a # b, lock[ProcOf[b]] = b
        PROVE  lock'[ProcOf[b]] = b
    BY <1>0, <1>1 DEF Unlock
  <1>2. ASSUME NEW a \in Actor, StepOf(a), a # b PROVE lock'[ProcOf[b]] = b
    <2>1. pc[b] \in InCriticalSection /\ lock[ProcOf[b]] = b
      BY <1>2, OthersKept DEF LockHeld
    <2>2. lock' = lock \/ Unlock(a) \/ AcquireLock(a)
      BY <1>2 DEF StepOf, CallStep, ActorStep, FindDuplicate, HandleDuplicate, CheckSoftLimit,
                  RunTool, ValidationFails, ToolRaises, LogError, AddEventNode, EmitDropped,
                  EmitOne, EmitRaises, FinishBuild, PutNode, PutEdge, ReleaseLock, PutRaw,
                  LogCall, Dispatch, LoadNodes, LoadEdges, StoreFails, ReadDone
    <2>3. CASE AcquireLock(a)
      BY <1>0, <2>1, <2>3 DEF AcquireLock, LockFree
    <2>4. QED
      BY <1>1, <1>2, <2>1, <2>2, <2>3
  <1>3. CASE StepOf(b)
    <2>1. AcquireLock(b) \/ (lock' = lock /\ pc[b] \in InCriticalSection)
      <3>1. CASE AcquireLock(b)
        BY <3>1
      <3>2. CASE LoadNodes(b) \/ LoadEdges(b)
        BY <3>2 DEF LoadNodes, LoadEdges, InCriticalSection
      <3>3. CASE StoreFails(b) \/ ReadDone(b)
        BY <1>0, <3>3 DEF StoreFails, ReadDone, Goto, InCriticalSection
      <3>4. CASE b \in Call /\ CallStep(b)
        <4>1. CASE FindDuplicate(b) \/ HandleDuplicate(b) \/ CheckSoftLimit(b) \/ RunTool(b)
          BY <1>0, <4>1 DEF FindDuplicate, HandleDuplicate, CheckSoftLimit, RunTool, Goto,
                            InCriticalSection
        <4>2. CASE ValidationFails(b) \/ ToolRaises(b) \/ LogError(b) \/ EmitRaises(b)
          BY <1>0, <4>2 DEF ValidationFails, ToolRaises, LogError, EmitRaises, Goto,
                            InCriticalSection
        <4>3. CASE ReleaseLock(b) \/ PutRaw(b) \/ LogCall(b) \/ Dispatch(b)
          BY <1>0, <4>3 DEF ReleaseLock, PutRaw, LogCall, Dispatch, Goto, InCriticalSection
        <4>4. CASE AddEventNode(b) \/ EmitDropped(b) \/ EmitOne(b)
          BY <4>4 DEF AddEventNode, EmitDropped, EmitOne, EmitAt, InCriticalSection
        <4>5. CASE FinishBuild(b) \/ PutNode(b) \/ PutEdge(b)
          BY <4>5 DEF FinishBuild, PutNode, PutEdge, InCriticalSection
        <4>6. QED
          BY <3>4, <4>1, <4>2, <4>3, <4>4, <4>5 DEF CallStep
      <3>5. QED
        BY <1>3, <3>1, <3>2, <3>3, <3>4 DEF StepOf, ActorStep
    <2>2. CASE AcquireLock(b)
      BY <1>0, <2>2 DEF AcquireLock
    <2>3. QED
      BY <2>1, <2>2 DEF LockHeld
  <1>4. ASSUME NEW p \in Proc, Crash(p) PROVE lock'[ProcOf[b]] = b
    <2>1. pc'[b] = pc[b] /\ pc[b] \in InCriticalSection
      BY <1>4 DEF Crash, InCriticalSection
    <2>2. Begun(b) /\ pc[b] \notin Ended
      BY <2>1 DEF Begun, InCriticalSection, Ended
    <2>3. ProcOf[b] # p
      BY <1>4, <2>1, <2>2 DEF Crash, InCriticalSection
    <2>4. QED
      BY <1>0, <1>4, <2>1, <2>3 DEF Crash, LockHeld
  <1>5. CASE UNCHANGED vars
    BY <1>5 DEF vars, LockHeld
  <1>6. QED
    BY <1>2, <1>3, <1>4, <1>5, NextCases

\* In one worker, what an actor inside the lock does not do itself changes
\* nothing of what it is working on.
LEMMA QuietForHolder ==
    ASSUME SameWorker, TypeOK, LockHeld, [Next]_vars,
           NEW b \in Actor, pc[b] \in InCriticalSection
    PROVE  \/ StepOf(b)
           \/ pc'[b] = "crashed"
           \/ /\ pc'[b] = pc[b] /\ graph'[b] = graph[b] /\ (b \in Call => Untouched(b))
              /\ UNCHANGED <<facts, events, edges>>
  <1>1. ASSUME NEW a \in Actor, StepOf(a), a # b
        PROVE  UNCHANGED <<facts, events, edges>>
    <2>1. pc[a] # "persist"
      BY <1>1, OneInside DEF InCriticalSection
    <2>2. CASE a \in Call /\ CallStep(a)
      BY <2>1, <2>2 DEF CallStep, FindDuplicate, HandleDuplicate, CheckSoftLimit, RunTool,
                  ValidationFails, ToolRaises, LogError, AddEventNode, EmitDropped, EmitOne,
                  EmitRaises, FinishBuild, PutNode, PutEdge, ReleaseLock, PutRaw, LogCall,
                  Dispatch, store
    <2>3. CASE ActorStep(a) \/ ReadDone(a)
      BY <2>3 DEF ActorStep, AcquireLock, LoadNodes, LoadEdges, StoreFails, ReadDone, store
    <2>4. QED
      BY <1>1, <2>2, <2>3 DEF StepOf
  <1>2. ASSUME NEW p \in Proc, Crash(p)
        PROVE  \/ pc'[b] = "crashed"
               \/ /\ pc'[b] = pc[b] /\ graph'[b] = graph[b] /\ (b \in Call => Untouched(b))
                  /\ UNCHANGED <<facts, events, edges>>
    BY <1>2 DEF Crash, Untouched, PayloadUntouched, store, local, walk, payload
  <1>3. CASE UNCHANGED vars
    BY <1>3 DEF vars, Untouched, PayloadUntouched, store, local, walk, payload
  <1>4. QED
    BY <1>1, <1>2, <1>3, OthersKept, NextCases

------------------------------------------------------------------------------
(* What an actor has loaded is what is stored.                              *)

LEMMA SearchFindsAll ==
    ASSUME NEW S, Cardinality(S) <= ScanLimit, NEW found \in Searched(S)
    PROVE  found = S
  BY DEF Searched

LEMMA LoadNodesSees ==
    ASSUME TypeOK, SearchesComplete, NEW a \in Actor, LoadNodes(a)
    PROVE  graph'[a] = FromSnapshot(facts', events', {})
  <1>1. PICK found \in Searched(StoredNodes) : graph' = [graph EXCEPT ![a] =
            FromSnapshot([f \in Fact |-> IF FactNode(f) \in found THEN facts[f] ELSE Missing],
                         {ev \in events : EventNode(ev) \in found}, {})]
    BY DEF LoadNodes
  <1>2. found = StoredNodes
    BY SearchFindsAll DEF SearchesComplete
  <1>3. \A f \in Fact : FactNode(f) \in StoredNodes <=> facts[f] # Missing
    BY DEF StoredNodes, FactNode, EventNode
  <1>4. [f \in Fact |-> IF FactNode(f) \in found THEN facts[f] ELSE Missing] = facts
    BY <1>2, <1>3 DEF TypeOK
  <1>5. {ev \in events : EventNode(ev) \in found} = events
    BY <1>2 DEF StoredNodes
  <1>6. QED
    BY <1>1, <1>4, <1>5 DEF TypeOK, LoadNodes, store

LEMMA LoadEdgesSees ==
    ASSUME TypeOK, SearchesComplete, NEW a \in Actor, LoadEdges(a), SeesStore(a)
    PROVE  graph'[a] = StoredGraph'
  <1>1. PICK found \in Searched(edges) : graph' = [graph EXCEPT ![a].edges = found]
    BY DEF LoadEdges
  <1>2. found = edges
    BY SearchFindsAll DEF SearchesComplete
  <1>3. graph[a] = FromSnapshot(facts, events, {})
    BY DEF LoadEdges, SeesStore
  <1>4. graph'[a] = [graph[a] EXCEPT !.edges = edges]
    BY <1>1, <1>2 DEF TypeOK
  <1>5. graph'[a] = FromSnapshot(facts, events, edges)
    BY <1>3, <1>4 DEF FromSnapshot
  <1>6. QED
    BY <1>5 DEF LoadEdges, StoredGraph, FromSnapshot, store

\* An upsert notes no repeat but that of the event it is made for.
LEMMA UpsertRepeats ==
    ASSUME NEW g \in Graph, NEW v \in Value, NEW ev \in EventId
    PROVE  UpsertFact(g, v, ev).repeats \subseteq g.repeats \cup {<<Canonical[v], ev>>}
  BY DEF UpsertFact, Graph

LEMMA SeesOwn ==
    ASSUME SearchesComplete, Inv, NEW c \in Call, SeesStore(c), CallStep(c)
    PROVE  SeesStore(c)'
  <1> c \in Actor /\ c \notin Reader
    BY IngestAssumption DEF Actor
  <1>0. TypeOK /\ PositionOK /\ ClosedAt(c) /\ DeltaAt(c)
    BY DEF Inv, ClosedInv, PayloadClosed
  <1>1. ASSUME pc'[c] \notin {"loadEdges", "read", "build", "persist"} PROVE SeesStore(c)'
    BY <1>1 DEF SeesStore
  <1>2. ASSUME pc[c] \in {"build", "persist"}, pc'[c] \in {"build", "persist"},
               graph'[c] = graph[c], UNCHANGED <<facts, events, edges>>
        PROVE  SeesStore(c)'
    BY <1>2 DEF SeesStore
  <1>3. CASE FindDuplicate(c) \/ HandleDuplicate(c) \/ CheckSoftLimit(c) \/ RunTool(c)
    BY <1>0, <1>1, <1>3 DEF FindDuplicate, HandleDuplicate, CheckSoftLimit, RunTool, Goto, TypeOK
  <1>4. CASE ValidationFails(c) \/ ToolRaises(c) \/ LogError(c) \/ EmitRaises(c)
    BY <1>0, <1>1, <1>4 DEF ValidationFails, ToolRaises, LogError, EmitRaises, Goto, TypeOK
  <1>5. CASE ReleaseLock(c) \/ PutRaw(c) \/ LogCall(c) \/ Dispatch(c)
    BY <1>0, <1>1, <1>5 DEF ReleaseLock, PutRaw, LogCall, Dispatch, Goto, TypeOK
  <1>6. CASE EmitDropped(c) \/ FinishBuild(c)
    BY <1>0, <1>2, <1>6 DEF EmitDropped, EmitAt, FinishBuild, Goto, TypeOK, store
  <1>7. CASE AddEventNode(c)
    <2>1. /\ pc[c] = "build" /\ pc'[c] = "build" /\ UNCHANGED <<facts, events, edges>>
          /\ graph'[c] = AddEvent(graph[c], <<c, item[c] + 1>>) /\ graph[c] \in Graph
      BY <1>0, <1>7 DEF AddEventNode, TypeOK, store
    <2>2. /\ graph'[c].facts = graph[c].facts /\ graph'[c].edges = graph[c].edges
          /\ graph'[c].repeats = graph[c].repeats /\ graph[c].events \subseteq graph'[c].events
      BY <2>1 DEF AddEvent, Graph
    <2>3. QED
      BY <2>1, <2>2 DEF SeesStore
  <1>8. CASE EmitOne(c)
    <2> DEFINE v == Current(c).value
               f == Canonical[v]
               g == UpsertFact(graph[c], v, <<c, item[c]>>)
    <2>1. /\ v \in Value /\ f \in Fact /\ EdgeTo(c, f) \in Edge
          /\ \A h \in Fact : graph'[c].facts[h] = graph[c].facts[h] \/ ~Knows(graph[c], h)
          /\ graph'[c].events = graph[c].events
          /\ graph'[c].edges = graph[c].edges \cup {EdgeTo(c, f)}
      BY <1>0, <1>8, EmitOneEffect
    <2>2. /\ EmitAt(c) /\ pc[c] = "build" /\ pc'[c] = "build"
          /\ UNCHANGED <<facts, events, edges>>
          /\ graph'[c] = AddEdge(g, EdgeTo(c, f)) /\ graph[c] \in Graph
      BY <1>0, <1>8 DEF EmitOne, EmitAt, TypeOK, store
    <2>3. <<c, item[c]>> \in EventId
      BY <1>0, <2>2, CurrentType
    <2>4. g.repeats \subseteq graph[c].repeats \cup {<<f, <<c, item[c]>> >>} /\ g \in Graph
      BY <2>1, <2>2, <2>3, UpsertRepeats, GraphOperators
    <2>5. graph'[c].repeats = g.repeats
      BY <2>2, <2>4 DEF AddEdge, Graph
    <2> HIDE DEF v, f, g
    <2>6. \A p \in graph'[c].repeats : p[2][1] = c
      BY <2>2, <2>4, <2>5 DEF SeesStore
    <2>7. \A h \in Fact : facts[h] # Missing => graph'[c].facts[h] = facts[h]
      BY <2>1, <2>2 DEF SeesStore, Knows
    <2>8. QED
      BY <2>1, <2>2, <2>6, <2>7 DEF SeesStore
  <1>9. CASE PutNode(c) \/ PutEdge(c)
    <2>1. pc[c] = "persist" /\ UNCHANGED <<pc, graph, ret>>
      BY <1>9 DEF PutNode, PutEdge, walk
    <2>2. HoldsAll(graph[c], c, ret[c])
      BY <1>0, <2>1, WalkedHolds DEF DeltaAt
    <2>3. FollowsWalk(c) /\ AddedBy(c)
      BY <1>0, <2>1, CallAdds DEF DeltaAt, Inv, ClosedInv
    <2>4. \A ev : EventNode(ev).kind = "event" /\ EventNode(ev).id = ev
      BY DEF EventNode
    <2>5. events' \subseteq graph[c].events
      BY <2>1, <2>2, <2>3, <2>4 DEF AddedBy, FollowsWalk, HoldsAll, SeesStore
    <2>6. edges' \subseteq graph[c].edges
      BY <2>1, <2>2, <2>3 DEF AddedBy, FollowsWalk, HoldsAll, SeesStore
    <2>7. \A f \in Fact : facts'[f] = facts[f] \/ facts'[f] = graph[c].facts[f]
      <3>1. CASE PutEdge(c)
        BY <3>1 DEF PutEdge
      <3>2. CASE PutNode(c)
        BY <1>0, <3>2 DEF PutNode, Put, TypeOK
      <3>3. QED
        BY <1>9, <3>1, <3>2
    <2>8. QED
      BY <2>1, <2>5, <2>6, <2>7 DEF SeesStore
  <1>10. QED
    BY <1>3, <1>4, <1>5, <1>6, <1>7, <1>8, <1>9 DEF CallStep

LEMMA SeesStep ==
    ASSUME SameWorker, SearchesComplete, Inv, LockHeld, NEW a \in Actor, SeesStore(a), [Next]_vars
    PROVE  SeesStore(a)'
  <1>0. TypeOK /\ pc \in [Actor -> Labels]
    BY DEF Inv, ClosedInv, TypeOK
  <1>1. ASSUME pc'[a] \notin {"loadEdges", "read", "build", "persist"} PROVE SeesStore(a)'
    BY <1>1 DEF SeesStore
  <1>2. CASE a \in Call /\ CallStep(a)
    BY <1>2, SeesOwn
  <1>3. CASE LoadNodes(a)
    <2>1. pc'[a] = "loadEdges"
      BY <1>0, <1>3 DEF LoadNodes, Goto
    <2>2. QED
      BY <1>0, <1>3, <2>1, LoadNodesSees DEF SeesStore, FromSnapshot
  <1>4. CASE LoadEdges(a)
    <2>1. pc'[a] \in {"build", "read"}
      BY <1>0, <1>4 DEF LoadEdges, Goto
    <2>2. graph'[a] = StoredGraph'
      BY <1>0, <1>4, LoadEdgesSees
    <2>3. /\ graph'[a].facts = facts' /\ graph'[a].events = events' /\ graph'[a].edges = edges'
          /\ graph'[a].repeats = {}
      BY <2>2 DEF StoredGraph, FromSnapshot
    <2>4. QED
      BY <2>1, <2>2, <2>3 DEF SeesStore
  <1>5. CASE AcquireLock(a) \/ StoreFails(a) \/ ReadDone(a)
    BY <1>0, <1>1, <1>5 DEF AcquireLock, StoreFails, ReadDone, Goto
  <1>6. CASE pc[a] \notin InCriticalSection /\ ~StepOf(a)
    <2>1. pc'[a] = pc[a] \/ pc'[a] = "crashed"
      <3>1. ASSUME NEW p \in Proc, Crash(p) PROVE pc'[a] = pc[a] \/ pc'[a] = "crashed"
        BY <3>1 DEF Crash
      <3>2. CASE UNCHANGED vars
        BY <3>2 DEF vars
      <3>3. QED
        BY <1>0, <1>6, <3>1, <3>2, OthersKept, NextCases
    <2>2. QED
      BY <1>1, <1>6, <2>1 DEF InCriticalSection
  <1>7. CASE pc'[a] = "crashed"
    BY <1>1, <1>7
  <1>8. CASE pc'[a] = pc[a] /\ graph'[a] = graph[a] /\ UNCHANGED <<facts, events, edges>>
    BY <1>8 DEF SeesStore, StoredGraph
  <1>9. QED
    BY <1>0, <1>2, <1>3, <1>4, <1>5, <1>6, <1>7, <1>8, QuietForHolder DEF StepOf, ActorStep

------------------------------------------------------------------------------
(* Facts are new once.                                                      *)

\* The facts a committed call reported as new are stored.
LEMMA NewIsStored ==
    ASSUME Inv, NEW c \in Call, NewAt(c), Committed(c)
    PROVE  \A f \in newFacts[c] : facts[f] # Missing
  <1>1. newFacts[c] \subseteq Fact
    BY DEF Inv, ClosedInv, TypeOK
  <1>2. Covered(graph[c], c) /\ Pending(c) = {}
    BY ElemsEmpty DEF Inv, DeltaAt, FollowsWalk, Pending, Committed
  <1>3. \A f \in newFacts[c] : Knows(graph[c], f)
    BY FactGraphAssumption DEF NewAt, Spellings, Knows
  <1>4. QED
    BY <1>1, <1>2, <1>3 DEF Covered

\* In one worker the set of committed calls grows when one leaves the lock,
\* and their new facts are settled.
LEMMA CommitStep ==
    ASSUME TypeOK, [Next]_vars, NEW d \in Call, Committed(d)'
    PROVE  (Committed(d) /\ newFacts'[d] = newFacts[d]) \/ ReleaseLock(d)
  <1>1. CASE CallStep(d) \/ ActorStep(d)
    <2> d \in Actor
      BY DEF Actor
    <2> USE DEF Committed
    <2>1. CASE FindDuplicate(d) \/ HandleDuplicate(d) \/ CheckSoftLimit(d) \/ RunTool(d)
      BY <2>1 DEF FindDuplicate, HandleDuplicate, CheckSoftLimit, RunTool, Goto, TypeOK
    <2>2. CASE ValidationFails(d) \/ ToolRaises(d) \/ LogError(d) \/ EmitRaises(d)
      BY <2>2 DEF ValidationFails, ToolRaises, LogError, EmitRaises, Goto, TypeOK
    <2>3. CASE AddEventNode(d) \/ EmitDropped(d) \/ EmitOne(d)
      BY <2>3 DEF AddEventNode, EmitDropped, EmitOne, EmitAt
    <2>4. CASE FinishBuild(d) \/ PutNode(d) \/ PutEdge(d)
      BY <2>4 DEF FinishBuild, PutNode, PutEdge, Goto, TypeOK
    <2>5. CASE PutRaw(d) \/ LogCall(d) \/ Dispatch(d)
      BY <2>5 DEF PutRaw, LogCall, Dispatch, Goto, TypeOK, local, payload
    <2>6. CASE AcquireLock(d) \/ LoadNodes(d) \/ LoadEdges(d) \/ StoreFails(d)
      BY <2>6 DEF AcquireLock, LoadNodes, LoadEdges, StoreFails, Goto, TypeOK
    <2>7. QED
      BY <1>1, <2>1, <2>2, <2>3, <2>4, <2>5, <2>6 DEF CallStep, ActorStep
  <1>2. CASE Untouched(d)
    BY <1>2 DEF Untouched, PayloadUntouched, Committed
  <1>3. CASE pc'[d] = "crashed"
    BY <1>3 DEF Committed
  <1>4. QED
    BY <1>1, <1>2, <1>3, StepFor

LEMMA NewEmitOne ==
    ASSUME Inv, NEW c \in Call, NewAt(c), SeesStore(c), EmitOne(c)
    PROVE  NewAt(c)'
  <1> DEFINE v == Current(c).value
             f == Canonical[v]
  <1>0. TypeOK /\ PositionOK /\ ClosedAt(c)
    BY DEF Inv, ClosedInv, PayloadClosed
  <1>1. /\ pc[c] = "build" /\ v \in Value /\ f \in Fact
        /\ \A h \in Fact : Knows(graph'[c], h) <=> Knows(graph[c], h) \/ h = f
        /\ \A h \in Fact : graph'[c].facts[h] = graph[c].facts[h]
                             \/ (h = f /\ graph'[c].facts[h] = v /\ ~Knows(graph[c], h))
    BY <1>0, EmitOneEffect
  <1>2. /\ EmitAt(c) /\ UNCHANGED <<pc, ret, facts>>
        /\ IF Knows(graph[c], f) THEN LinkFact(c, f) ELSE NewFact(c, f)
    BY DEF EmitOne, EmitAt, store
  <1>3. /\ item[c] \in DOMAIN ret[c] /\ occ[c] + 1 \in DOMAIN ret[c][item[c]]
        /\ v = ret[c][item[c]][occ[c] + 1].value
    BY <1>0, <1>2, CurrentType DEF Current
  <1>4. newFacts'[c] \subseteq newFacts[c] \cup (IF Knows(graph[c], f) THEN {} ELSE {f})
    BY <1>0, <1>2 DEF LinkFact, NewFact, TypeOK
  <1>5. newFacts[c] \subseteq Fact
    BY <1>0 DEF TypeOK
  <1> HIDE DEF v
  <1>6. v \in Spellings(ret[c], Canonical[v])
    BY <1>1, <1>3 DEF Spellings, Elems
  <1> HIDE DEF f
  <1>7. v \in Spellings(ret[c], f)
    BY <1>6 DEF f
  <1>8. \A h \in newFacts[c] : graph[c].facts[h] \in Spellings(ret[c], h) /\ Knows(graph[c], h)
    BY <1>1, FactGraphAssumption DEF NewAt, Spellings, Knows
  <1>9. ASSUME NEW h \in newFacts'[c] PROVE graph'[c].facts[h] \in Spellings(ret[c], h)
    <2>1. CASE h \in newFacts[c]
      BY <1>1, <1>5, <1>8, <2>1
    <2>2. CASE h = f /\ ~Knows(graph[c], f)
      <3>1. Knows(graph'[c], f)
        BY <1>1
      <3>2. graph'[c].facts[f] = v
        BY <1>1, <2>2, <3>1 DEF Knows
      <3>3. QED
        BY <1>7, <2>2, <3>2
    <2>3. QED
      BY <1>4, <1>9, <2>1, <2>2
  <1>10. ~Knows(graph[c], f) => facts[f] = Missing
    BY <1>1 DEF SeesStore, Knows
  <1>11. \A h \in newFacts'[c] : facts[h] = Missing
    BY <1>1, <1>4, <1>10 DEF NewAt
  <1>12. ret[c] \in Returns[ToolOf[c]]
    BY <1>1 DEF NewAt, InCriticalSection
  <1>13. \A h \in Fact : Knows(graph'[c], h) => facts[h] # Missing \/ h \in newFacts'[c]
    <2>1. newFacts'[c] = newFacts[c] \cup (IF Knows(graph[c], f) THEN {} ELSE {f})
      BY <1>0, <1>2 DEF LinkFact, NewFact, TypeOK
    <2>2. \A h \in Fact : Knows(graph[c], h) => facts[h] # Missing \/ h \in newFacts[c]
      BY <1>1 DEF NewAt
    <2>3. QED
      BY <1>1, <2>1, <2>2
  <1>14. QED
    BY <1>1, <1>2, <1>9, <1>11, <1>12, <1>13 DEF NewAt, Committed

\* The extraction is over: nobody else reports, or links to, what is new.
LEMMA NewFinishBuild ==
    ASSUME Inv, NEW c \in Call, \A d \in Call : NewAt(d), FinishBuild(c)
    PROVE  NewAt(c)'
  <1>1. /\ pc[c] = "build" /\ pc' = [pc EXCEPT ![c] = "persist"] /\ pc \in [Actor -> Labels]
        /\ UNCHANGED <<facts, edges, ret, graph, newFacts>> /\ Call \subseteq Actor
    BY DEF FinishBuild, Goto, store, walk, Inv, ClosedInv, TypeOK, Actor
  <1>2. \A f \in newFacts[c] : facts[f] = Missing
    BY <1>1 DEF NewAt
  <1>3. \A d \in Call \ {c} : Committed(d)' => newFacts[c] \cap newFacts[d] = {}
    BY <1>1, <1>2, NewIsStored DEF Committed
  <1>4. \A e \in edges : facts[e.target] # Missing
    BY EndpointsOfEdges DEF Inv, ClosedInv
  <1>5. QED
    BY <1>1, <1>2, <1>3, <1>4 DEF NewAt, Committed, InCriticalSection

LEMMA NewOwn ==
    ASSUME SameWorker, Inv, LockHeld, \A d \in Call : NewAt(d),
           NEW c \in Call, SeesStore(c), CallStep(c) \/ ActorStep(c)
    PROVE  NewAt(c)'
  <1> c \in Actor
    BY DEF Actor
  <1>0. TypeOK /\ pc \in [Actor -> Labels] /\ NewAt(c) /\ [Next]_vars
    BY DEF Inv, ClosedInv, TypeOK, Next
  <1> DEFINE Inside == {"acquire"} \cup InCriticalSection
  <1>1. ASSUME pc'[c] \notin Inside, ~Committed(c)' PROVE NewAt(c)'
    BY <1>1 DEF NewAt, InCriticalSection
  <1>2. CASE FindDuplicate(c) \/ HandleDuplicate(c) \/ CheckSoftLimit(c)
    BY <1>0, <1>1, <1>2 DEF FindDuplicate, HandleDuplicate, CheckSoftLimit, Goto, Committed,
                            InCriticalSection
  <1>3. CASE ValidationFails(c) \/ ToolRaises(c) \/ LogError(c)
    BY <1>0, <1>1, <1>3 DEF ValidationFails, ToolRaises, LogError, Goto, Committed,
                            InCriticalSection
  <1>4. CASE EmitRaises(c) \/ StoreFails(c)
    BY <1>0, <1>1, <1>4 DEF EmitRaises, StoreFails, Goto, Committed, InCriticalSection
  <1>5. CASE RunTool(c)
    <2>1. pc'[c] = "acquire" /\ ret'[c] \in Returns[ToolOf[c]]
      BY <1>0, <1>5 DEF RunTool, Goto, TypeOK
    <2>2. QED
      BY <2>1 DEF NewAt, Committed
  <1>6. CASE AcquireLock(c) \/ LoadNodes(c)
    <2>1. /\ pc[c] \in Inside /\ pc'[c] \in {"loadNodes", "loadEdges"} /\ UNCHANGED ret
      BY <1>0, <1>6 DEF AcquireLock, LoadNodes, Goto, local, walk, InCriticalSection
    <2>2. QED
      BY <1>0, <2>1 DEF NewAt, Committed
  <1>7. CASE LoadEdges(c)
    <2>1. /\ pc[c] = "loadEdges" /\ pc'[c] = "build" /\ UNCHANGED <<ret, newFacts>>
      BY <1>0, <1>7 DEF LoadEdges, Goto, walk, payload
    <2>2. newFacts[c] = {} /\ ret[c] \in Returns[ToolOf[c]]
      BY <1>0, <2>1 DEF Inv, ClosedInv, PayloadClosed, ClosedAt, BeforeBuild, NewAt,
                        InCriticalSection
    <2>3. \A f \in Fact : Knows(graph'[c], f) => facts'[f] # Missing
      <3>1. graph[c].facts = facts
        BY <2>1 DEF SeesStore, FromSnapshot
      <3>2. PICK found : graph' = [graph EXCEPT ![c] = [graph[c] EXCEPT !.edges = found]]
        BY <1>7 DEF LoadEdges
      <3>3. graph'[c].facts = facts' /\ facts' = facts
        BY <1>0, <1>7, <3>1, <3>2 DEF LoadEdges, store, TypeOK, Graph
      <3>4. QED
        BY <3>3 DEF Knows
    <2>4. QED
      BY <2>1, <2>2, <2>3 DEF NewAt, Committed
  <1>8. CASE AddEventNode(c)
    <2>1. /\ pc[c] = "build" /\ UNCHANGED <<pc, ret, newFacts, facts>>
          /\ graph'[c] = AddEvent(graph[c], <<c, item[c] + 1>>) /\ graph[c] \in Graph
      BY <1>0, <1>8 DEF AddEventNode, TypeOK, store
    <2>2. graph'[c].facts = graph[c].facts
      BY <2>1 DEF AddEvent, Graph
    <2>3. QED
      BY <1>0, <2>1, <2>2 DEF NewAt, Committed, Knows
  <1>9. CASE EmitDropped(c)
    BY <1>0, <1>9 DEF EmitDropped, EmitAt, store, payload, NewAt, Committed
  <1>10. CASE EmitOne(c)
    BY <1>0, <1>10, NewEmitOne
  <1>11. CASE FinishBuild(c)
    BY <1>11, NewFinishBuild
  <1>12. CASE PutNode(c) \/ PutEdge(c)
    <2>1. /\ pc[c] = "persist" /\ UNCHANGED <<pc, ret, graph, newFacts>>
      BY <1>12 DEF PutNode, PutEdge, walk
    <2>2. \A e \in edges' : e.event[1] # c => e \in edges
      <3>1. AddedBy(c) /\ FollowsWalk(c)
        BY <1>0, <1>12, <2>1, CallAdds DEF CallStep, Inv, ClosedInv, DeltaAt
      <3>2. \A e \in edges' \ edges : e.event[1] = c
        BY <3>1, EdgesOfOwner DEF AddedBy, FollowsWalk
      <3>3. QED
        BY <3>2
    <2>3. \A f \in Fact : facts[f] # Missing => facts'[f] # Missing
      BY <1>0, <1>12, CallAdds DEF CallStep, Inv, ClosedInv, StoreGrows, NodesStay
    <2>4. QED
      BY <1>0, <2>1, <2>2, <2>3 DEF NewAt, Committed
  <1>13. CASE ReleaseLock(c) \/ PutRaw(c) \/ LogCall(c) \/ Dispatch(c)
    <2>1. /\ pc[c] = "persist" \/ Committed(c)
          /\ pc'[c] \in {"raw", "dispatch", "done"} /\ UNCHANGED <<ret, graph, newFacts>>
      BY <1>0, <1>13 DEF ReleaseLock, PutRaw, LogCall, Dispatch, Goto, Committed, local, walk,
                         payload
    <2>2. QED
      BY <1>0, <2>1 DEF NewAt, InCriticalSection
  <1>14. QED
    BY <1>2, <1>3, <1>4, <1>5, <1>6, <1>7, <1>8, <1>9, <1>10, <1>11, <1>12, <1>13
       DEF CallStep, ActorStep

LEMMA NewStep ==
    ASSUME SameWorker, Inv, LockHeld, \A d \in Call : NewAt(d),
           NEW c \in Call, SeesStore(c), [Next]_vars
    PROVE  NewAt(c)'
  <1> c \in Actor /\ c \notin Reader
    BY IngestAssumption DEF Actor
  <1>0. TypeOK /\ NewAt(c)
    BY DEF Inv, ClosedInv
  <1>1. CASE CallStep(c) \/ ActorStep(c)
    BY <1>1, NewOwn
  <1>2. CASE pc'[c] = "crashed"
    BY <1>2 DEF NewAt, Committed, InCriticalSection
  <1>3. CASE ~(CallStep(c) \/ ActorStep(c)) /\ Untouched(c) /\ pc[c] \in InCriticalSection
             /\ pc'[c] # "crashed"
    <2>1. UNCHANGED <<facts, events, edges>>
      BY <1>0, <1>3, QuietForHolder DEF StepOf
    <2>2. \A d \in Call \ {c} : pc[c] = "persist" /\ Committed(d)' =>
              Committed(d) /\ newFacts'[d] = newFacts[d]
      <3>1. ASSUME NEW d \in Call \ {c}, pc[c] = "persist" PROVE ~ReleaseLock(d)
        BY <3>1, OneInside DEF ReleaseLock, InCriticalSection, Actor
      <3>2. QED
        BY <1>0, <3>1, CommitStep
    <2>3. QED
      BY <1>0, <1>3, <2>1, <2>2 DEF NewAt, Committed, Untouched, PayloadUntouched
  <1>4. CASE Untouched(c) /\ pc[c] \notin InCriticalSection
    BY <1>0, <1>4 DEF NewAt, Committed, Untouched, PayloadUntouched, InCriticalSection
  <1>5. QED
    BY <1>0, <1>1, <1>2, <1>3, <1>4, StepFor

\* A call is committed when it leaves the lock, and what it reports as new no
\* committed call has reported.
LEMMA NewOnceStep ==
    ASSUME Inv, FactIsNewOnce, \A d \in Call : NewAt(d), [Next]_vars
    PROVE  FactIsNewOnce'
  <1>1. ASSUME NEW c \in Call, NEW d \in Call, c # d, ReleaseLock(c), Committed(d)'
        PROVE  newFacts'[c] \cap newFacts'[d] = {}
    <2>1. pc[c] = "persist" /\ UNCHANGED newFacts /\ pc' = [pc EXCEPT ![c] = "raw"]
          /\ pc \in [Actor -> Labels] /\ d \in Actor
      BY <1>1 DEF ReleaseLock, Goto, local, payload, Inv, ClosedInv, TypeOK, Actor
    <2>2. Committed(d)
      BY <1>1, <2>1 DEF Committed
    <2>3. QED
      BY <1>1, <2>1, <2>2 DEF NewAt
  <1>2. ASSUME NEW c \in Call, NEW d \in Call, c # d, Committed(c)', Committed(d)'
        PROVE  newFacts'[c] \cap newFacts'[d] = {}
    <2>1. TypeOK
      BY DEF Inv, ClosedInv
    <2>2. CASE ReleaseLock(c) \/ ReleaseLock(d)
      BY <1>1, <1>2, <2>2
    <2>3. CASE ~ReleaseLock(c) /\ ~ReleaseLock(d)
      BY <1>2, <2>1, <2>3, CommitStep DEF FactIsNewOnce
    <2>4. QED
      BY <2>2, <2>3
  <1>3. QED
    BY <1>2 DEF FactIsNewOnce

------------------------------------------------------------------------------
(* Reads, and the invariant of one worker.                                  *)

\* What a read tool has loaded is a state of the session, in which no edge
\* lacks an end.
LEMMA LoadsStep ==
    ASSUME SameWorker, SearchesComplete, Inv, Inv', LockHeld, LoadsAreConsistent,
           \A a \in Actor : SeesStore(a), [Next]_vars
    PROVE  LoadsAreConsistent'
  <1> SUFFICES ASSUME NEW r \in Reader, pc'[r] \in {"read", "done"}
               PROVE  Closed(graph'[r])
    BY DEF LoadsAreConsistent
  <1>0. TypeOK /\ r \in Actor /\ r \notin Call
    BY IngestAssumption DEF Inv, ClosedInv, Actor
  <1>1. CASE LoadEdges(r)
    <2>1. graph'[r] = StoredGraph'
      BY <1>0, <1>1, LoadEdgesSees
    <2>2. QED
      BY <2>1 DEF Inv, ClosedInv, EdgeEndpointsStored
  <1>2. ASSUME pc[r] \in {"read", "done"}, graph'[r] = graph[r] PROVE Closed(graph'[r])
    BY <1>2 DEF LoadsAreConsistent
  <1>3. CASE AcquireLock(r) \/ LoadNodes(r) \/ StoreFails(r)
    BY <1>0, <1>3 DEF AcquireLock, LoadNodes, StoreFails, Goto, TypeOK
  <1>4. CASE ReadDone(r)
    BY <1>2, <1>4 DEF ReadDone, local
  <1>5. ASSUME NEW p \in Proc, Crash(p) PROVE pc[r] \in {"read", "done"} /\ graph'[r] = graph[r]
    BY <1>0, <1>5 DEF Crash, local
  <1>6. CASE UNCHANGED vars
    BY <1>2, <1>6 DEF vars, local
  <1>7. ASSUME NEW a \in Actor, StepOf(a), a # r PROVE Closed(graph'[r])
    BY <1>0, <1>2, <1>7, OthersKept
  <1>8. QED
    BY <1>0, <1>1, <1>2, <1>3, <1>4, <1>5, <1>6, <1>7, NextCases DEF StepOf, ActorStep

LEMMA SoloInvInit == Init => SoloInv
  <1> SUFFICES ASSUME Init PROVE SoloInv
    OBVIOUS
  <1>1. \A a \in Actor : pc[a] \in {"start", "acquire"} /\ (a \in Call => pc[a] = "start")
    BY DEF Init
  <1>2. LockHeld /\ \A a \in Actor : SeesStore(a)
    BY <1>1 DEF LockHeld, SeesStore, InCriticalSection
  <1>3. \A c \in Call : NewAt(c) /\ ~Committed(c)
    BY <1>1 DEF NewAt, Committed, InCriticalSection, Actor
  <1>4. QED
    BY <1>1, <1>2, <1>3 DEF SoloInv, FactIsNewOnce, LoadsAreConsistent, Actor

LEMMA SoloInvStep ==
    ASSUME SameWorker, SearchesComplete, Inv, Inv', SoloInv, [Next]_vars
    PROVE  SoloInv'
  <1>1. TypeOK /\ LockHeld /\ FactIsNewOnce /\ LoadsAreConsistent
        /\ (\A a \in Actor : SeesStore(a)) /\ (\A c \in Call : NewAt(c))
    BY DEF SoloInv, Inv, ClosedInv
  <1>2. LockHeld' /\ FactIsNewOnce' /\ LoadsAreConsistent'
    BY <1>1, LockHeldStep, NewOnceStep, LoadsStep
  <1>3. \A a \in Actor : SeesStore(a)'
    BY <1>1, SeesStep
  <1>4. \A c \in Call : NewAt(c)'
    BY <1>1, NewStep DEF Actor
  <1>5. QED
    BY <1>2, <1>3, <1>4 DEF SoloInv

\* Whoever is inside the "with" block holds its worker's lock, in any number of
\* workers and wherever they die: the lock excludes the threads of a worker.
THEOREM LockExcludes == Spec => []LockHeld
  <1>1. Init => LockHeld
    BY SoloInvInit DEF SoloInv
  <1>2. TypeOK /\ LockHeld /\ [Next]_vars => LockHeld'
    BY LockHeldStep
  <1>3. TypeOK /\ PositionOK => TypeOK
    OBVIOUS
  <1>4. QED
    BY <1>1, <1>2, <1>3, TypeCorrect, PTL DEF Spec

\* The inductive invariant of one worker.
THEOREM SoloInvHolds ==
    ASSUME SameWorker
    PROVE  Spec /\ []SearchesComplete => []SoloInv
  <1>1. Init => SoloInv
    BY SoloInvInit
  <1>2. SearchesComplete /\ Inv /\ Inv' /\ SoloInv /\ [Next]_vars => SoloInv'
    BY SoloInvStep
  <1>3. QED
    BY <1>1, <1>2, InvHolds, PTL DEF Spec

\* In one worker a fact is reported as new by at most one call.
THEOREM FactsAreNewOnce ==
    ASSUME SameWorker
    PROVE  Spec /\ []SearchesComplete => []FactIsNewOnce
  <1>1. SoloInv => FactIsNewOnce
    BY DEF SoloInv
  <1>2. QED
    BY <1>1, SoloInvHolds, PTL

\* In one worker a read tool loads no ghost nodes.
THEOREM ReadsAreConsistent ==
    ASSUME SameWorker
    PROVE  Spec /\ []SearchesComplete => []LoadsAreConsistent
  <1>1. SoloInv => LoadsAreConsistent
    BY DEF SoloInv
  <1>2. QED
    BY <1>1, SoloInvHolds, PTL

\* In one worker the graph a call leaves the lock with is the one that a reload
\* would build.
THEOREM ReloadsMatch ==
    ASSUME SameWorker
    PROVE  Spec /\ []SearchesComplete => []MemoryMatchesReload
  <1>1. Inv /\ SoloInv => MemoryMatchesReload
    <2> SUFFICES ASSUME Inv, SoloInv, NEW c \in Call, pc[c] = "persist",
                        payloadNodes[c] = <<>>, payloadEdges[c] = <<>>
                 PROVE  /\ [graph[c] EXCEPT !.repeats = {}] = StoredGraph
                        /\ \A p \in graph[c].repeats : p[2][1] = c
      BY DEF MemoryMatchesReload
    <2>1. SeesStore(c) /\ graph[c] \in Graph /\ facts \in [Fact -> Value \cup {Missing}]
      BY DEF SoloInv, Inv, ClosedInv, TypeOK, Actor
    <2>2. Covered(graph[c], c) /\ Pending(c) = {} /\ Elems(payloadEdges[c]) = {}
      BY ElemsEmpty DEF Inv, DeltaAt, FollowsWalk, Pending
    <2>3. graph[c].events = events /\ graph[c].edges = edges
      BY <2>1, <2>2 DEF Covered, SeesStore
    <2>4. \A f \in Fact : graph[c].facts[f] = facts[f]
      BY <2>1, <2>2 DEF Covered, SeesStore, Knows
    <2>5. graph[c].facts = facts
      BY <2>1, <2>4 DEF Graph
    <2>6. [graph[c] EXCEPT !.repeats = {}] = StoredGraph
      <3>1. ASSUME NEW g \in Graph
            PROVE  [g EXCEPT !.repeats = {}] = FromSnapshot(g.facts, g.events, g.edges)
        <4>1. PICK fs, evs, es, rs :
                  g = [facts |-> fs, events |-> evs, edges |-> es, repeats |-> rs]
          BY <3>1 DEF Graph
        <4>2. [g EXCEPT !.repeats = {}] = FromSnapshot(fs, evs, es)
          BY <4>1 DEF FromSnapshot
        <4>3. g.facts = fs /\ g.events = evs /\ g.edges = es
          BY <4>1
        <4>4. QED
          BY <4>2, <4>3
      <3>2. QED
        BY <2>1, <2>3, <2>5, <3>1 DEF StoredGraph
    <2>7. QED
      BY <2>1, <2>6 DEF SeesStore
  <1>2. QED
    BY <1>1, SoloInvHolds, InvHolds, PTL

\* In one worker the stored value of a fact never changes.
THEOREM ValuesStay ==
    ASSUME SameWorker
    PROVE  Spec /\ []SearchesComplete => StoredValueImmutable
  <1>1. ASSUME Inv, SoloInv, [Next]_vars, NEW f \in Fact, facts[f] # Missing
        PROVE  facts'[f] = facts[f]
    <2>1. ASSUME NEW c \in Call, PutNode(c) PROVE facts'[f] = facts[f]
      <3>1. SeesStore(c) /\ pc[c] = "persist" /\ facts \in [Fact -> Value \cup {Missing}]
        BY <1>1, <2>1 DEF SoloInv, PutNode, Inv, ClosedInv, TypeOK, Actor
      <3>2. graph[c].facts[f] = facts[f]
        BY <1>1, <3>1 DEF SeesStore
      <3>3. QED
        BY <2>1, <3>1, <3>2 DEF PutNode, Put
    <2>2. ASSUME NEW c \in Call, CallStep(c), ~PutNode(c) PROVE facts' = facts
      BY <2>2 DEF CallStep, FindDuplicate, HandleDuplicate, CheckSoftLimit, RunTool,
                  ValidationFails, ToolRaises, LogError, AddEventNode, EmitDropped, EmitOne,
                  EmitRaises, FinishBuild, PutEdge, ReleaseLock, PutRaw, LogCall, Dispatch, store
    <2>3. QED
      BY <1>1, <2>1, <2>2, OthersAddNothing, StepCases DEF store
  <1>2. Inv /\ SoloInv /\ [Next]_vars
            => [\A f \in Fact : facts[f] # Missing => facts'[f] = facts[f]]_vars
    BY <1>1
  <1>3. QED
    BY <1>2, SoloInvHolds, InvHolds, PTL DEF Spec, StoredValueImmutable

------------------------------------------------------------------------------
(* Ingest implements AtomicSession.                                         *)

\* The operators of the abstract session on graphs are those of the session.
LEMMA SameGraphOperators ==
    /\ Atomic!EmptyGraph = EmptyGraph
    /\ \A items, f : Atomic!Spellings(items, f) = Spellings(items, f)
    /\ \A g, f : Atomic!Knows(g, f) <=> Knows(g, f)
    /\ \A g, c, items : Atomic!HoldsAll(g, c, items) <=> HoldsAll(g, c, items)
    /\ \A g, h, c, items : Atomic!Grows(g, h, c, items) <=> Grows(g, h, c, items)
    /\ \A g : Atomic!Closed(g) <=> Closed(g)
  <1>1. Atomic!EmptyGraph = EmptyGraph
    BY DEF Atomic!EmptyGraph, EmptyGraph, Atomic!FromSnapshot, FromSnapshot
  <1>2. \A c, items : Atomic!EventsOf(c, items) = EventsOf(c, items)
    BY DEF Atomic!EventsOf, EventsOf
  <1>3. \A c, items : Atomic!EdgesOf(c, items) = EdgesOf(c, items)
    BY DEF Atomic!EdgesOf, EdgesOf, Atomic!EdgesSaid, EdgesSaid, Atomic!Elems, Elems
  <1>4. \A items, f : Atomic!Spellings(items, f) = Spellings(items, f)
    BY DEF Atomic!Spellings, Spellings, Atomic!Elems, Elems
  <1>5. \A g, f : Atomic!Knows(g, f) <=> Knows(g, f)
    BY DEF Atomic!Knows, Knows
  <1>6. \A g, c, items : Atomic!HoldsAll(g, c, items) <=> HoldsAll(g, c, items)
    BY <1>2, <1>3, <1>5 DEF Atomic!HoldsAll, HoldsAll
  <1>7. \A g, h, c, items : Atomic!Grows(g, h, c, items) <=> Grows(g, h, c, items)
    BY <1>2, <1>3, <1>5 DEF Atomic!Grows, Grows
  <1>8. \A g : Atomic!Closed(g) <=> Closed(g)
    BY <1>5 DEF Atomic!Closed, Closed, Atomic!GhostFacts, GhostFacts, Atomic!GhostEvents,
                GhostEvents
  <1>9. QED
    BY <1>1, <1>4, <1>5, <1>6, <1>7, <1>8

\* A graph without what some calls are putting.
Without(hidden, fs, evs, es, new) ==
    FromSnapshot([f \in Fact |-> IF \E c \in hidden : f \in new[c] THEN Missing ELSE fs[f]],
                 {ev \in evs : ev[1] \notin hidden},
                 {e \in es : e.event[1] \notin hidden})

Putting == {c \in Call : Persisting(c)}

LEMMA VisibleIs ==
    TypeOK => Visible = Without(Putting, facts, events, edges, newFacts)
  <1> SUFFICES ASSUME TypeOK PROVE Visible = Without(Putting, facts, events, edges, newFacts)
    OBVIOUS
  <1>1. \A ev \in events : ~Persisting(ev[1]) <=> ev[1] \notin Putting
    BY DEF TypeOK, EventId, Putting
  <1>2. \A e \in edges : ~Persisting(e.event[1]) <=> e.event[1] \notin Putting
    BY DEF TypeOK, Edge, EventId, Putting
  <1>3. \A f : (\E c \in Call : Persisting(c) /\ f \in newFacts[c])
                  <=> \E c \in Putting : f \in newFacts[c]
    BY DEF Putting
  <1>4. {ev \in events : ~Persisting(ev[1])} = {ev \in events : ev[1] \notin Putting}
    BY <1>1
  <1>5. {e \in edges : ~Persisting(e.event[1])} = {e \in edges : e.event[1] \notin Putting}
    BY <1>2
  <1>6. [f \in Fact |-> IF \E c \in Call : Persisting(c) /\ f \in newFacts[c]
                        THEN Missing ELSE facts[f]]
        = [f \in Fact |-> IF \E c \in Putting : f \in newFacts[c] THEN Missing ELSE facts[f]]
    BY <1>3
  <1>7. QED
    BY <1>4, <1>5, <1>6 DEF Visible, Without

LEMMA VisibleWillBe ==
    TypeOK' => Visible' = Without(Putting', facts', events', edges', newFacts')
  <1>1. (TypeOK => Visible = Without(Putting, facts, events, edges, newFacts))'
    BY VisibleIs, PTL
  <1>2. QED
    BY <1>1

LEMMA WithoutNone ==
    ASSUME NEW fs \in [Fact -> Value \cup {Missing}], NEW evs, NEW es, NEW new
    PROVE  Without({}, fs, evs, es, new) = FromSnapshot(fs, evs, es)
  BY DEF Without, FromSnapshot

\* In one worker at most one call is putting.
LEMMA OnePutting ==
    ASSUME SameWorker, LockHeld, NEW c \in Call, pc[c] \in InCriticalSection
    PROVE  Putting = IF Persisting(c) THEN {c} ELSE {}
  <1>1. \A d \in Call : Persisting(d) => d = c
    BY OneInside DEF Persisting, InCriticalSection, Actor
  <1>2. QED
    BY <1>1 DEF Putting

\* What calls are putting is settled: another step does not show.
LEMMA VisibleStays ==
    ASSUME TypeOK, TypeOK', UNCHANGED <<facts, events, edges>>, Putting' = Putting,
           \A c \in Putting : newFacts'[c] = newFacts[c]
    PROVE  Visible' = Visible
  <1>1. \A f : (\E c \in Putting : f \in newFacts'[c]) <=> \E c \in Putting : f \in newFacts[c]
    OBVIOUS
  <1>2. [f \in Fact |-> IF \E c \in Putting : f \in newFacts'[c] THEN Missing ELSE facts[f]]
        = [f \in Fact |-> IF \E c \in Putting : f \in newFacts[c] THEN Missing ELSE facts[f]]
    BY <1>1
  <1>3. Without(Putting, facts, events, edges, newFacts')
        = Without(Putting, facts, events, edges, newFacts)
    BY <1>2 DEF Without
  <1>4. QED
    BY <1>3, VisibleIs, VisibleWillBe

\* A read tool answers once, when it leaves the lock.
LEMMA AnswersStay ==
    ASSUME TypeOK, NEW a \in Actor, StepOf(a), ~ReadDone(a), NEW r \in Reader
    PROVE  /\ pc'[r] = "done" <=> pc[r] = "done"
           /\ pc[r] = "done" => graph'[r] = graph[r]
  <1>1. r \in Actor /\ r \notin Call
    BY IngestAssumption DEF Actor
  <1>2. CASE a # r
    BY <1>1, <1>2, OthersKept
  <1>3. CASE a = r
    <2>1. ActorStep(r)
      BY <1>1, <1>3 DEF StepOf
    <2>2. pc[r] # "done" /\ pc'[r] # "done"
      BY <1>1, <2>1 DEF ActorStep, AcquireLock, LoadNodes, LoadEdges, StoreFails, AtStore, Goto,
                        TypeOK
    <2>3. QED
      BY <2>2
  <1>4. QED
    BY <1>2, <1>3

\* Steps that neither enter or leave persist nor put anything.
Quiet(a) ==
    /\ UNCHANGED <<facts, events, edges>>
    /\ pc[a] # "persist" /\ pc'[a] # "persist"
    /\ pc'[a] \in PastPersist <=> pc[a] \in PastPersist

LEMMA CallIsQuiet ==
    ASSUME TypeOK, NEW c \in Call, CallStep(c),
           ~FinishBuild(c), ~PutNode(c), ~PutEdge(c), ~ReleaseLock(c)
    PROVE  Quiet(c)
  <1> c \in Actor
    BY DEF Actor
  <1>0. pc \in [Actor -> Labels]
    BY DEF TypeOK
  <1>1. CASE FindDuplicate(c) \/ HandleDuplicate(c) \/ CheckSoftLimit(c) \/ RunTool(c)
    BY <1>0, <1>1 DEF FindDuplicate, HandleDuplicate, CheckSoftLimit, RunTool, Goto, Quiet,
                      PastPersist, store
  <1>2. CASE ValidationFails(c) \/ ToolRaises(c) \/ LogError(c) \/ EmitRaises(c)
    BY <1>0, <1>2 DEF ValidationFails, ToolRaises, LogError, EmitRaises, EmitAt, Goto, Quiet,
                      PastPersist, store
  <1>3. CASE AddEventNode(c) \/ EmitDropped(c) \/ EmitOne(c)
    BY <1>0, <1>3 DEF AddEventNode, EmitDropped, EmitOne, EmitAt, Quiet, PastPersist, store
  <1>4. CASE PutRaw(c) \/ LogCall(c) \/ Dispatch(c)
    BY <1>0, <1>4 DEF PutRaw, LogCall, Dispatch, Goto, Quiet, PastPersist, store
  <1>5. QED
    BY <1>1, <1>2, <1>3, <1>4 DEF CallStep

LEMMA QuietStutters ==
    ASSUME TypeOK, TypeOK', NEW a \in Actor, StepOf(a), ~ReadDone(a), Quiet(a)
    PROVE  UNCHANGED Atomic!vars
  <1>1. \A c \in Call : c # a => pc'[c] = pc[c] /\ newFacts'[c] = newFacts[c]
    BY OthersKept DEF Untouched, PayloadUntouched, Actor
  <1>2. Putting' = Putting /\ \A c \in Putting : newFacts'[c] = newFacts[c]
    BY <1>1 DEF Putting, Persisting, Quiet
  <1>3. Visible' = Visible
    BY <1>2, VisibleStays DEF Quiet
  <1>4. {c \in Call : pc[c] \in PastPersist}' = {c \in Call : pc[c] \in PastPersist}
    BY <1>1 DEF Quiet
  <1>5. [r \in Reader |-> IF pc[r] = "done" THEN graph[r] ELSE None]'
        = [r \in Reader |-> IF pc[r] = "done" THEN graph[r] ELSE None]
    BY AnswersStay
  <1>6. QED
    BY <1>3, <1>4, <1>5 DEF Atomic!vars

\* The extraction is over, and nothing of it is stored yet: the facts it made
\* are new, and its events are its own.
LEMMA FinishBuildStutters ==
    ASSUME SameWorker, Inv, Inv', SoloInv, NEW c \in Call, FinishBuild(c)
    PROVE  UNCHANGED Atomic!vars
  <1>0. /\ TypeOK /\ TypeOK' /\ LockHeld /\ NewAt(c) /\ StoredAt(c)
        /\ Call \subseteq Actor
    BY DEF Inv, ClosedInv, SoloInv, Actor
  <1>1. /\ pc[c] = "build" /\ pc' = [pc EXCEPT ![c] = "persist"] /\ pc \in [Actor -> Labels]
        /\ UNCHANGED <<facts, events, edges, newFacts, graph>>
    BY <1>0 DEF FinishBuild, Goto, store, TypeOK
  <1>2. Putting = {}
    BY <1>0, <1>1, OnePutting DEF Persisting, InCriticalSection
  <1>3. Putting' = {c}
    <2>1. \A d \in Call : pc'[d] = "persist" <=> d = c \/ pc[d] = "persist"
      BY <1>0, <1>1
    <2>2. QED
      BY <1>2, <2>1 DEF Putting, Persisting
  <1>4. Visible = FromSnapshot(facts, events, edges)
    BY <1>0, <1>2, VisibleIs, WithoutNone DEF TypeOK
  <1>5. Visible' = Without({c}, facts, events, edges, newFacts)
    BY <1>0, <1>1, <1>3, VisibleWillBe
  <1>6. [f \in Fact |-> IF \E d \in {c} : f \in newFacts[d] THEN Missing ELSE facts[f]] = facts
    BY <1>0, <1>1 DEF NewAt, TypeOK
  <1>7. {ev \in events : ev[1] \notin {c}} = events /\ {e \in edges : e.event[1] \notin {c}} = edges
    BY <1>0, <1>1 DEF StoredAt, MayHaveStored
  <1>8. Visible' = Visible
    BY <1>4, <1>5, <1>6, <1>7 DEF Without
  <1>9. {d \in Call : pc[d] \in PastPersist}' = {d \in Call : pc[d] \in PastPersist}
    <2>1. \A d \in Call : pc'[d] \in PastPersist <=> pc[d] \in PastPersist
      BY <1>0, <1>1 DEF PastPersist
    <2>2. QED
      BY <2>1
  <1>10. [r \in Reader |-> IF pc[r] = "done" THEN graph[r] ELSE None]'
         = [r \in Reader |-> IF pc[r] = "done" THEN graph[r] ELSE None]
    <2>1. \A r \in Reader : pc'[r] = pc[r]
      BY <1>1, IngestAssumption DEF Actor
    <2>2. QED
      BY <1>1, <2>1
  <1>11. QED
    BY <1>8, <1>9, <1>10 DEF Atomic!vars

\* A put adds what is the call's own, or writes again what is stored already.
LEMMA PutStutters ==
    ASSUME SameWorker, Inv, Inv', SoloInv, NEW c \in Call, PutNode(c) \/ PutEdge(c)
    PROVE  UNCHANGED Atomic!vars
  <1>0. /\ TypeOK /\ TypeOK' /\ LockHeld /\ NewAt(c) /\ SeesStore(c)
        /\ c \in Actor
    BY DEF Inv, ClosedInv, SoloInv, Actor
  <1>1. /\ pc[c] = "persist" /\ UNCHANGED <<pc, graph, newFacts, ret>>
    BY DEF PutNode, PutEdge, walk
  <1>2. Putting = {c} /\ Putting' = {c}
    BY <1>0, <1>1, OnePutting DEF Persisting, InCriticalSection, Putting
  <1>3. FollowsWalk(c) /\ AddedBy(c) /\ StoreGrows
    BY <1>1, CallAdds DEF CallStep, Inv, ClosedInv, DeltaAt
  <1>4. {ev \in events' : ev[1] \notin {c}} = {ev \in events : ev[1] \notin {c}}
    <2>1. \A ev : EventNode(ev).kind = "event" /\ EventNode(ev).id = ev
      BY DEF EventNode
    <2>2. \A ev \in events' \ events : ev \in EventsOf(c, ret[c])
      BY <1>3, <2>1 DEF AddedBy, FollowsWalk
    <2>3. QED
      BY <1>3, <2>2 DEF EventsOf, StoreGrows, NodesStay
  <1>5. {e \in edges' : e.event[1] \notin {c}} = {e \in edges : e.event[1] \notin {c}}
    <2>1. \A e \in edges' \ edges : e.event[1] = c
      BY <1>3, EdgesOfOwner DEF AddedBy, FollowsWalk
    <2>2. QED
      BY <1>3, <2>1 DEF StoreGrows
  <1>6. \A f \in Fact : f \notin newFacts[c] => facts'[f] = facts[f]
    <2> SUFFICES ASSUME NEW f \in Fact, f \notin newFacts[c] PROVE facts'[f] = facts[f]
      OBVIOUS
    <2>1. CASE PutEdge(c)
      BY <2>1 DEF PutEdge
    <2>2. CASE PutNode(c)
      <3>1. facts'[f] = facts[f] \/ facts'[f] = graph[c].facts[f]
        BY <1>0, <2>2 DEF PutNode, Put, TypeOK
      <3>2. facts[f] # Missing => graph[c].facts[f] = facts[f]
        BY <1>0, <1>1 DEF SeesStore
      <3>3. facts[f] = Missing => graph[c].facts[f] = Missing
        BY <1>0, <1>1 DEF NewAt, Knows
      <3>4. QED
        BY <3>1, <3>2, <3>3
    <2>3. QED
      BY <2>1, <2>2
  <1>7. [f \in Fact |-> IF \E d \in {c} : f \in newFacts[d] THEN Missing ELSE facts'[f]]
        = [f \in Fact |-> IF \E d \in {c} : f \in newFacts[d] THEN Missing ELSE facts[f]]
    BY <1>6
  <1>8. Without({c}, facts', events', edges', newFacts)
        = Without({c}, facts, events, edges, newFacts)
    BY <1>4, <1>5, <1>7 DEF Without
  <1>9. Visible' = Visible
    BY <1>0, <1>1, <1>2, <1>8, VisibleIs, VisibleWillBe
  <1>10. QED
    BY <1>1, <1>9 DEF Atomic!vars

\* A call that leaves the lock, by the end of the block or by a failing store,
\* shows what it has put: a part of its result.
LEMMA LeavingShows ==
    ASSUME SameWorker, Inv, Inv', SoloInv, NEW c \in Call, pc[c] = "persist",
           NEW l \in PastPersist, pc' = [pc EXCEPT ![c] = l], UNCHANGED <<store, local>>,
           NEW items, items = ret[c]
    PROVE  /\ Visible' = StoredGraph
           /\ items \in Result[c]
           /\ Atomic!EndsWith(c, items)
  <1>0. /\ TypeOK /\ TypeOK' /\ LockHeld /\ NewAt(c) /\ SeesStore(c) /\ StoredAt(c)
        /\ Call \subseteq Actor /\ pc \in [Actor -> Labels] /\ c \in Actor
        /\ UNCHANGED <<facts, events, edges, graph, newFacts, ret>>
    BY DEF Inv, ClosedInv, SoloInv, Actor, TypeOK, store, local, walk, payload
  <1>1. \A a \in Actor : a # c => pc'[a] = pc[a]
    BY <1>0
  <1>2. pc'[c] = l /\ l # "persist"
    BY <1>0 DEF PastPersist
  <1>3. Putting = {c}
    BY <1>0, OnePutting DEF Persisting, InCriticalSection
  <1>4. Putting' = {}
    BY <1>0, <1>1, <1>2, <1>3 DEF Putting, Persisting
  <1>5. Visible = Without({c}, facts, events, edges, newFacts)
    BY <1>0, <1>3, VisibleIs
  <1>6. Visible' = StoredGraph
    BY <1>0, <1>4, VisibleWillBe, WithoutNone DEF StoredGraph, TypeOK
  <1>7. /\ Visible.events = {ev \in events : ev[1] # c}
        /\ Visible.edges = {e \in edges : e.event[1] # c}
        /\ \A f \in Fact : Visible.facts[f] = IF f \in newFacts[c] THEN Missing ELSE facts[f]
    BY <1>5 DEF Without, FromSnapshot
  <1>8. Visible'.events = events /\ Visible'.edges = edges /\ Visible'.facts = facts
    BY <1>6 DEF StoredGraph, FromSnapshot
  <1>9. Grows(Visible, Visible', c, items)
    <2>1. events \subseteq {ev \in events : ev[1] # c} \cup EventsOf(c, ret[c])
      BY <1>0 DEF StoredAt
    <2>2. edges \subseteq {e \in edges : e.event[1] # c} \cup EdgesOf(c, ret[c])
      BY <1>0 DEF StoredAt
    <2>3. \A f \in Fact : Knows(Visible, f) => Knows(Visible', f)
      BY <1>7, <1>8 DEF Knows
    <2>4. QED
      BY <1>7, <1>8, <2>1, <2>2, <2>3 DEF Grows
  <1>10. Atomic!TakesValues(Visible, Visible', items)
    <2> SUFFICES ASSUME NEW f \in Fact
                 PROVE  \/ Visible'.facts[f] = Visible.facts[f]
                        \/ ~Knows(Visible, f) /\ Visible'.facts[f] \in Spellings(items, f)
      BY SameGraphOperators DEF Atomic!TakesValues
    <2>1. CASE f \in newFacts[c] /\ facts[f] # Missing
      <3>1. facts[f] = graph[c].facts[f]
        BY <1>0, <2>1 DEF SeesStore
      <3>2. facts[f] \in Spellings(ret[c], f)
        BY <1>0, <2>1, <3>1 DEF NewAt
      <3>3. QED
        BY <1>7, <1>8, <2>1, <3>2 DEF Knows
    <2>2. CASE ~(f \in newFacts[c] /\ facts[f] # Missing)
      BY <1>7, <1>8, <2>2
    <2>3. QED
      BY <2>1, <2>2
  <1>11. items \in Result[c]
    BY <1>0 DEF NewAt, InCriticalSection, Result
  <1>12. c \notin {d \in Call : pc[d] \in PastPersist}
    BY DEF PastPersist
  <1>13. {d \in Call : pc[d] \in PastPersist}' = {d \in Call : pc[d] \in PastPersist} \cup {c}
    <2>1. \A d \in Call : pc'[d] \in PastPersist <=> d = c \/ pc[d] \in PastPersist
      BY <1>0, <1>1, <1>2
    <2>2. QED
      BY <2>1
  <1>14. [r \in Reader |-> IF pc[r] = "done" THEN graph[r] ELSE None]'
         = [r \in Reader |-> IF pc[r] = "done" THEN graph[r] ELSE None]
    <2>1. \A r \in Reader : pc'[r] = pc[r]
      BY <1>1, IngestAssumption DEF Actor
    <2>2. QED
      BY <1>0, <2>1
  <1>15. QED
    BY <1>6, <1>9, <1>10, <1>11, <1>12, <1>13, <1>14, SameGraphOperators DEF Atomic!EndsWith

LEMMA ReleaseIngests ==
    ASSUME SameWorker, Inv, Inv', SoloInv, NEW c \in Call, ReleaseLock(c)
    PROVE  Atomic!Ingest(c)
  <1>1. /\ pc[c] = "persist" /\ pc' = [pc EXCEPT ![c] = "raw"] /\ "raw" \in PastPersist
        /\ payloadNodes[c] = <<>> /\ payloadEdges[c] = <<>> /\ UNCHANGED <<store, local>>
    BY DEF ReleaseLock, Goto, PastPersist
  <1> PICK items : items = ret[c]
    OBVIOUS
  <1>2. Visible' = StoredGraph /\ items \in Result[c] /\ Atomic!EndsWith(c, items)
    BY <1>1, LeavingShows
  <1>3. HoldsAll(StoredGraph, c, ret[c])
    BY <1>1, CommittedHolds DEF Inv, ClosedInv, DeltaAt
  <1>4. Atomic!HoldsAll(Visible', c, items)
    BY <1>2, <1>3, SameGraphOperators
  <1>5. QED
    BY <1>2, <1>4 DEF Atomic!Ingest

\* Whatever a call is putting, the graph without it is closed: the edges of the
\* others lead to facts that are not new to it.
LEMMA VisibleIsClosed ==
    ASSUME SameWorker, Inv, SoloInv
    PROVE  Closed(Visible)
  <1>0. TypeOK /\ LockHeld /\ \A c \in Call : NewAt(c)
    BY DEF Inv, ClosedInv, SoloInv
  <1>1. \A e \in edges : facts[e.target] # Missing /\ e.event \in events /\ e.target \in Fact
                         /\ e.event[1] \in Call
    BY EndpointsOfEdges DEF Inv, ClosedInv, TypeOK, Edge, EventId
  <1>2. Visible = Without(Putting, facts, events, edges, newFacts)
    BY <1>0, VisibleIs
  <1>3. /\ Visible.events = {ev \in events : ev[1] \notin Putting}
        /\ Visible.edges = {e \in edges : e.event[1] \notin Putting}
        /\ \A f \in Fact : Visible.facts[f] = IF \E c \in Putting : f \in newFacts[c]
                                              THEN Missing ELSE facts[f]
    BY <1>2 DEF Without, FromSnapshot
  <1>4. \A c \in Putting : \A e \in edges : e.event[1] # c => e.target \notin newFacts[c]
    BY <1>0 DEF NewAt, Putting, Persisting
  <1>5. \A e \in Visible.edges : Knows(Visible, e.target) /\ e.event \in Visible.events
    BY <1>1, <1>3, <1>4 DEF Knows
  <1>6. QED
    BY <1>5 DEF Closed, GhostFacts, GhostEvents

\* A store that fails breaks a call off that is not past persist: it leaves a
\* part of its result, or has put nothing yet.
LEMMA FailBreaksOff ==
    ASSUME SameWorker, Inv, Inv', SoloInv, SoloInv', NEW c \in Call, StoreFails(c),
           pc[c] \notin PastPersist
    PROVE  Atomic!BreakOff(c)
  <1>0. /\ TypeOK /\ TypeOK' /\ Call \subseteq Actor /\ pc \in [Actor -> Labels]
        /\ pc' = [pc EXCEPT ![c] = "aborted"] /\ "aborted" \in PastPersist
        /\ UNCHANGED <<store, local, facts, events, edges, graph, newFacts, ret>>
    BY DEF StoreFails, Goto, Inv, ClosedInv, TypeOK, Actor, PastPersist, store, local, walk,
           payload
  <1>1. Closed(Visible')
    <2>1. (SameWorker /\ Inv /\ SoloInv => Closed(Visible))'
      BY VisibleIsClosed, PTL
    <2>2. QED
      BY <2>1
  <1>2. CASE pc[c] = "persist"
    <2> PICK items : items = ret[c]
      OBVIOUS
    <2>1. items \in Result[c] /\ Atomic!EndsWith(c, items)
      BY <1>0, <1>2, LeavingShows
    <2>2. QED
      BY <1>1, <2>1, SameGraphOperators DEF Atomic!BreakOff
  <1>3. CASE pc[c] # "persist"
    <2>1. Putting' = Putting
      <3>1. \A d \in Call : pc'[d] = "persist" <=> pc[d] = "persist"
        BY <1>0, <1>3
      <3>2. QED
        BY <3>1 DEF Putting, Persisting
    <2>2. Visible' = Visible
      BY <1>0, <2>1, VisibleStays
    <2>3. Grows(Visible, Visible', c, <<>>) /\ Atomic!TakesValues(Visible, Visible', <<>>)
      BY <2>2 DEF Grows, Atomic!TakesValues
    <2>4. {d \in Call : pc[d] \in PastPersist}' = {d \in Call : pc[d] \in PastPersist} \cup {c}
      <3>1. \A d \in Call : pc'[d] \in PastPersist <=> d = c \/ pc[d] \in PastPersist
        BY <1>0
      <3>2. QED
        BY <3>1
    <2>5. [r \in Reader |-> IF pc[r] = "done" THEN graph[r] ELSE None]'
          = [r \in Reader |-> IF pc[r] = "done" THEN graph[r] ELSE None]
      <3>1. \A r \in Reader : pc'[r] = pc[r]
        BY <1>0, IngestAssumption DEF Actor
      <3>2. QED
        BY <1>0, <3>1
    <2>6. Atomic!EndsWith(c, <<>>)
      BY <2>3, <2>4, <2>5, SameGraphOperators DEF Atomic!EndsWith
    <2>7. QED
      BY <1>1, <2>6, SameGraphOperators DEF Atomic!BreakOff
  <1>4. QED
    BY <1>2, <1>3

\* A read tool answers from the state it loaded, which nobody has changed.
LEMMA ReadReads ==
    ASSUME SameWorker, Inv, Inv', SoloInv, NEW r \in Reader, ReadDone(r)
    PROVE  Atomic!Read(r)
  <1>0. /\ TypeOK /\ TypeOK' /\ LockHeld /\ SeesStore(r) /\ r \in Actor /\ r \notin Call
        /\ pc \in [Actor -> Labels] /\ pc[r] = "read" /\ pc' = [pc EXCEPT ![r] = "done"]
        /\ UNCHANGED <<facts, events, edges, graph, newFacts>>
    BY IngestAssumption DEF ReadDone, Goto, Inv, ClosedInv, TypeOK, SoloInv, Actor, store, local,
                            payload
  <1>1. Putting = {}
    BY <1>0, OneInside DEF Putting, Persisting, InCriticalSection, Actor
  <1>2. \A a \in Actor : a # r => pc'[a] = pc[a]
    BY <1>0
  <1>3. Putting' = Putting
    BY <1>0, <1>2 DEF Putting, Persisting, Actor
  <1>4. Visible = graph[r]
    <2>1. facts \in [Fact -> Value \cup {Missing}]
      BY <1>0 DEF TypeOK
    <2>2. Visible = StoredGraph
      BY <1>0, <1>1, <2>1, VisibleIs, WithoutNone DEF StoredGraph
    <2>3. QED
      BY <1>0, <2>2 DEF SeesStore
  <1>5. Visible' = Visible
    BY <1>0, <1>3, VisibleStays
  <1>6. {c \in Call : pc[c] \in PastPersist}' = {c \in Call : pc[c] \in PastPersist}
    BY <1>0, <1>2 DEF Actor
  <1> DEFINE answer == [s \in Reader |-> IF pc[s] = "done" THEN graph[s] ELSE None]
  <1>7. answer[r] = None
    BY <1>0
  <1>8. answer' = [answer EXCEPT ![r] = graph[r]]
    BY <1>0, <1>2 DEF Actor
  <1>9. QED
    BY <1>4, <1>5, <1>6, <1>7, <1>8 DEF Atomic!Read

LEMMA AtomicInit == Init => Atomic!Init
  <1> SUFFICES ASSUME Init PROVE Atomic!Init
    OBVIOUS
  <1>1. \A a \in Actor : pc[a] \in {"start", "acquire"}
    BY DEF Init
  <1>2. Putting = {} /\ {c \in Call : pc[c] \in PastPersist} = {}
    BY <1>1 DEF Putting, Persisting, PastPersist, Actor
  <1>3. Visible = EmptyGraph
    <2>1. TypeOK
      BY InitType
    <2>2. Visible = FromSnapshot(facts, events, edges)
      BY <1>2, <2>1, VisibleIs, WithoutNone DEF TypeOK
    <2>3. QED
      BY <2>2 DEF Init, EmptyGraph, FromSnapshot
  <1>4. [r \in Reader |-> IF pc[r] = "done" THEN graph[r] ELSE None] = [r \in Reader |-> None]
    BY <1>1 DEF Actor
  <1>5. QED
    BY <1>2, <1>3, <1>4, SameGraphOperators DEF Atomic!Init

LEMMA AtomicStep ==
    ASSUME SameWorker, ~MayCrash, Inv, Inv', SoloInv, SoloInv', [Next]_vars
    PROVE  [Atomic!Next]_(Atomic!vars)
  <1>0. TypeOK /\ TypeOK' /\ pc \in [Actor -> Labels] /\ Call \cap Reader = {}
    BY IngestAssumption DEF Inv, ClosedInv, TypeOK
  <1>1. ASSUME NEW c \in Call, CallStep(c) PROVE [Atomic!Next]_(Atomic!vars)
    <2>1. CASE FinishBuild(c)
      BY <2>1, FinishBuildStutters
    <2>2. CASE PutNode(c) \/ PutEdge(c)
      BY <2>2, PutStutters
    <2>3. CASE ReleaseLock(c)
      BY <2>3, ReleaseIngests DEF Atomic!Next
    <2>4. CASE ~FinishBuild(c) /\ ~PutNode(c) /\ ~PutEdge(c) /\ ~ReleaseLock(c)
      <3>1. c \in Actor /\ StepOf(c) /\ Quiet(c)
        BY <1>0, <1>1, <2>4, CallIsQuiet DEF StepOf, Actor
      <3>2. ~ReadDone(c)
        <4>1. CallStep(c) => pc[c] # "read"
          BY DEF CallStep, FindDuplicate, HandleDuplicate, CheckSoftLimit, RunTool,
                 ValidationFails, ToolRaises, LogError, AddEventNode, EmitDropped, EmitOne,
                 EmitRaises, EmitAt, FinishBuild, PutNode, PutEdge, ReleaseLock, PutRaw,
                 LogCall, Dispatch
        <4>2. QED
          BY <1>1, <4>1 DEF ReadDone
      <3>3. QED
        BY <1>0, <3>1, <3>2, QuietStutters
    <2>5. QED
      BY <2>1, <2>2, <2>3, <2>4
  <1>2. ASSUME NEW a \in Actor, ActorStep(a) PROVE [Atomic!Next]_(Atomic!vars)
    <2>0. StepOf(a) /\ ~ReadDone(a)
      BY <1>2 DEF StepOf, ActorStep, AcquireLock, LoadNodes, LoadEdges, StoreFails, ReadDone,
                  AtStore
    <2>1. CASE ~StoreFails(a)
      <3>1. Quiet(a)
        BY <1>0, <1>2, <2>1 DEF ActorStep, AcquireLock, LoadNodes, LoadEdges, Goto, Quiet,
                                PastPersist, store
      <3>2. QED
        BY <1>0, <2>0, <3>1, QuietStutters
    <2>2. CASE StoreFails(a) /\ a \in Call /\ pc[a] \notin PastPersist
      BY <2>2, FailBreaksOff DEF Atomic!Next
    <2>3. CASE StoreFails(a) /\ a \in Call /\ pc[a] \in PastPersist
      <3>1. Quiet(a)
        BY <1>0, <2>3 DEF StoreFails, Goto, Quiet, PastPersist, store
      <3>2. QED
        BY <1>0, <2>0, <3>1, QuietStutters
    <2>4. CASE StoreFails(a) /\ a \in Reader
      <3>1. /\ pc' = [pc EXCEPT ![a] = "aborted"] /\ a \notin Call
            /\ UNCHANGED <<facts, events, edges, graph, newFacts>>
        BY <1>0, <2>4 DEF StoreFails, Goto, store, local, payload
      <3>2. \A c \in Call : pc'[c] = pc[c]
        BY <1>0, <3>1 DEF Actor
      <3>3. Visible' = Visible
        BY <1>0, <3>1, <3>2, VisibleStays DEF Putting, Persisting
      <3>4. {c \in Call : pc[c] \in PastPersist}' = {c \in Call : pc[c] \in PastPersist}
        BY <3>2
      <3>5. [r \in Reader |-> IF pc[r] = "done" THEN graph[r] ELSE None]'
            = [r \in Reader |-> IF pc[r] = "done" THEN graph[r] ELSE None]
        BY <1>0, <2>0, AnswersStay
      <3>6. QED
        BY <3>3, <3>4, <3>5 DEF Atomic!vars
    <2>5. QED
      BY <2>1, <2>2, <2>3, <2>4 DEF Actor
  <1>3. ASSUME NEW r \in Reader, ReadDone(r) PROVE [Atomic!Next]_(Atomic!vars)
    BY <1>3, ReadReads DEF Atomic!Next
  <1>4. CASE UNCHANGED vars
    <2>1. UNCHANGED <<facts, events, edges, pc, graph, newFacts>>
      BY <1>4 DEF vars, store, local, payload
    <2>2. Visible' = Visible
      BY <1>0, <2>1, VisibleStays DEF Putting, Persisting
    <2>3. QED
      BY <2>1, <2>2 DEF Atomic!vars
  <1>5. ASSUME NEW p \in Proc PROVE ~Crash(p)
    BY DEF Crash
  <1>6. QED
    BY <1>1, <1>2, <1>3, <1>4, <1>5, StepCases DEF OtherStep

\* Unless it dies, one worker's session is as good as atomic: ingests and reads
\* are single steps, and a store that fails leaves a part of a result with no
\* edge that lacks an end.
THEOREM AtomicAsPromised ==
    ASSUME SameWorker, ~MayCrash
    PROVE  Spec /\ []SearchesComplete => ImplementsAtomic
  <1>1. Inv /\ Inv' /\ SoloInv /\ SoloInv' /\ [Next]_vars => [Atomic!Next]_(Atomic!vars)
    BY AtomicStep
  <1>2. QED
    BY <1>1, AtomicInit, InvHolds, SoloInvHolds, PTL DEF Spec, ImplementsAtomic, Atomic!Spec

===============================================================================
