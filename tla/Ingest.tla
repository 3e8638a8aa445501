-------------------------------- MODULE Ingest --------------------------------
(****************************************************************************)
(* One session of the pinboard: calls of sync @pin tools (decorator.py) and *)
(* read tools (tools.py, _graph) run concurrently in the threads of one or  *)
(* more worker processes that share a key-value store (store.py).           *)
(*                                                                          *)
(* Every store operation is a step of its own; a process may crash between  *)
(* any two steps and a store operation may raise.  The only coordination is *)
(* the per-process session lock (session.py, lock_for).                     *)
(****************************************************************************)
EXTENDS FactGraph, FiniteSets

CONSTANTS
    Reader,         \* calls of read tools
    Proc, ProcOf,   \* worker processes; the one an actor's thread belongs to
    Tool, ToolOf,   \* @pin tools; the one a call invokes
    Args, ArgsOf,   \* canonical argument strings; those of a call
    Policy,         \* on_duplicate of each tool
    StoreRaw,       \* the tools pinned with store_raw=True
    Returns,        \* validated results each tool may return: sequences of items
    Time,           \* readings of the clock
    ScanLimit,      \* items a search of the store returns at most
    None,
    MayCrash, StoreMayFail

Actor == Call \cup Reader

ASSUME IngestAssumption ==
    /\ Call \cap Reader = {}
    /\ ProcOf \in [Actor -> Proc]
    /\ ToolOf \in [Call -> Tool]
    /\ ArgsOf \in [Call -> Args]
    /\ Policy \in [Tool -> {"always", "skip", "cache"}]
    /\ StoreRaw \subseteq Tool
    /\ \A t \in Tool : Returns[t] \subseteq Seq(Seq(Occurrence))
    /\ None \notin Actor
    /\ None \notin EventId
    /\ ScanLimit \in Nat \ {0}
    /\ MayCrash \in BOOLEAN /\ StoreMayFail \in BOOLEAN

VARIABLES
    facts,      \* node items of kind "fact": fact id -> stored value
    events,     \* node items of kind "event"
    edges,      \* edge items; the key determines the contents
    raws,       \* events with a raw_events item
    log,        \* tool_calls items
    lock,       \* holder of each process's session lock
    pc,         \* where each actor stands
    ret,        \* the validated items of a call
    item, occ,  \* the item of it, and occurrence of that, extraction has reached
    graph,      \* graph an actor loaded, and a call then mutates
    payloadNodes, payloadEdges, \* what persist_delta still has to put
    newFacts,       \* facts a call created
    linkedFacts,    \* existing facts it linked to, to be put again
    delivered   \* ingest notifications of each process, in dispatch order

store == <<facts, events, edges, raws, log>>
walk == <<ret, item, occ>>
payload == <<payloadNodes, payloadEdges, newFacts, linkedFacts>>
local == <<walk, graph, payload>>
vars == <<store, lock, pc, local, delivered>>

------------------------------------------------------------------------------
Record == [tool : Tool, args : Args, time : Time,
           event : EventId \cup {None}, summary : {"ok", "duplicate", "error"}]

\* The key of a record is "{timestamp}|{tool_name}".
SameKey(r, s) == r.time = s.time /\ r.tool = s.tool

PersistToolCall(r) == log' = {s \in log : ~SameKey(r, s)} \cup {r}

BuildRecord(c, t, ev, summary) ==
    [tool |-> ToolOf[c], args |-> ArgsOf[c], time |-> t,
     event |-> ev, summary |-> summary]

\* store.search: the items under a namespace, or as many as _SCAN_LIMIT of
\* them; which ones those are is up to the store.
Searched(items) ==
    IF Cardinality(items) <= ScanLimit THEN {items}
    ELSE {found \in SUBSET items : Cardinality(found) = ScanLimit}

\* Mutant: the summary of a record is not looked at.
Matching_AnySummary(c, records) ==
    {r \in records : r.tool = ToolOf[c] /\ r.args = ArgsOf[c]}

\* Records a duplicate check of call c accepts as the original.
Matching(c, records) == {r \in records : /\ r.tool = ToolOf[c]
                                         /\ r.args = ArgsOf[c]
                                         /\ r.summary = "ok"}

FirstEvent(c) == IF ret[c] = <<>> THEN None ELSE <<c, 1>>

\* Extraction of the current item is over (or no item was begun).
ItemDone(c) == item[c] > 0 => occ[c] = Len(ret[c][item[c]])

Goto(a, l) == pc' = [pc EXCEPT ![a] = l]

\* __exit__ of the "with lock_for(...)" block, if the actor is inside it.
Unlock(a) ==
    lock' = [p \in Proc |-> IF lock[p] = a THEN None ELSE lock[p]]

InCriticalSection == {"loadNodes", "loadEdges", "build", "persist", "read"}
Ended == {"skipped", "raised", "rejected", "done", "aborted", "crashed"}
Labels == {"start", "duplicate", "softLimit", "run", "logError", "acquire", "raw",
           "dispatch"}
              \cup InCriticalSection \cup Ended

------------------------------------------------------------------------------
Init ==
    /\ facts = EmptyGraph.facts
    /\ events = {}
    /\ edges = {}
    /\ raws = {}
    /\ log = {}
    /\ lock = [p \in Proc |-> None]
    /\ pc = [a \in Actor |-> IF a \in Call THEN "start" ELSE "acquire"]
    /\ ret = [c \in Call |-> <<>>]
    /\ item = [c \in Call |-> 0]
    /\ occ = [c \in Call |-> 0]
    /\ graph = [a \in Actor |-> EmptyGraph]
    /\ payloadNodes = [c \in Call |-> <<>>]
    /\ payloadEdges = [c \in Call |-> <<>>]
    /\ newFacts = [c \in Call |-> {}]
    /\ linkedFacts = [c \in Call |-> <<>>]
    /\ delivered = [p \in Proc |-> <<>>]

------------------------------------------------------------------------------
(* Before the lock: duplicate check, the tool itself, validation.           *)

FindDuplicate(c) ==
    /\ pc[c] = "start"
    /\ \E records \in Searched(log) :
          Goto(c, IF Policy[ToolOf[c]] # "always" /\ Matching(c, records) # {}
                  THEN "duplicate" ELSE "run")
    /\ UNCHANGED <<store, lock, local, delivered>>

HandleDuplicate(c) ==
    /\ pc[c] = "duplicate"
    /\ \E t \in Time : PersistToolCall(BuildRecord(c, t, None, "duplicate"))
    /\ Goto(c, "softLimit")
    /\ UNCHANGED <<facts, events, edges, raws, lock, local, delivered>>

\* The log is read again to warn of its size, and the marker is returned.
CheckSoftLimit(c) ==
    /\ pc[c] = "softLimit"
    /\ Goto(c, "skipped")
    /\ UNCHANGED <<store, lock, local, delivered>>

\* The tool returns and its result validates.
RunTool(c) ==
    /\ pc[c] = "run"
    /\ \E r \in Returns[ToolOf[c]] : ret' = [ret EXCEPT ![c] = r]
    /\ Goto(c, "acquire")
    /\ UNCHANGED <<store, lock, item, occ, graph, payload, delivered>>

\* The tool returns, and _validate raises.
ValidationFails(c) ==
    /\ pc[c] = "run"
    /\ Goto(c, "rejected")
    /\ UNCHANGED <<store, lock, local, delivered>>

ToolRaises(c) ==
    /\ pc[c] = "run"
    /\ Goto(c, "logError")
    /\ UNCHANGED <<store, lock, local, delivered>>

LogError(c) ==
    /\ pc[c] = "logError"
    /\ \E t \in Time : PersistToolCall(BuildRecord(c, t, None, "error"))
    /\ Goto(c, "raised")
    /\ UNCHANGED <<facts, events, edges, raws, lock, local, delivered>>

------------------------------------------------------------------------------
(* Under the lock: load, extract in memory, persist.                        *)

\* Mutant: read tools do not take the lock.
LockFree_CallsOnly(a) == a \in Call => lock[ProcOf[a]] = None

LockFree(a) == lock[ProcOf[a]] = None

AcquireLock(a) ==
    /\ pc[a] = "acquire"
    /\ LockFree(a)
    /\ lock' = [lock EXCEPT ![ProcOf[a]] = a]
    /\ Goto(a, "loadNodes")
    /\ UNCHANGED <<store, local, delivered>>

StoredNodes == {EventNode(ev) : ev \in events}
                   \cup {FactNode(f) : f \in {x \in Fact : facts[x] # Missing}}

\* load_graph: the nodes are searched for first.
LoadNodes(a) ==
    /\ pc[a] = "loadNodes"
    /\ \E found \in Searched(StoredNodes) :
          graph' = [graph EXCEPT ![a] =
              FromSnapshot([f \in Fact |-> IF FactNode(f) \in found THEN facts[f] ELSE Missing],
                           {ev \in events : EventNode(ev) \in found}, {})]
    /\ Goto(a, "loadEdges")
    /\ UNCHANGED <<store, lock, walk, payload, delivered>>

\* ... and then the edges, in a search of their own.
LoadEdges(a) ==
    /\ pc[a] = "loadEdges"
    /\ \E found \in Searched(edges) : graph' = [graph EXCEPT ![a].edges = found]
    /\ Goto(a, IF a \in Call THEN "build" ELSE "read")
    /\ UNCHANGED <<store, lock, walk, payload, delivered>>

HasItem(c, i) == i <= Len(ret[c])

\* Mutant: the event is written to the store as soon as it exists.
AddEventNode_WriteThrough(c) ==
    LET i == item[c] + 1 IN
    /\ pc[c] = "build" /\ ItemDone(c) /\ i <= Len(ret[c])
    /\ item' = [item EXCEPT ![c] = i] /\ occ' = [occ EXCEPT ![c] = 0]
    /\ graph' = [graph EXCEPT ![c] = AddEvent(@, <<c, i>>)]
    /\ events' = events \cup {<<c, i>>}
    /\ UNCHANGED <<facts, edges, raws, log, lock, pc, ret, payload, delivered>>

\* Next item of the result: its EventNode.
AddEventNode(c) ==
    LET i == item[c] + 1 IN
    /\ pc[c] = "build"
    /\ ItemDone(c)
    /\ HasItem(c, i)
    /\ item' = [item EXCEPT ![c] = i]
    /\ occ' = [occ EXCEPT ![c] = 0]
    /\ graph' = [graph EXCEPT ![c] = AddEvent(@, <<c, i>>)]
    /\ payloadNodes' = [payloadNodes EXCEPT ![c] = Append(@, EventNode(<<c, i>>))]
    /\ UNCHANGED <<store, lock, pc, ret, payloadEdges, newFacts, linkedFacts,
                   delivered>>

\* The occurrence of the current item that the walk reaches next.
Current(c) == ret[c][item[c]][occ[c] + 1]

EmitAt(c) ==
    /\ pc[c] = "build"
    /\ ~ItemDone(c)
    /\ occ' = [occ EXCEPT ![c] = @ + 1]
    /\ UNCHANGED <<ret, item>>

\* None or an empty canonical value: nothing is emitted.
EmitDropped(c) ==
    /\ EmitAt(c)
    /\ Canonical[Current(c).value] = Dropped
    /\ UNCHANGED <<store, lock, pc, graph, payload, delivered>>

\* Mutant: the new fact is not among the nodes to put.
NewFact_NotPut(c, f) ==
    newFacts' = [newFacts EXCEPT ![c] = @ \cup {f}] /\ UNCHANGED <<payloadNodes, linkedFacts>>

NewFact(c, f) ==
    /\ payloadNodes' = [payloadNodes EXCEPT ![c] = Append(@, FactNode(f))]
    /\ newFacts' = [newFacts EXCEPT ![c] = @ \cup {f}]
    /\ UNCHANGED linkedFacts

\* Mutant: a linked fact counts as new.
LinkFact_AsNew(c, f) ==
    /\ newFacts' = [newFacts EXCEPT ![c] = @ \cup {f}]
    /\ UNCHANGED <<payloadNodes, linkedFacts>>

\* A fact is refreshed once, and not if this call creates it.
LinkFact(c, f) ==
    /\ linkedFacts' =
          IF f \in newFacts[c] \/ FactNode(f) \in Elems(linkedFacts[c])
          THEN linkedFacts
          ELSE [linkedFacts EXCEPT ![c] = Append(@, FactNode(f))]
    /\ UNCHANGED <<payloadNodes, newFacts>>

\* The edge an occurrence of fact f makes.
EdgeTo(c, f) == [event |-> <<c, item[c]>>, type |-> Current(c).type, target |-> f]

\* Upsert the fact, add the edge, and note the fact as new or as linked.
EmitOne(c) ==
    LET v == Current(c).value
        f == Canonical[v]
    IN
    /\ EmitAt(c)
    /\ f \in Fact
    /\ graph' = [graph EXCEPT ![c] = AddEdge(UpsertFact(@, v, <<c, item[c]>>), EdgeTo(c, f))]
    /\ IF Knows(graph[c], f) THEN LinkFact(c, f) ELSE NewFact(c, f)
    /\ payloadEdges' = [payloadEdges EXCEPT ![c] = Append(@, EdgeTo(c, f))]
    /\ UNCHANGED <<store, lock, pc, delivered>>

\* Mutant: the exception leaves without __exit__.
EmitRaises_KeepsLock(c) ==
    /\ EmitAt(c)
    /\ Canonical[Current(c).value] = Raises
    /\ Goto(c, "rejected")
    /\ UNCHANGED <<store, lock, graph, payload, delivered>>

\* The normalizer raises: the exception leaves the with block.
EmitRaises(c) ==
    /\ EmitAt(c)
    /\ Canonical[Current(c).value] = Raises
    /\ Unlock(c)
    /\ Goto(c, "rejected")
    /\ UNCHANGED <<store, graph, payload, delivered>>

\* All items extracted: linked facts are refreshed after all other nodes.
FinishBuild(c) ==
    /\ pc[c] = "build"
    /\ ItemDone(c)
    /\ ~HasItem(c, item[c] + 1)
    /\ payloadNodes' = [payloadNodes EXCEPT ![c] = @ \o linkedFacts[c]]
    /\ Goto(c, "persist")
    /\ UNCHANGED <<store, lock, walk, graph, payloadEdges, newFacts, linkedFacts,
                   delivered>>

\* persist_delta: all nodes are put, then all edges.  A fact is written with
\* the value the graph holds; equal keys overwrite.
Put(n, c) ==
    IF n.kind = "event"
    THEN events' = events \cup {n.id} /\ UNCHANGED facts
    ELSE facts' = [facts EXCEPT ![n.id] = graph[c].facts[n.id]] /\ UNCHANGED events

PutNode(c) ==
    /\ pc[c] = "persist"
    /\ payloadNodes[c] # <<>>
    /\ Put(Head(payloadNodes[c]), c)
    /\ payloadNodes' = [payloadNodes EXCEPT ![c] = Tail(@)]
    /\ UNCHANGED <<edges, raws, log, lock, pc, walk, graph, payloadEdges, newFacts,
                   linkedFacts, delivered>>

\* Mutant: the key of an edge leaves the event out.
EdgeKey_NoEvent(e) == <<e.type, e.target>>

\* The key of an edge is "{event_id}|{edge_type}|{target_id}".
EdgeKey(e) == <<e.event, e.type, e.target>>

\* Mutant: edges do not wait for the nodes.
NodesWritten_Unchecked(c) == TRUE

NodesWritten(c) == payloadNodes[c] = <<>>

PutEdge(c) ==
    /\ pc[c] = "persist"
    /\ NodesWritten(c)
    /\ payloadEdges[c] # <<>>
    /\ LET e == Head(payloadEdges[c]) IN
         edges' = {x \in edges : EdgeKey(x) # EdgeKey(e)} \cup {e}
    /\ payloadEdges' = [payloadEdges EXCEPT ![c] = Tail(@)]
    /\ UNCHANGED <<facts, events, raws, log, lock, pc, walk, graph, payloadNodes,
                   newFacts, linkedFacts, delivered>>

ReleaseLock(c) ==
    /\ pc[c] = "persist"
    /\ payloadNodes[c] = <<>>
    /\ payloadEdges[c] = <<>>
    /\ Unlock(c)
    /\ Goto(c, "raw")
    /\ UNCHANGED <<store, local, delivered>>

\* A read tool leaves the lock with its graph and renders from it.
ReadDone(r) ==
    /\ pc[r] = "read"
    /\ Unlock(r)
    /\ Goto(r, "done")
    /\ UNCHANGED <<store, local, delivered>>

------------------------------------------------------------------------------
(* After the lock: raw returns, the log record, the ingest notification.    *)

\* Mutant: the first item is missed.
RawsDue_FromSecond(c) ==
    IF ToolOf[c] \in StoreRaw
    THEN {i \in 2 .. Len(ret[c]) : <<c, i>> \notin raws} ELSE {}

\* Events of the call whose raw return has not been stored yet.
RawsDue(c) ==
    IF ToolOf[c] \in StoreRaw
    THEN {i \in 1 .. Len(ret[c]) : <<c, i>> \notin raws} ELSE {}

PutRaw(c) ==
    /\ pc[c] = "raw"
    /\ \E i \in RawsDue(c) :
          /\ \A j \in RawsDue(c) : i <= j
          /\ raws' = raws \cup {<<c, i>>}
    /\ UNCHANGED <<facts, events, edges, log, lock, pc, local, delivered>>

LogCall(c) ==
    /\ pc[c] = "raw"
    /\ RawsDue(c) = {}
    /\ \E t \in Time : PersistToolCall(BuildRecord(c, t, FirstEvent(c), "ok"))
    /\ Goto(c, "dispatch")
    /\ UNCHANGED <<facts, events, edges, raws, lock, local, delivered>>

\* Callback handlers get the payload and the in-memory graph.
Dispatch(c) ==
    /\ pc[c] = "dispatch"
    /\ delivered' = [delivered EXCEPT ![ProcOf[c]] = Append(@, c)]
    /\ Goto(c, "done")
    /\ UNCHANGED <<store, lock, local>>

------------------------------------------------------------------------------
(* Failures.                                                                *)

\* Steps at which the next thing an actor does is a store operation, or at
\* which its last one may have been applied and still have raised.
AtStore == {"start", "duplicate", "softLimit", "logError", "loadNodes", "loadEdges",
            "persist", "raw", "dispatch"}

StoreFails(a) ==
    /\ StoreMayFail
    /\ pc[a] \in AtStore
    /\ Unlock(a)
    /\ Goto(a, "aborted")
    /\ UNCHANGED <<store, local, delivered>>

Begun(a) == pc[a] # (IF a \in Call THEN "start" ELSE "acquire")

\* A worker dies with its threads, its lock and its handlers' state; actors
\* that had not begun run in the restarted worker.
Crash(p) ==
    LET victims == {a \in Actor : /\ ProcOf[a] = p
                                  /\ Begun(a)
                                  /\ pc[a] \notin Ended}
    IN
    /\ MayCrash
    /\ victims # {}
    /\ pc' = [a \in Actor |-> IF a \in victims THEN "crashed" ELSE pc[a]]
    /\ lock' = [lock EXCEPT ![p] = None]
    /\ delivered' = [delivered EXCEPT ![p] = <<>>]
    /\ UNCHANGED <<store, local>>

------------------------------------------------------------------------------
CallStep(c) ==
    \/ FindDuplicate(c) \/ HandleDuplicate(c) \/ CheckSoftLimit(c)
    \/ RunTool(c) \/ ValidationFails(c) \/ ToolRaises(c) \/ LogError(c)
    \/ AddEventNode(c) \/ EmitDropped(c) \/ EmitOne(c) \/ EmitRaises(c)
    \/ FinishBuild(c) \/ PutNode(c) \/ PutEdge(c) \/ ReleaseLock(c)
    \/ PutRaw(c) \/ LogCall(c) \/ Dispatch(c)

ActorStep(a) == AcquireLock(a) \/ LoadNodes(a) \/ LoadEdges(a) \/ StoreFails(a)

\* What an actor does next when nothing fails at the store.
Advance(a) ==
    \/ AcquireLock(a) \/ LoadNodes(a) \/ LoadEdges(a)
    \/ a \in Call /\ CallStep(a)
    \/ a \in Reader /\ ReadDone(a)

AllEnded == \A a \in Actor : pc[a] \in Ended

\* Every call and every read is over: the session is idle.
Idle == AllEnded /\ UNCHANGED vars

Next ==
    \/ \E c \in Call : CallStep(c)
    \/ \E a \in Actor : ActorStep(a)
    \/ \E r \in Reader : ReadDone(r)
    \/ \E p \in Proc : Crash(p)
    \/ Idle

Spec == Init /\ [][Next]_vars

\* Threads of a worker are scheduled, store operations and tools return; that
\* a tool raises, a store fails or a worker dies is never owed.
Fairness == \A a \in Actor : WF_vars(Advance(a))

FairSpec == Spec /\ Fairness

------------------------------------------------------------------------------
(* Properties.                                                              *)

\* Every variable holds a value of its kind.
TypeOK ==
    /\ facts \in [Fact -> Value \cup {Missing}]
    /\ events \subseteq EventId
    /\ edges \subseteq Edge
    /\ raws \subseteq EventId
    /\ log \subseteq Record
    /\ lock \in [Proc -> Actor \cup {None}]
    /\ pc \in [Actor -> Labels]
    /\ ret \in [Call -> Seq(Seq(Occurrence))]
    /\ item \in [Call -> Nat]
    /\ occ \in [Call -> Nat]
    /\ graph \in [Actor -> Graph]
    /\ payloadNodes \in [Call -> Seq(Node)]
    /\ payloadEdges \in [Call -> Seq(Edge)]
    /\ newFacts \in [Call -> SUBSET Fact]
    /\ linkedFacts \in [Call -> Seq(Node)]
    /\ delivered \in [Proc -> Seq(Call)]

\* The walk never reaches past the result, or past an item of it.
PositionOK ==
    \A c \in Call :
        /\ item[c] <= Len(ret[c])
        /\ item[c] > 0 => occ[c] <= Len(ret[c][item[c]])
        /\ pc[c] \in {"start", "run"} => item[c] = 0

BeforeBuild == {"start", "run", "acquire", "loadNodes", "loadEdges"}

\* Node puts a call in the locked section still has ahead of it.
Pending(c) == Elems(payloadNodes[c])
                  \cup (IF pc[c] = "build" THEN Elems(linkedFacts[c]) ELSE {})

ClosedAt(c) ==
    /\ pc[c] \in BeforeBuild =>
          /\ item[c] = 0
          /\ newFacts[c] = {}
          /\ payloadNodes[c] = <<>>
          /\ payloadEdges[c] = <<>>
          /\ linkedFacts[c] = <<>>
    /\ pc[c] = "build" =>
          /\ item[c] > 0 => EventNode(<<c, item[c]>>) \in Elems(payloadNodes[c])
          /\ \A f \in newFacts[c] : FactNode(f) \in Elems(payloadNodes[c])
    /\ pc[c] \in {"build", "persist"} =>
          /\ \A f \in Fact : FactNode(f) \in Pending(c) => Knows(graph[c], f)
          /\ \A e \in Elems(payloadEdges[c]) :
                /\ e.event \in events \/ EventNode(e.event) \in Pending(c)
                /\ facts[e.target] # Missing \/ FactNode(e.target) \in Pending(c)

\* A delta is closed: each edge a call is going to put ends in nodes that are
\* stored or that it will put first, and each fact it will put is in the graph
\* its value is taken from.  This is what makes EdgeEndpointsStored inductive.
PayloadClosed == \A c \in Call : ClosedAt(c)

StoredGraph == FromSnapshot(facts, events, edges)

\* A call past the locked section: its delta is persisted.
Committed(c) == pc[c] \in {"raw", "dispatch", "done"}

\* The graph holds all that the result of call c says, and nothing else of it.
WholeDelta(g, c) ==
    /\ HoldsAll(g, c, ret[c])
    /\ \A e \in g.edges : e.event[1] = c => e \in EdgesOf(c, ret[c])

\* Whatever call crashes or fails at whatever put, no stored edge names an
\* event or a fact that is not stored: persist_delta writes the nodes first.
EdgeEndpointsStored == Closed(StoredGraph)

\* What the walk reads, what a call still has to put, and what is stored fit
\* together: the inductive invariant behind EdgeEndpointsStored.
ClosedInv == TypeOK /\ PositionOK /\ PayloadClosed /\ EdgeEndpointsStored

\* Occurrence j of item i of call c is behind the walk, and makes an edge.
Made(c, i, j) ==
    /\ i < item[c] \/ (i = item[c] /\ j <= occ[c])
    /\ Canonical[ret[c][i][j].value] \in Fact

\* The edge it makes.
EdgeMade(c, i, j) ==
    [event |-> <<c, i>>, type |-> ret[c][i][j].type, target |-> Canonical[ret[c][i][j].value]]

\* The walk of call c is over.
WalkOver(c) == item[c] = Len(ret[c]) /\ ItemDone(c)

\* What a graph has is stored, or call c still has to put it.
Covered(g, c) ==
    /\ \A ev \in g.events : ev \in events \/ EventNode(ev) \in Pending(c)
    /\ g.edges \subseteq edges \cup Elems(payloadEdges[c])
    /\ \A f \in Fact : Knows(g, f) => facts[f] # Missing \/ FactNode(f) \in Pending(c)

\* A call's graph and what it puts follow the walk: what is behind the walk is
\* in the graph, what is in the graph is stored or will be, and nothing is there
\* of the call but what its result says.
FollowsWalk(c) ==
    /\ \A i \in 1 .. item[c] : <<c, i>> \in graph[c].events
    /\ \A i \in DOMAIN ret[c] : \A j \in DOMAIN ret[c][i] : Made(c, i, j) =>
          EdgeMade(c, i, j) \in graph[c].edges /\ Knows(graph[c], EdgeMade(c, i, j).target)
    /\ Covered(graph[c], c)
    /\ \A e \in graph[c].edges : e.event[1] = c => e \in EdgesOf(c, ret[c])
    /\ Elems(payloadEdges[c]) \subseteq EdgesOf(c, ret[c])
    /\ \A n \in Pending(c) : n.kind = "event" => n.id \in EventsOf(c, ret[c])

\* That is so from the load on, and what is committed has been put.
DeltaAt(c) ==
    /\ pc[c] \in {"loadEdges", "build", "persist"} \/ Committed(c) => FollowsWalk(c)
    /\ pc[c] = "persist" \/ Committed(c) => WalkOver(c)
    /\ Committed(c) => payloadNodes[c] = <<>> /\ payloadEdges[c] = <<>>

\* Calls of which something may be stored.
MayHaveStored == {"persist", "raw", "dispatch", "done", "aborted", "crashed"}

\* Nothing is in the store of a call but what its result says, and that not
\* before it persists.
StoredAt(c) ==
    /\ pc[c] \in {"start", "run"} => ret[c] = <<>>
    /\ \A ev \in events : ev[1] = c => ev \in EventsOf(c, ret[c])
    /\ \A e \in edges : e.event[1] = c => e \in EdgesOf(c, ret[c])
    /\ pc[c] \notin MayHaveStored =>
          \A ev \in events \cup raws \cup {e.event : e \in edges} : ev[1] # c

\* "workers never lose each other's links" (session.py, README): once a call
\* has left the lock, the store holds for each item of its result the event
\* and exactly the edges the result says, however calls in other processes
\* interleaved their own load and persist with it, and forever after.
CommittedDeltaStored == \A c \in Call : Committed(c) => WholeDelta(StoredGraph, c)

\* A tool-log record that names an event tells of a finished ingest: all the
\* call's delta is stored, and its raw returns if the tool stores them.
RecordImpliesIngested ==
    \A r \in log : \A c \in Call :
        r.event = <<c, 1>> =>
            /\ r.summary = "ok" /\ r.tool = ToolOf[c] /\ r.args = ArgsOf[c]
            /\ WholeDelta(StoredGraph, c)
            /\ ToolOf[c] \in StoreRaw =>
                   \A i \in 1 .. Len(ret[c]) : <<c, i>> \in raws

\* Fail-loud: a call rejected by validation, by the walk or by a normalizer,
\* even on its last item, leaves nothing of itself in the graph or the log.
RejectedLeavesNothing ==
    \A c \in Call : pc[c] = "rejected" =>
        /\ \A ev \in events \cup raws \cup {e.event : e \in edges} : ev[1] # c
        /\ \A r \in log : r.event = None \/ r.event[1] # c

\* A duplicate is skipped only when the same call was ingested before: errors,
\* rejected calls and other skips never stand in for the original.
SkippedWorkIsInGraph ==
    \A c \in Call : pc[c] \in {"duplicate", "softLimit", "skipped"} =>
        \E d \in Call \ {c} :
            /\ ToolOf[d] = ToolOf[c] /\ ArgsOf[d] = ArgsOf[c]
            /\ pc[d] \in {"dispatch", "done", "aborted", "crashed"}
            /\ WholeDelta(StoredGraph, d)

\* A call that wrote its record, and whose delta is stored.
Reported(c) == pc[c] \in {"dispatch", "done", "aborted", "crashed"} /\ WholeDelta(StoredGraph, c)

\* Every record of an ingest is that of a reported call, and the raw returns of
\* the call it names are stored; notifications are of calls that are done.
RecordsOK ==
    /\ \A r \in log :
          /\ r.summary = "ok" =>
                \E c \in Call : r.tool = ToolOf[c] /\ r.args = ArgsOf[c] /\ Reported(c)
          /\ r.event = None \/ Reported(r.event[1])
    /\ \A p \in Proc : \A c \in Elems(delivered[p]) : pc[c] = "done"

\* The inductive invariant of the session: the properties above and below that
\* hold of any number of workers follow from it.
Inv ==
    /\ ClosedInv
    /\ \A c \in Call : DeltaAt(c) /\ StoredAt(c)
    /\ RecordsOK
    /\ RecordImpliesIngested
    /\ SkippedWorkIsInGraph

\* What the lock is for: in one process a fact is reported as new (on_node_added
\* counts, hooks) by at most one of the calls that persisted it.
FactIsNewOnce ==
    \A c, d \in Call : c # d /\ Committed(c) /\ Committed(d) =>
        newFacts[c] \cap newFacts[d] = {}

\* "callbacks receiving the in-memory graph see the post-ingest state without
\* having to reload" (models.py): leaving the lock, a call's graph is the one
\* a reload would build, but for source events that are listed more than once,
\* all of them events of this call.
MemoryMatchesReload ==
    \A c \in Call :
        pc[c] = "persist" /\ payloadNodes[c] = <<>> /\ payloadEdges[c] = <<>>
            => /\ [graph[c] EXCEPT !.repeats = {}] = StoredGraph
               /\ \A p \in graph[c].repeats : p[2][1] = c

\* What a handler is given is a state of the session: its call's whole delta,
\* and nothing that a load of the store, by any worker, would not find, though
\* other workers may have put in between, or died part-way.
HandlersSeeStored ==
    \A p \in Proc : \A c \in Elems(delivered[p]) :
        /\ WholeDelta(graph[c], c)
        /\ graph[c].events \subseteq events
        /\ graph[c].edges \subseteq edges
        /\ \A f \in Fact : Knows(graph[c], f) => facts[f] # Missing

\* "the immutable subset (id, node_type, value, canonical_value)": the stored
\* value of a fact never changes, by whichever spelling it is seen again.
StoredValueImmutable ==
    [][\A f \in Fact : facts[f] # Missing => facts'[f] = facts[f]]_vars

\* "sees consistent state" (session.py); "Empty results - never raise"
\* (graph-tools.md): a graph loaded by a read tool has no ghost nodes, on
\* which FactGraph.get raises KeyError.
LoadsAreConsistent ==
    \A r \in Reader : pc[r] \in {"read", "done"} =>
        Closed(graph[r])

\* Every call and every read tool comes to an end, and so gives the lock back,
\* whatever the others return or raise.
Terminates == <>AllEnded
==============================================================================
