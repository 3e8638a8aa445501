# A TLA+ model of AgentPinBoard

AgentPinBoard is a shared memory for LLM agents. Tools decorated with `@pin`
return pydantic models. The decorator extracts *facts* from what a tool
returns and links each of them to the *event* of the call. The result is kept as
a graph, per session, in a LangGraph key-value store. Read tools load that
graph, and handlers are notified of each ingest.

This directory holds TLA+ modules that model it, configurations for TLC, and
modules of theorems about them, with proofs for TLAPS. Source paths are relative to the repository, and
`decorator.py` is short for `agent_pinboard/decorator.py`.

## 1. Inventory

| Component | State it keeps | Operations | What makes it correct |
| --- | --- | --- | --- |
| `@pin` wrapper, sync (`decorator.py` 208-249, 364-633) | none of its own; the payload and graph of a call in progress | duplicate check, tool, validation, load, extraction, persist, raw returns, log record, soft-limit warning, notification | a result is ingested whole or, if anything in it is invalid, not at all; a record tells only of finished ingests; a skipped call was ingested before |
| `@pin` wrapper, async (252-294) | as above | as above, each store call an await | as above, with coroutines of one loop and threads on one lock |
| session lock (`session.py`) | a process-global map of `threading.RLock`s, one per thread id | `lock_for` | one ingest at a time in a process; never left locked |
| store layer (`store.py`) | items under `nodes`, `edges`, `raw_events`, `tool_calls` | `load_graph`, `persist_delta`, `persist_tool_call`, `persist_raw_event`, their async forms | no edge without its ends; unlocked workers do not lose each other's items; the immutable part of a fact is immutable |
| fact graph and extraction (`graph.py`, `extract.py`, `models.py`) | facts, events and a multigraph of edges, in memory | `upsert_fact`, `add_event`, `add_edge`, `from_snapshot`, `extract` | equal canonical values are one fact; provenance is what the edges say; in memory and reloaded are the same |
| traversal tools (`tools.py` 40-107, 441-716) | a frontier and a set of visited nodes during a call | `explore`, `find_path` | the two agree on distance; the cap and the directions mean what they say |
| recall tools (`tools.py` 110-357, 380-428) | none | `timeline`, `what_have_i_done`, `graph_summary`, `search_nodes`, `get_evidence` | answers agree with what the calls returned |
| live view (`integrations/websocket_hook.py`, `examples/web/index.html`) | a bounded queue of deltas, the latest snapshot, the set of connections, a page's elements | enqueue, drain, broadcast, connect, leave | a page shows the session; deltas in order; the server stays up |
| Langfuse hook (`integrations/langfuse_hook.py`) | none | two spans per notification | counts and drawing agree with the graph |
| entities and registry (`entity.py`, `fields.py`, `registry.py`) | a process-global map of names to entities | scan a model, register, look up | what a result can emit is declared; one entity per name, or a warning |
| configuration, enums, exceptions | a soft limit | set, get | - |

How they interact. A `@pin` call reads and writes the store directly, holds the
session lock around load, extraction and `persist_delta` only, and dispatches
its notification (a LangChain custom event) synchronously after that. The
WebSocket hook receives it in the tool's thread, and hands deltas to the
server's event loop through a `queue.Queue`. Read tools take the same lock for
their load. Between processes there is nothing but the store: no lock, no
transaction.

What is hard here:

- Threads of a worker, coroutines of its loop, and other workers interleave.
  The duplicate check, the tool log, raw returns and notifications are outside
  the lock; a second worker is outside it altogether.
- A delta is many `put`s and a load is two searches, so a crash, a failing put
  or another worker's step may fall in the middle.
- Normalizers and validation may raise on the last item of a result.
- An RLock is owned by an OS thread, and coroutines share theirs.
- The live view hands data from threads to a loop through a queue that
  overflows, and awaits while it iterates over a set others change.
- A model is scanned by its annotations and a result walked by its values; the
  two recursions must agree on what is a fact.
- The read tools derive the same notions (neighbour, producer, order) in
  several ways that have to agree.

`PROJECT.json` lists these hazards at the lines where they bite, with the
properties that cover each, or the reason why none does.

## 2. Modules

| Module | Models | Extends |
| --- | --- | --- |
| `FactGraph` | the in-memory graph as a value: facts, events, edges, upsert, provenance, ghosts; and what a result says | - |
| `Ingest` | sync `@pin` calls and read tools of one session, in the threads of one or more workers that share a store | `FactGraph` |
| `AtomicSession` | abstract: an ingest is one step, a read is one step | `FactGraph` |
| `MergedSession` | abstract: a graph that only grows, by parts of what calls returned | `FactGraph` |
| `IngestRefinement` | the two refinement mappings | `Ingest` |
| `IngestProofs` | proofs: types, edges that keep their ends; what is committed, recorded, skipped, rejected and handed on | `Ingest` |
| `SessionProofs` | proofs: the lock, one worker's properties, both refinements | `IngestProofs`, `IngestRefinement` |
| `AsyncSession` | coroutines and threads on the session lock | - |
| `AsyncProofs` | proofs about it | `AsyncSession` |
| `Schema` | the scan of a model class when `@pin` is applied, and the registry | - |
| `Walk` | the walk over what a tool returned | `Schema` |
| `SchemaProofs` | proofs about both | `Walk`, `ListLemmas` |
| `LiveFeed` | handler, queue, snapshot, broadcaster, connections, page | - |
| `LiveFeedProofs` | proofs about it | `LiveFeed`, `ListLemmas` |
| `ListLemmas` | lemmas about lists: their elements and places under append, tail, concatenation | - |
| `Explore` | `explore` step by step; `find_path` by its graph | `FactGraph` |
| `ExploreProofs` | proofs about it | `Explore` |
| `Recall` | `timeline`, its relevance score, `what_have_i_done`, `get_evidence` and the counts of a record, against the history of results | `FactGraph` |
| `Report` | `graph_summary`, `search_nodes` and the Mermaid drawing, against the same history | `Recall` |
| `RecallProofs` | proofs about both | `Report`, `ListLemmas` |
| `MC*` | small instances of each | its module |

`Ingest` uses `FactGraph` for the graph each call loads, mutates and hands on.
`Recall` builds its graph with the same operators, and takes in one step per call
what `Ingest` takes one by one. `LiveFeed` starts where
`Ingest` ends, at `Dispatch`: its `Commit` stands for an ingest. `AsyncSession`
takes the locked section of `Ingest` down to a load and puts, and replaces the
per-process lock with an RLock. `Walk` ends where `Ingest` begins a result: what
it emits is the sequence of occurrences that `Returns` holds.

### FactGraph

A `Value` stands for an (entity, raw value) pair, and `Canonical` says what the
normalizer and `_emit_one` make of it: a fact, nothing (`Dropped`), or an
exception (`Raises`). Several values may have one canonical form, as spellings
of an address do. A graph is a record of facts (with the spelling stored), events
and edges. Edges form a multigraph, told apart by event, type and target, as
`FactEdge.id` does. An event id is a pair (call, item): the code draws a uuid4
for each item of a result. `upsert_fact` appends an event to the `source_events` of
a fact it knows without looking whether it is there; `repeats` keeps the pairs
listed twice, which a reload does not have.

The second half of the module is the reference that invariants, abstractions and
reports share: the events and edges that a result *says* (`EventsOf`, `EdgesOf`),
that a graph holds all of it (`HoldsAll`), and that one graph grows into another by
parts of it (`Grows`).

### Ingest

Variables `facts`, `events`, `edges`, `raws`, `log` are the store; `lock` is the
lock of each process; `pc`, `ret`, `item`, `occ`, `graph` and the payload are the
locals of a wrapper's frame.

| Action | Code |
| --- | --- |
| `FindDuplicate`, `HandleDuplicate`, `CheckSoftLimit` | `_find_duplicate_sync`, `_handle_duplicate_sync`, `_maybe_warn_soft_limit` |
| `RunTool`, `ValidationFails`, `ToolRaises`, `LogError` | the call of the tool, `_validate`, the `except` branch |
| `AcquireLock`, `LoadNodes`, `LoadEdges` | `with lock_for(...)`, the two searches of `load_graph` |
| `AddEventNode`, `EmitDropped`, `EmitOne`, `EmitRaises`, `FinishBuild` | `_build_payload` and the walk of `extract`, one occurrence a step |
| `PutNode`, `PutEdge`, `ReleaseLock` | `persist_delta`, nodes before edges, one put a step |
| `PutRaw`, `LogCall`, `Dispatch` | `persist_raw_event`, `persist_tool_call`, `_dispatch_ingest_event` |
| `ReadDone` | a read tool that leaves the lock with its graph (`_graph`) |
| `StoreFails`, `Crash` | a store operation raises (before or after it took effect); a worker dies and is restarted |

`Searched` is `store.search` with its limit: all items, or any `ScanLimit` of them.

### AtomicSession and MergedSession

`AtomicSession` is what the session lock promises the threads of a worker. The
mapping of `IngestRefinement` hides what a call has put until it leaves the lock,
because nobody in the worker can look before. A step that ends `persist` is then the
abstract ingest; `ReadDone` is the abstract read, and must find in its hands the
session of that moment, though it loaded in two steps. A store that fails in the
middle of a persist leaves a part, visible from then on: `BreakOff`.

`MergedSession` is what is left between workers, and its mapping hides nothing: the
store itself is a graph whose edges always have their ends, to which each call adds
parts of its own result, in any order with the others. A call is finished only with
all of its result there. A fact may change its spelling, to one some call returned.

### AsyncSession

One action per await of `_make_async_wrapper`, with the duplicate check and the
records of each exit. `owner` and `depth` are the RLock. `Enter` succeeds if the lock is free or the
thread already owns it; all coroutines are one thread. `BlockLoop` is a
coroutine that calls `acquire` while another thread holds the lock: from then on
no coroutine runs. `SyncNeedsLoop` tells the two kinds of store apart. Async
stores such as `AsyncPostgresStore` run their sync methods on the loop and wait
for them.

### Schema and Walk

`_scan` and `_walk` are recursive; each is an agenda here, with the next class,
field or value first. `Pin`, `Enter`, `Refuse`, `Register`, `Descend`, `Finish` are the
scan; an annotation is the sequence of the models it mentions, whatever shape it has.
`Return`, `Raise`, `Spread`, `GoInto`, `Emit`, `PassOver`, `EndWalk` are the five rules,
over values that are none, a scalar, a model, a list, a dict or a tuple. The
reference for both is a set closed under what fields mention or hold (`Reachable`,
`Within`), not a recursion.

### LiveFeed

Handler: `Commit`, `PutNowait`, `PopOldest`, `Reput`, `UpdateSnapshot`; the three
queue steps are the branches of `_enqueue`, with other threads between them.
Broadcaster: `DrainOne`, `BeginRound`, `NextClient`, `Send`, `SendRaises`,
`ClientDone`, `EndRound`, `BroadcasterDies`. Connections: `Connect`, `PeerGone`,
`Leave`. Coroutines of the loop take turns, so connections change only while the
broadcaster is suspended: in its sleep, or after a send it started. `Shown` is
`applyDelta` of the page. An ingest touches a set of facts, and `DeltasOf` lists its
deltas by kind as `_handle_ingest` does; within a kind they come in any one order.

### Explore

The walk of `_render_explore`, with the frontier and the neighbours in any
order. `HasPath` is the definition of a simple path in the graph that
`_build_path_graph` makes, which derives adjacency otherwise than the walk does.

### Recall and Report

One action per outcome of a call. `Builds` and `Emits` are the loops of `_build_payload`
and of the walk, as functions of how many items or occurrences are behind them. The
queries are operators, compared in every state with `said`, the history of what
the calls returned. Lists whose order is that of the log or of time are given by sets of
positions and by rank (`LastOf`, `InOrder`). Read tools query a loaded graph (`Loaded`),
hooks the in-memory one (`graph`), which differ in `repeats`.

## 3. Runs

Every passing run covers its whole state space: half a million distinct states
in `single` and in `async`, 1.3 million in `multi`, 2.4 million in `feed`, 73,000 in
`feed_serial`, 93,000 in `schema`, 17,000 in `explore`.

Where a module has an inductive invariant `Inv`, its run checks that one; it
contains the type invariant.

| Run | Question | What it shows |
| --- | --- | --- |
| `single` | One worker, three calls, one read tool, a failing store, fair scheduling. | `Ingest` implements `AtomicSession`; rejected calls leave nothing, a fact is new once, the in-memory graph is the stored one, stored values do not change, and every call ends, whatever raises. |
| `multi` | Two workers with no common lock, crashing anywhere, searches that miss items. | `Ingest` implements `MergedSession`; edges always have their ends, a committed delta stays whole, records and skips tell the truth, handlers see nothing that is not stored. |
| `feed` | Two tool threads, a queue of two. | Per ingest, deltas arrive once, in order, and without a gap but for what overflow dropped. |
| `feed_serial` | One tool thread, a shared fact, fairness. | The page of a client that connected between ingests shows the session whenever the feed is quiet, and catches up for good unless the broadcaster died. |
| `async` | Three coroutines, a sync call equal to one of them, a read tool, a failing store. | Overlapping coroutines never free the lock early, and a sync call is alone in its window; the log tells the truth; everything ends. |
| `schema` | Five models in circles, pinned in every order and again; ten results. | A model is refused exactly when a mismarked field can be reached; accepted models have all their entities declared or warned about; a walk is refused for no other reason than a value that fits no rule, and over a result of supported shapes it emits every marked primitive and nothing else; what it emits was declared; a scan ends. |
| `explore` | Every graph of three events and four facts. | `explore` and `find_path` agree on distance, in every order of expansion; directions and the cap mean what the docs say. |
| `recall` | Every sequence of three calls. | The graph, the log and the raw returns are what the history makes of them; `timeline` is the history; `what_have_i_done` lists only calls that produced what it was asked for, misses no one-item call but for the limit, and can answer a skipped duplicate; the evidence of an event is what its call returned; new facts and edges are counted exactly, linked facts where no fact is named twice; overviews and drawing leave nothing out. |

The remaining runs each refute one sentence of the repository:

| Run | The sentence | What happens |
| --- | --- | --- |
| `torn_read` | multi-process readers see consistent state (`session.py`); empty results never raise (`graph-tools.md`) | a commit between the two searches gives edges to facts that were not loaded, and `FactGraph.get` raises `KeyError` on them |
| `feed_dies` | the server runs forever (`websocket_hook.py`) | the set of clients changes size during the broadcaster's iteration, which raises out of `serve_websocket` |
| `async_deadlock` | works with the async PostgreSQL store, mixing sync and async tools (`hooks-and-config.md`, `examples.md`) | the loop waits for a lock whose holder waits for the loop |
| `recall_score` | an event with no neighbour overlap scores 0 (`test_timeline_ranking.py`) | an event's facts count as neighbours through the event itself |

### Limits of the passing properties

Some properties are stated for less than one may hope, because the code does
not give more. The models contain the behaviour in each case.

- `FactIsNewOnce` is stated for threads. Two coroutines of one loop are both inside the
  reentrant lock whenever the first awaits the store; both may then create the
  same fact, and both report it as new. What they store is what `MergedSession`
  allows.
- `CountsAddUp` is exact about `new_nodes` and `new_edges`, and about `linked_nodes` where a
  result names no fact of its own twice and no fact in two items (`NamesOnce`). Elsewhere it says only
  that no fewer facts are counted than were linked: the code sums linked facts over items, and
  counts a fact as linked when the item that created it, or a later item of the call, names it
  again. That is more than "distinct existing FactNodes re-linked" (`api-reference.md:137`)
  and "one count per node, not per edge" (`extract.py:37-40`); the instance has such results.
- `TimelineIsHistory` finds a fact only under the spelling it was first returned in:
  `find_by_value` compares displayed values. `what_have_i_done` goes by canonical
  values, and by the normalizer registered for the name, which is another than the
  fact's after a name collision.
- `EmittedIsDeclared` is about results that conform to their annotations. A
  field typed `Any`, or an instance of a subclass, may hold models the scan did not see;
  their facts have types that nothing declared, and `graph_summary` shows them for
  being present.
- `WalkIsExact` has the error table of `extraction-rules.md` (64-71) as its reference, and is exact
  about results with none of the shapes which the code lets through against it (`IsRegular`):
  a tuple in an unmarked field, which the table has raise
  `AgentPinBoardExtractionError`, as do `exceptions.py:42-43` and
  `registry.py:110-111`, is passed over, as a dict there is; a list whose elements are not of
  one type is taken apart; a model in a marked field whose annotation does not name one is emitted. The
  instance has such results, and the model does with them what the code does.
- Nor does `WalkIsExact` place the scalars without a marker in the models below the result.
  `extraction-rules.md` (118-122) puts them in the event's properties; `event_properties` looks at the
  result alone, and they are lost. A primitive in an unmarked list is lost too. An instance that
  holds itself, on which the walk would not end, is excluded by assumption.
- `StoredValueImmutable` is stated for one worker. Two workers that both find a
  fact missing each put it with the spelling they saw, and the later put stays.
- `RecordImpliesIngested` is one direction. A result that does not validate, and a
  normalizer or a store that raises, end a call without a record; and two
  records of one tool with one clock reading have one key.
- `HandlersSeeStored` bounds a snapshot from above. Notifications are dispatched
  after the lock is released, so of two ingests the older graph may come last.
- `QuietPageIsCurrent` and `PageCatchesUp` are about clients that connected between
  ingests of one tool thread. The snapshot is replaced after its deltas are queued,
  so a client that connects in between may get neither; and with two threads
  an edge may be sent before the other thread's fact. It would not if the handler ran "under
  `@pin`'s read-modify-write lock for sync tools" (`websocket_hook.py:43-45`), but the dispatch
  comes after the lock is released (`decorator.py:245`).
- `CapRespected` does not say that a walk reported as cut short left something
  out: one that finds exactly `max_nodes` nodes is reported so too.
- `ListedCallsProduced` says of every call that is listed that it produced the entity, and
  of calls that returned one item that they are listed. A record names the first event of its call
  only, so that a `many=True` call which named the entity in a later item is left out, though it is
  one of the "calls that produced this exact entity" (`graph-tools.md:195`) and "touched" it
  (`pitfalls.md:85-87`). With `limit = 0` the code lists everything, and the model does too.
- The evidence of an event (`RawsAreSaid`, in `Inv` of `Recall`) is what its call
  returned, but the way from a listed call to its event id is not modelled. `get_evidence` refers to
  `timeline()` and `what_have_i_done()` for ids (`tools.py:273-274`); neither prints
  them (`tools.py:352-356`), while `search_nodes` and `explore` do when asked for events.

### Bounds, and why they are enough

- *Three calls.* Two race; the third distinguishes "the other" from "some
  other", and lets a duplicate find an original while one more call runs. Of the
  three, two are equal calls of a `SKIP` tool and one a `many=True` tool with two
  items, of which one has a second spelling of the shared fact.
- *Two facts, two edge types.* One fact both calls share and one only one of
  them has; one result links a fact by two fields, which a graph with
  single edges would lose.
- *One or two workers.* The code treats every other worker alike: as a party
  with no lock in common. The three calls and two workers already give every
  order of two loads and two persists.
- *Results.* `single` has valid results, ones with a raising normalizer, with nothing
  to emit, and with none, one and two items. `multi` keeps one valid result per tool
  (`ShortReturns`), which leaves room for crashes, a search limit and two clock
  readings.
- *A search of at most four items* in `multi`: three events and two facts are five
  nodes, so that searches do miss some; `single` and `torn_read` never reach
  the limit.
- *Clock readings: two in `multi`, one in `single`.* Two records may collide or not;
  with one reading they always do, which the properties of `single` must bear.
- *Queue of two; queue of 16.* The first is smaller than the deltas of one
  ingest, so overflow happens in the middle of it; the second never fills, which
  isolates the properties that assume no loss.
- *Explore.* Paths of up to three hops through three events and four facts;
  caps of two (cut in the middle of a hop) and 30 (never reached).
- *Schema.* A model of itself, two in a circle, one refused for its own field and one for
  another's, two entities of one name. The results hold each kind of value in
  each place the rules tell apart, at depth one and below.
- *Recall.* Sequences of three calls, with results of none, one and two items; items
  that name a fact twice in one field, and in two; limits of none, one, two and
  all; a declared type without facts, and facts of a type not declared.
- There is no bound on steps: every call runs once, so all variables are finite.

### Fairness

`single` and `async`: a thread or coroutine that can take its next step eventually
does (the OS and asyncio schedule them), and tools and store operations return.
Failure is never owed. For the lock this is weak fairness of `Advance`, `AcquireLock` included;
there are finitely many calls, so in the end the lock stays free and the one
that waits gets it. `feed_serial`: handlers and the broadcaster are scheduled
and sends end, because the websockets keepalive closes a peer that stops
reading. A connection is never owed to anyone. `schema`: a scan or a walk, once begun,
runs to its end; it is one synchronous call.

Deadlock is checked except in `async` and `async_deadlock`, where the temporal
property says more. In the others, the end of all calls is an explicit
stuttering step (`Idle`, `Done`, `Over`), enabled only there, so that any other
stop is an error.

### What is assumed of the surroundings

- A store operation on one key is atomic; a search sees one state of the store,
  and two searches may see two.
- uuid4 does not repeat. In `Recall`, timestamps grow.
- CPython raises `RuntimeError` when a set changes size during iteration, and not
  when one element replaced another between two steps of the iteration.
- A WebSocket connection delivers messages in order, and an `await ws.send`
  may or may not suspend.
- `networkx.shortest_simple_paths` yields a path if there is one.
- cytoscape ignores an edge whose ends are absent.

## 4. Proofs

The theorems hold for every value of the constants: any number of calls, readers,
workers, coroutines, connections, classes, facts and values, results of any length
and shape, any search limit, queue bound, depth and cap. They assume the modules'
`ASSUME`s, which TLC evaluates in every run, and where it is said, one of the
hypotheses below. `PROJECT.json` lists the theorems and the properties they state.

| Properties | Proved in | Hypotheses |
| --- | --- | --- |
| `EdgeEndpointsStored`, `CommittedDeltaStored`, `RecordImpliesIngested`, `SkippedWorkIsInGraph`, `HandlersSeeStored`, `RejectedLeavesNothing`, `Inv` | `IngestProofs` | - |
| `ImplementsMerged`, mutual exclusion (`LockHeld`) | `SessionProofs` | - |
| `FactIsNewOnce`, `MemoryMatchesReload`, `StoredValueImmutable`, `LoadsAreConsistent` | `SessionProofs` | one worker, complete searches |
| `ImplementsAtomic` | `SessionProofs` | one worker, complete searches, not killed |
| `LockMatchesBlocks`, `LogTellsTruth`, `SyncIsAlone`, `Inv` | `AsyncProofs` | - |
| `DeliveredInOrder`, `NoGaps`, `Inv` | `LiveFeedProofs` | - |
| `QuietPageIsCurrent` | `LiveFeedProofs` | one tool thread |
| `VerdictIsReachability`, `DeclaredOrWarned`, `WalkIsExact`, `EmittedIsDeclared`, `Inv` | `SchemaProofs` | - |
| `FoundHasPath`, `PathIsFound`, `DirectionsAsDocumented`, `CapRespected`, `Inv` | `ExploreProofs` | - |
| `TimelineIsHistory`, `ListedCallsProduced`, `DuplicateIsAnswered`, `CountsAddUp`, `OverviewIsHistory`, `DrawingIsConnected`, `Inv` | `RecallProofs` | - |

### Hypotheses

- *One worker* (`SameWorker`): all actors run in one process. It is what the
  properties of `single` are about, and they fail without it; the session lock is a
  `threading.RLock`.
- *Complete searches* (`[]SearchesComplete`): nodes and edges stay within
  `_SCAN_LIMIT` (`store.py:36`), 10,000 items in the code. Beyond that a load
  misses items, and a fact that is stored is taken for new.
- *Not killed* (`~MayCrash`): `AtomicSession` is about failing stores. A worker that
  is killed ends all its calls at once; what it leaves is `MergedSession`'s subject.
- *One tool thread* (`SingleThread`), for the page only. With two, an edge may go
  out before the other thread's fact.

In `single`, searches are complete because its limit is above all that three calls can
store, and `MayCrash` is false; in `feed_serial` there is one thread. The
hypotheses hold in those runs, so that no theorem is about nothing.

### Ingest: edges keep their ends

`EdgeEndpointsStored` is not inductive: that `PutEdge` keeps it depends on what
the call put before. `PayloadClosed` states it for each call: an edge still to
be put ends in nodes that are stored already or are among the nodes the call will
put first, and a fact still to be put is known to the graph its value is read from.
The types are not inductive alone either: `EmitOne` reads an occurrence of the current
item, so that `PositionOK` - the walk is inside the result - goes with them.
Together they are `ClosedInv`.

The delicate case is a *linked* fact. The call does not create it, refreshes it
after all other nodes, and must rely on a store that may have changed since the
load; the refresh at the end is why it needs no lock. The argument has four
parts: node items are never removed (`GrowsStep`), a step of one actor leaves the
locals of the others alone (`OthersUntouched`, with `Frame`), the step of a call
keeps its own delta closed (`OwnStep`, one case per action), and an edge is put
only when no node is left to put (`EndpointsStep`).

### Ingest: what is committed stays whole

`Inv` adds to `ClosedInv`, for each call, `DeltaAt` and `StoredAt`. The first says
that what is behind the walk is in the call's graph, and what is in its graph is
stored or still to be put (`FollowsWalk`); with the walk over and nothing left to
put, the result is stored whole. The second says that the store has nothing under a
call's name but what its result says, and nothing at all before it persists, from which
`RejectedLeavesNothing` follows: a call that is refused in the middle of its walk has put
nothing yet. `RecordsOK` says that each record was written by a call that is past its record.
Nothing is removed from the store, and each event and edge belongs to one call;
so the proofs are about each call's own steps (`DeltaOwn`, `StoredStep`, `RecordsStep`),
and about facts, which others may put again: that changes a spelling and removes nothing.

### The two refinements

`MergesAsPromised` shows `Init` and each step of `Ingest` to be one of
`MergedSession`, or a stutter, under `Inv` and `ValuesSaid` (a value in the store or
in any actor's graph is a spelling some call has returned). A put is `Add` or
`Respelled`, leaving the lock is `Finish`, for which `Inv` supplies that the whole delta is there.

`AtomicAsPromised` hides what a call that is persisting has put. `SoloInv` makes that
work: an actor in the lock is alone there (`LockHeld`); what it loaded is what is stored
(`SeesStore`), so a fact it finds missing is missing (`NewAt`); nobody else has
linked to a new fact of a call in the middle of its persist. Leaving the
lock then shows all that was put at once, as one abstract `Ingest`, and an error before
that is `BreakOff`. `LockHeld` holds for any number of workers, and is proved on its own.

### Async calls

`LockMatchesBlocks` counts the calls inside, so it needs cardinalities of a finite set that
one call enters or leaves (`LockEnter`, `LockLeave`). It is what a sync call relies on: it is
alone, as it is the only one its own thread can be. For `LogTellsTruth`, `ProgressAt` says what
is stored by where a call stands, and that a call that has yet to write its record is not
in the log, so that the call its duplicate check finds is another.

### Live feed

The invariant follows deltas along their way. `OrderKept`: each stage - sent, rest of the batch,
queue, handlers - is ordered, and goes before the next. `EdgesFollow`: an edge of an
ingest whose event is under way is under way too, or dropped; once the event is
sent on a connection that is alive, the edge has been sent on it, is dropped, or will be sent.
The hard part is a round that a client joins or leaves: `RoundOK` says that a live connection
which a round does not count has got nothing. Steps that move deltas between stages are
proved once (`MovesStep`), for what they have in common.

For pages, `SnapshotsOK` says that with one thread each snapshot is the stored graph,
and `PageOK` that an element a page lacks is on its way, with ends before edges at
every stage, because the page drops an edge that comes early. `SerialInv` is
the sum of this; no run lists it, as `feed_serial` checks the property it is for.

### Schema and walk

The models take depth-first recursions as agendas, and the reference is reachability, so
no induction is needed: the set of what is seen is shown to be closed once the agenda is
empty (then it has all that is reachable, which is the least closed set), and to stay
inside every closed set (then it has no more). In between, `ScanOK` says that each place of a class that
was entered is on the agenda or `LookedAt`. `Ahead` is the same for a walk:
every value in the result has been passed, or is under one on the agenda. What was passed
raised no error, which in a regular result means that it fits (`RegularFits`).

### Explore

`FoundHasPath` needs that what was reached after `k` hops has a path of at most `k` hops
*through found nodes* (`Reached`); a step to a new neighbour extends a path that
cannot contain it yet (`PathExtends`), so that the path stays simple, as those of
`find_path` are. `PathIsFound` goes by layers (`LayersOK`): all that has a path of as many
hops as are complete is visited, and what is left of the frontier is expanded before the
next hop is. A longer path has a last node but one, which has a shorter path (`PathShortens`).
A walk that ends for lack of new nodes ends with a set closed under edges, which no path
leaves (`PathStaysWithin`): else there would be a first node outside, as the naturals are well
ordered (`Smallest`).

### Recall and Report

`Inv` of `Recall` says that the graph has the events and edges of the results so far, shows
each fact as it was first spelled, and that log, counts and raw returns are of their calls
(`HistoryIsKept`). The queries are asked between calls, so each of their properties is a
consequence of it in one state, and their proofs differ in what they need of a list:

- `DuplicateIsAnswered` and `ListedCallsProduced` need that the last `n` of some positions
  are `n`, and the greatest (`LastAre`); `TimelineIsHistory` that a finite set of events
  has one order (`InOrderIs`). Both come from ranks: in a finite strict total order
  each place below the number of elements is taken by one of them (`EveryPlace`), for the
  map from elements to ranks is injective.
- `TimelineIsHistory` needs that a fact has one first spelling, which is the one displayed
  (`DisplayedIsFirst`), so that an event is found by that and no other value.
- `OverviewIsHistory` and `DrawingIsConnected` need that the `source_events` of a fact
  are the events whose items name it (`SourcesAreSeen`), and that all of these sets are finite.

That an ingest keeps `Inv` is the long part, as the loops of a call are inside one step.
Both are functions defined by recursion over positions, and first it is shown that such
functions exist (`WalkExists`, `BuildExists`). The induction over positions is done on a set of
numbers (`Induct`, from the well-ordering of the naturals), with one invariant for both loops: *after
the positions `D` of the result, the graph is the one before with the facts and edges that
`D` names* (`GraphSo`), a fact that was missing is spelled as at its first position in `D`, and the counts are
sizes of sets: the facts of `D` that were missing, the positions that name a fact, and, if `D` names no
fact twice (`OnceIn`), the facts that were there (`CountsSo`). One occurrence more adds one position
(`GraphGoesOn`, `CountsGoOn`); with all positions done the graph is that of the history with this
result at its end (`IngestedAt`, `HistoryGrows`). The history itself is treated as a value
(`EventsIn`, `EdgesIn`, `SeenBy`), so that before and after are two values of one operator.

### What only TLC checks

Liveness - `Terminates`, `EveryCallEnds`, `PageCatchesUp`, `ScansEnd` - which
needs fairness and `ENABLED`. Every other property of a passing run is a theorem, under
the hypotheses above.

## 5. Not modelled

- Argument canonicalisation and masking: arguments are values that are equal or
  not. `mask_args` makes calls equal that differ in a secret, as `pitfalls.md` says.
- The validation of one item, as it is pydantic's: a result validates or not.
- `response_transform`, but for its raising (`AsyncSession`).
- Rendering of answers as text, and labels in drawings.
- `dump_to_dict` and `load_from_dict`: what a persist and a load do, in one file.
- The id of a fact: `fact_node_id` joins its parts with `|`, and facts whose parts hold
  one may share an id. Facts are members of one set here.
- A fact type named `Event`, which would be taken for events by the index of types.
- `search_nodes` without a type and with events; the timestamps of `timeline` within
  one event.
- The Langfuse client; configuration and enums (constants).
- Reconnection of a page, and the server's HTTP route.
- `max_nodes = 0`, for which nothing says what it means.

## 6. Plan

Done, in this order: `FactGraph`, `Ingest`, `LiveFeed`, `AsyncSession`, `Explore`,
`Recall`; then `AtomicSession`, `MergedSession`, `IngestRefinement`, `Schema`, `Walk`,
`Report`, every await in `AsyncSession`, and the limit of searches in `Ingest`; then
`IngestProofs`, `AsyncProofs`, `SessionProofs`, `LiveFeedProofs`, `SchemaProofs`,
`ExploreProofs` and `RecallProofs`.

Left open: an abstract specification of what overlapping coroutines of one worker promise
each other, between `AtomicSession` and `MergedSession`; and a page that reconnects.
