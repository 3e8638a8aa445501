------------------------------- MODULE LiveFeed -------------------------------
(****************************************************************************)
(* The live view of a session (integrations/websocket_hook.py and the page  *)
(* in examples/web): ingest notifications, in the threads tools run in,     *)
(* become deltas on a bounded thread-safe queue; the broadcaster, a         *)
(* coroutine of the server's loop, drains the queue and sends the deltas to *)
(* every connected client; a client first gets the latest snapshot.         *)
(*                                                                          *)
(* An await of ws.send may suspend the broadcaster (the transport's buffer  *)
(* is full), so other coroutines of the loop run between any two sends.     *)
(* The ingest itself is one step here: Ingest models it in detail.          *)
(****************************************************************************)
EXTENDS Naturals, FiniteSets, SequencesExt

CONSTANTS
    Ingest,         \* ingests of the session, each of one event
    Touches,        \* the facts each ingest links to
    ThreadOf,       \* the thread whose tool calls an ingest is one of
    Client,         \* connections: each is opened at most once
    QueueMax,       \* queue_maxsize
    None

VARIABLES
    stored,     \* elements of the session graph in the store
    graph,      \* the in-memory graph each ingest notified of
    deltas,     \* deltas the handler of an ingest still has to enqueue
    status,     \* of each ingest: "new", "emit" or "done"
    enq,        \* where _enqueue of an ingest's next delta stands
    queue, latest,
    clients,    \* the server's set of connections
    conn,       \* of each connection: "new", "open", "gone" or "left"
    bpc,        \* where the broadcaster stands
    batch,      \* messages it drained
    started,    \* clients it began its round with
    visited, dead, current, position,
    view,       \* elements each client's page shows
    sent,       \* history: deltas sent on each connection
    dropped,    \* history: deltas the queue lost
    settled     \* history: connections opened while no handler was running

handlers == <<stored, graph, deltas, status, enq>>
round == <<batch, started, visited, dead, current, position>>
history == <<sent, dropped, settled>>
vars == <<handlers, queue, latest, clients, conn, bpc, round, view, history>>

------------------------------------------------------------------------------
EventElement(i) == <<"event", i>>
FactElement(f) == <<"fact", f>>
EdgeElement(i, f) == <<"edge", i, f>>

Facts == UNION {Touches[i] : i \in Ingest}
Elements == {EventElement(i) : i \in Ingest} \cup {FactElement(f) : f \in Facts}
                \cup {EdgeElement(i, f) : i \in Ingest, f \in Facts}

ASSUME LiveFeedAssumption ==
    /\ QueueMax \in Nat \ {0}
    /\ \A i \in Ingest : IsFiniteSet(Touches[i])
    /\ None \notin Client /\ \A S \in SUBSET Elements : S # None

ElementsOf(i) == {EventElement(i)} \cup {FactElement(f) : f \in Touches[i]}
                     \cup {EdgeElement(i, f) : f \in Touches[i]}

Delta(i, t, el) == [ingest |-> i, type |-> t, element |-> el]

\* The groups of deltas _handle_ingest makes.
Parts(i, known) ==
    [event |-> {Delta(i, "node_added", EventElement(i))},
     facts |-> {Delta(i, "node_added", el) : el \in {FactElement(f) : f \in Touches[i]} \ known},
     links |-> {Delta(i, "link_found", el) : el \in {FactElement(f) : f \in Touches[i]} \cap known},
     edges |-> {Delta(i, "edge_added", EdgeElement(i, f)) : f \in Touches[i]},
     complete |-> {Delta(i, "ingest_complete", EventElement(i))}]

\* Mutant: edges go before nodes.
DeltasOf_EdgesFirst(i, known) ==
    LET p == Parts(i, known)
    IN SetToSeq(p.edges) \o SetToSeq(p.event) \o SetToSeq(p.facts) \o SetToSeq(p.links)
           \o SetToSeq(p.complete)

\* The deltas of ingest i into a graph of the elements "known", in the order
\* in which _handle_ingest enqueues them; no property tells orders within a
\* group apart.
DeltasOf(i, known) ==
    LET p == Parts(i, known)
    IN SetToSeq(p.event) \o SetToSeq(p.facts) \o SetToSeq(p.links) \o SetToSeq(p.edges)
           \o SetToSeq(p.complete)

\* applyDelta of the page: known elements are not added again, and cytoscape
\* adds no edge one of whose ends is missing.
Shown(v, d) ==
    CASE d.type = "node_added" -> v \cup {d.element}
      [] d.type = "edge_added" ->
            IF {EventElement(d.element[2]), FactElement(d.element[3])} \subseteq v
            THEN v \cup {d.element} ELSE v
      [] OTHER -> v

------------------------------------------------------------------------------
Init ==
    /\ stored = {}
    /\ graph = [i \in Ingest |-> {}]
    /\ deltas = [i \in Ingest |-> <<>>]
    /\ status = [i \in Ingest |-> "new"]
    /\ enq = [i \in Ingest |-> "put"]
    /\ queue = <<>>
    /\ latest = None
    /\ clients = {}
    /\ conn = [w \in Client |-> "new"]
    /\ bpc = "sleep"
    /\ batch = <<>>
    /\ started = {} /\ visited = {} /\ dead = {}
    /\ current = None
    /\ position = 0
    /\ view = [w \in Client |-> {}]
    /\ sent = [w \in Client |-> <<>>]
    /\ dropped = {}
    /\ settled = {}

------------------------------------------------------------------------------
(* The handler, in the tool's thread.                                       *)

Busy(i) == status[i] = "emit"

\* An ingest is persisted under the session lock; its notification is
\* dispatched after the lock is released.
Commit(i) ==
    /\ status[i] = "new"
    /\ \A j \in Ingest : ThreadOf[j] = ThreadOf[i] => ~Busy(j)
    /\ stored' = stored \cup ElementsOf(i)
    /\ graph' = [graph EXCEPT ![i] = stored']
    /\ deltas' = [deltas EXCEPT ![i] = DeltasOf(i, stored)]
    /\ status' = [status EXCEPT ![i] = "emit"]
    /\ UNCHANGED <<enq, queue, latest, clients, conn, bpc, round, view, history>>

\* _enqueue is over with the delta at the head.
Next1(i) ==
    /\ deltas' = [deltas EXCEPT ![i] = Tail(@)]
    /\ enq' = [enq EXCEPT ![i] = "put"]

\* Mutant: one delta too many.
HasRoom_OffByOne == Len(queue) <= QueueMax

HasRoom == Len(queue) < QueueMax

\* put_nowait: the delta is queued, or the queue is full.
PutNowait(i) ==
    /\ Busy(i) /\ deltas[i] # <<>> /\ enq[i] = "put"
    /\ IF HasRoom
       THEN queue' = Append(queue, Head(deltas[i])) /\ Next1(i)
       ELSE enq' = [enq EXCEPT ![i] = "pop"] /\ UNCHANGED <<queue, deltas>>
    /\ UNCHANGED <<stored, graph, status, latest, clients, conn, bpc, round, view,
                   history>>

\* queue.Full: the oldest delta is dropped, unless the server emptied the
\* queue since; then this one is.
PopOldest(i) ==
    /\ enq[i] = "pop"
    /\ IF queue # <<>>
       THEN /\ queue' = Tail(queue)
            /\ dropped' = dropped \cup {Head(queue)}
            /\ enq' = [enq EXCEPT ![i] = "reput"]
            /\ UNCHANGED deltas
       ELSE /\ dropped' = dropped \cup {Head(deltas[i])}
            /\ Next1(i)
            /\ UNCHANGED queue
    /\ UNCHANGED <<stored, graph, status, latest, clients, conn, bpc, round, view,
                   sent, settled>>

\* The second put: another thread may have taken the room.
Reput(i) ==
    /\ enq[i] = "reput"
    /\ IF HasRoom
       THEN queue' = Append(queue, Head(deltas[i])) /\ UNCHANGED dropped
       ELSE dropped' = dropped \cup {Head(deltas[i])} /\ UNCHANGED queue
    /\ Next1(i)
    /\ UNCHANGED <<stored, graph, status, latest, clients, conn, bpc, round, view,
                   sent, settled>>

\* Mutant: the snapshot of the notification is not kept.
KeepSnapshot_First(i) == IF latest = None THEN graph[i] ELSE latest

KeepSnapshot(i) == graph[i]

\* All deltas enqueued: the snapshot new clients get is replaced.
UpdateSnapshot(i) ==
    /\ Busy(i) /\ deltas[i] = <<>>
    /\ latest' = KeepSnapshot(i)
    /\ status' = [status EXCEPT ![i] = "done"]
    /\ UNCHANGED <<stored, graph, deltas, enq, queue, clients, conn, bpc, round, view,
                   history>>

------------------------------------------------------------------------------
(* The server's coroutines.  They take turns: another one runs only while   *)
(* the broadcaster is suspended, in its sleep or in a send.                 *)

Suspended == bpc \in {"sleep", "dead"} \/ (bpc = "send" /\ position > 1)

\* ws_handler up to its first await: the snapshot is the first message.
Connect(w) ==
    /\ Suspended
    /\ conn[w] = "new"
    /\ conn' = [conn EXCEPT ![w] = "open"]
    /\ clients' = clients \cup {w}
    /\ view' = [view EXCEPT ![w] = IF latest = None THEN {} ELSE latest]
    /\ settled' = IF \E i \in Ingest : Busy(i) THEN settled ELSE settled \cup {w}
    /\ UNCHANGED <<handlers, queue, latest, bpc, round, sent, dropped>>

\* The peer is gone; sends to it raise from now on.
PeerGone(w) ==
    /\ Suspended
    /\ conn[w] = "open"
    /\ conn' = [conn EXCEPT ![w] = "gone"]
    /\ UNCHANGED <<handlers, queue, latest, clients, bpc, round, view, history>>

\* The "finally" of ws_handler.
Leave(w) ==
    /\ Suspended
    /\ conn[w] = "gone"
    /\ conn' = [conn EXCEPT ![w] = "left"]
    /\ clients' = clients \ {w}
    /\ UNCHANGED <<handlers, queue, latest, bpc, round, view, history>>

\* Mutant: the last delta put is popped first.
Pop_Newest(q) == [head |-> q[Len(q)], rest |-> SubSeq(q, 1, Len(q) - 1)]

Pop(q) == [head |-> Head(q), rest |-> Tail(q)]

\* The broadcaster wakes up and drains the queue, delta by delta: threads may
\* put while it pops.
DrainOne ==
    /\ bpc \in {"sleep", "drain"}
    /\ queue # <<>>
    /\ batch' = Append(batch, Pop(queue).head)
    /\ queue' = Pop(queue).rest
    /\ bpc' = "drain"
    /\ UNCHANGED <<handlers, latest, clients, conn, started, visited, dead, current,
                   position, view, history>>

\* queue.Empty: with clients a round begins, without the deltas are thrown away.
BeginRound ==
    /\ bpc = "drain"
    /\ queue = <<>>
    /\ IF clients = {}
       THEN bpc' = "sleep" /\ batch' = <<>> /\ UNCHANGED started
       ELSE bpc' = "next" /\ started' = clients /\ UNCHANGED batch
    /\ UNCHANGED <<handlers, queue, latest, clients, conn, visited, dead, current,
                   position, view, history>>

\* Iterating over a set whose size has changed raises RuntimeError, which
\* nothing catches.
SizeChanged == Cardinality(clients) # Cardinality(started)

BroadcasterDies ==
    /\ bpc = "next"
    /\ SizeChanged
    /\ bpc' = "dead"
    /\ UNCHANGED <<handlers, queue, latest, clients, conn, round, view, history>>

\* The iteration goes to some client it has not been at.
NextClient ==
    /\ bpc = "next"
    /\ ~SizeChanged
    /\ \E w \in clients \ visited : current' = w /\ visited' = visited \cup {w}
    /\ position' = 1
    /\ bpc' = "send"
    /\ UNCHANGED <<handlers, queue, latest, clients, conn, batch, started, dead, view,
                   history>>

\* Mutant: the round goes on with the next client after the first message.
SendDone_One == position > 1

SendDone == position > Len(batch)

Send ==
    /\ bpc = "send"
    /\ ~SendDone
    /\ conn[current] = "open"
    /\ view' = [view EXCEPT ![current] = Shown(@, batch[position])]
    /\ sent' = [sent EXCEPT ![current] = Append(@, batch[position])]
    /\ position' = position + 1
    /\ UNCHANGED <<handlers, queue, latest, clients, conn, bpc, batch, started, visited,
                   dead, current, dropped, settled>>

\* ws.send raises, at once or when it resumes: the client is noted as dead and
\* its messages are skipped.
SendRaises ==
    /\ bpc = "send"
    /\ conn[current] # "open"
    /\ dead' = dead \cup {current}
    /\ bpc' = "next"
    /\ UNCHANGED <<handlers, queue, latest, clients, conn, batch, started, visited,
                   current, position, view, history>>

ClientDone ==
    /\ bpc = "send"
    /\ SendDone
    /\ bpc' = "next"
    /\ UNCHANGED <<handlers, queue, latest, clients, conn, round, view, history>>

\* No client is left that the iteration must visit: one that came in for one
\* that left may have been skipped.
EndRound ==
    /\ bpc = "next"
    /\ ~SizeChanged
    /\ clients \cap started \subseteq visited
    /\ clients' = clients \ dead
    /\ bpc' = "sleep"
    /\ batch' = <<>>
    /\ started' = {} /\ visited' = {} /\ dead' = {}
    /\ current' = None
    /\ position' = 0
    /\ UNCHANGED <<handlers, queue, latest, conn, view, history>>

------------------------------------------------------------------------------
Handle(i) == Commit(i) \/ PutNowait(i) \/ PopOldest(i) \/ Reput(i) \/ UpdateSnapshot(i)

Broadcast == \/ DrainOne \/ BeginRound \/ BroadcasterDies \/ NextClient
             \/ Send \/ SendRaises \/ ClientDone \/ EndRound

\* Nothing is left to do, and nobody is there.
Idle ==
    /\ \A i \in Ingest : status[i] = "done"
    /\ bpc = "dead" \/ (bpc = "sleep" /\ queue = <<>>)
    /\ \A w \in Client : conn[w] = "left"
    /\ UNCHANGED vars

Next ==
    \/ \E i \in Ingest : Handle(i)
    \/ \E w \in Client : Connect(w) \/ PeerGone(w) \/ Leave(w)
    \/ Broadcast
    \/ Idle

Spec == Init /\ [][Next]_vars

\* Handlers and coroutines are scheduled and sends end (a peer that stops
\* reading is closed by the keepalive); nobody owes a connection.
FairSpec ==
    /\ Spec
    /\ \A i \in Ingest : WF_vars(Handle(i))
    /\ WF_vars(Broadcast)
    /\ \A w \in Client : WF_vars(Leave(w))

------------------------------------------------------------------------------
(* Properties.                                                              *)

Deltas == [ingest : Ingest, element : Elements,
           type : {"node_added", "link_found", "edge_added", "ingest_complete"}]

\* Every variable holds a value of its kind, and the queue its bound.
TypeOK ==
    /\ stored \subseteq Elements
    /\ graph \in [Ingest -> SUBSET Elements]
    /\ deltas \in [Ingest -> Seq(Deltas)]
    /\ status \in [Ingest -> {"new", "emit", "done"}]
    /\ enq \in [Ingest -> {"put", "pop", "reput"}]
    /\ queue \in Seq(Deltas) /\ Len(queue) <= QueueMax
    /\ latest = None \/ latest \subseteq Elements
    /\ clients \cup started \cup visited \cup dead \cup settled \subseteq Client
    /\ conn \in [Client -> {"new", "open", "gone", "left"}]
    /\ bpc \in {"sleep", "drain", "next", "send", "dead"}
    /\ batch \in Seq(Deltas)
    /\ current \in Client \cup {None}
    /\ position \in 0 .. Len(batch) + 1
    /\ view \in [Client -> SUBSET Elements]
    /\ sent \in [Client -> Seq(Deltas)]
    /\ dropped \subseteq Deltas

Delivered(w) == ToSet(sent[w])

\* The place of a delta among those of its ingest.
Rank(d) == CASE d.type = "node_added" -> IF d.element[1] = "event" THEN 1 ELSE 2
             [] d.type = "link_found" -> 3
             [] d.type = "edge_added" -> 4
             [] d.type = "ingest_complete" -> 5

\* Of deltas of one ingest, d may go before e.
Precedes(d, e) == d.ingest = e.ingest => d # e /\ Rank(d) <= Rank(e)

Ordered(s) == \A j, k \in DOMAIN s : j < k => Precedes(s[j], s[k])

\* Whatever threads put, the queue drops and clients come and go, a connection
\* gets the deltas of one ingest once each and in the order of _handle_ingest:
\* "ingest_complete" is the end of the transaction the page lays out.
DeliveredInOrder == \A w \in Client : Ordered(sent[w])

EventDelta(i) == Delta(i, "node_added", EventElement(i))
EdgeDelta(i, f) == Delta(i, "edge_added", EdgeElement(i, f))
CompleteDelta(i) == Delta(i, "ingest_complete", EventElement(i))

\* A connection that got an ingest's event and its "ingest_complete" got all of
\* its deltas in between, those the full queue lost aside.
NoGaps ==
    \A w \in Client : \A i \in Ingest :
        {EventDelta(i), CompleteDelta(i)} \subseteq Delivered(w)
        => \A f \in Touches[i] : EdgeDelta(i, f) \in Delivered(w) \cup dropped

Before(D, E) == \A d \in D : \A e \in E : Precedes(d, e)

\* The deltas of the batch that connection w may still get.
Rest(w) == CASE w \notin visited -> ToSet(batch)
             [] bpc = "send" /\ w = current -> {batch[k] : k \in position .. Len(batch)}
             [] OTHER -> {}

\* The deltas on their way keep their order, from the handlers through the
\* queue and the batch to each connection.
OrderKept ==
    /\ Ordered(queue) /\ Ordered(batch) /\ Before(ToSet(batch), ToSet(queue))
    /\ \A i \in Ingest :
          /\ Ordered(deltas[i]) /\ \A d \in ToSet(deltas[i]) : d.ingest = i
          /\ Before(ToSet(batch) \cup ToSet(queue), ToSet(deltas[i]))
    /\ \A w \in Client :
          /\ Ordered(sent[w]) /\ Before(Delivered(w), Rest(w) \cup ToSet(queue))
          /\ \A i \in Ingest : Before(Delivered(w), ToSet(deltas[i]))

\* Nothing is under way of an ingest that is not committed; a handler in the
\* middle of _enqueue has a delta to put.
HandlersOK ==
    \A i \in Ingest :
        /\ status[i] = "new" =>
              /\ deltas[i] = <<>>
              /\ \A d \in ToSet(queue) \cup ToSet(batch) : d.ingest # i
              /\ \A w \in Client : \A d \in Delivered(w) : d.ingest # i
        /\ enq[i] # "put" => deltas[i] # <<>>

\* The server's set has every live connection; one it misses in a round, and
\* does not visit, came in meanwhile and has got nothing yet.
RoundOK ==
    /\ bpc \in {"sleep", "drain"} => visited = {} /\ dead = {} /\ position = 0
    /\ bpc = "sleep" => batch = <<>>
    /\ bpc = "send" => current \in visited /\ position > 0
    /\ \A w \in Client :
          /\ conn[w] = "open" => w \in clients /\ w \notin dead
          /\ conn[w] = "new" => w \notin clients \cup visited \cup dead /\ sent[w] = <<>>
          /\ conn[w] = "open" /\ bpc \in {"next", "send"} /\ w \notin started \cup visited =>
                sent[w] = <<>>

\* Before its event is sent an ingest's edges are under way, or lost; and a live
\* connection that got the event has got them, or they are lost, or will come.
EdgesFollow ==
    \A i \in Ingest : \A f \in Touches[i] :
        LET Waiting == ToSet(queue) \cup ToSet(deltas[i]) IN
        /\ EventDelta(i) \in ToSet(batch) \cup Waiting =>
              EdgeDelta(i, f) \in ToSet(batch) \cup Waiting \cup dropped
        /\ \A w \in Client : conn[w] = "open" /\ EventDelta(i) \in Delivered(w) =>
              EdgeDelta(i, f) \in Delivered(w) \cup dropped \cup Rest(w) \cup Waiting

\* The inductive invariant of the feed.
Inv == TypeOK /\ OrderKept /\ HandlersOK /\ RoundOK /\ EdgesFollow /\ NoGaps

\* No ingest is under way and nothing is queued or being sent.
Quiet == (\A i \in Ingest : ~Busy(i)) /\ queue = <<>> /\ bpc = "sleep"

\* A live connection opened while no handler was running, none of whose deltas
\* the queue dropped.
Followed(w) == w \in settled /\ conn[w] = "open" /\ dropped = {}

\* With one tool thread, the page of a client that connected between two
\* ingests shows the session graph whenever the feed is quiet.
QuietPageIsCurrent ==
    Quiet => \A w \in Client : Followed(w) => view[w] = stored

\* All tool calls are made by one thread.
SingleThread == \A i, j \in Ingest : ThreadOf[i] = ThreadOf[j]

\* The delta type that adds an element, and the elements deltas add as nodes.
TypeOf(el) == IF el[1] = "edge" THEN "edge_added" ELSE "node_added"
Nodes(D) == {d.element : d \in {e \in D : e.type = "node_added"}}
Ends(d) == {EventElement(d.element[2]), FactElement(d.element[3])}

\* From place p of s on, an edge's ends are among some nodes or come before it.
EndsFirst(s, p, nodes) ==
    \A k \in p .. Len(s) : s[k].type = "edge_added" =>
        Ends(s[k]) \subseteq nodes \cup Nodes({s[j] : j \in p .. k - 1})

\* What a connection may still get.
Coming(w) == Rest(w) \cup ToSet(queue) \cup UNION {ToSet(deltas[i]) : i \in Ingest}

\* With one thread the snapshots are the stored graph, and all that is said is
\* of stored elements.
SnapshotsOK ==
    /\ \A i \in Ingest : /\ deltas[i] # <<>> => Busy(i)
                         /\ Busy(i) => graph[i] = stored
    /\ (\A i \in Ingest : ~Busy(i)) => latest = stored \/ (latest = None /\ stored = {})
    /\ \A d \in ToSet(batch) \cup ToSet(queue) \cup UNION {ToSet(deltas[i]) : i \in Ingest} :
          /\ d.element \in stored
          /\ d.type = "edge_added" => Ends(d) \subseteq stored
    /\ \A w \in settled : conn[w] # "new"

\* A page that is followed shows stored elements; the others are coming, edges
\* after their ends.  A connection a round does not count on has seen it all.
PageOK(w) ==
    /\ view[w] \subseteq stored
    /\ \A el \in stored \ view[w] : \E d \in Coming(w) : d.element = el /\ d.type = TypeOf(el)
    /\ w \notin visited => EndsFirst(batch, 1, view[w])
    /\ bpc = "send" /\ w = current => EndsFirst(batch, position, view[w])
    /\ EndsFirst(queue, 1, view[w] \cup Nodes(Rest(w)))
    /\ \A i \in Ingest : \A d \in ToSet(deltas[i]) : d.type = "edge_added" =>
          Ends(d) \subseteq view[w] \cup Nodes(Rest(w) \cup ToSet(queue) \cup ToSet(deltas[i]))
    /\ bpc \in {"next", "send"} /\ w \notin started \cup visited =>
          \A d \in ToSet(batch) : d.element \in view[w]

\* The inductive invariant of a feed of one thread.
SerialInv == Inv /\ SnapshotsOK /\ \A w \in Client : Followed(w) => PageOK(w)

\* ... and gets there: it does not stay behind the session for ever, unless the
\* broadcaster died.
PageCatchesUp ==
    \A w \in Client : <>[](Followed(w) /\ bpc # "dead" => view[w] = stored)

\* "The server runs forever" (serve_websocket): the broadcaster does not die.
ServerRunsForever == bpc # "dead"
==============================================================================
