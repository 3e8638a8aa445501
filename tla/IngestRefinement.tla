--------------------------- MODULE IngestRefinement ---------------------------
(****************************************************************************)
(* Ingest implements two abstract sessions: the calls of one worker, who    *)
(* share a lock, AtomicSession; those of several workers, MergedSession.    *)
(****************************************************************************)
EXTENDS Ingest

Result == [c \in Call |-> Returns[ToolOf[c]]]

\* While a call is persisting, what it has put is not yet there for anyone:
\* it shows at once when the call leaves the lock, or fails.
Persisting(c) == pc[c] = "persist"

Visible ==
    FromSnapshot(
        [f \in Fact |-> IF \E c \in Call : Persisting(c) /\ f \in newFacts[c]
                        THEN Missing ELSE facts[f]],
        {ev \in events : ~Persisting(ev[1])},
        {e \in edges : ~Persisting(e.event[1])})

PastPersist == {"raw", "dispatch", "done", "aborted", "crashed"}

Atomic == INSTANCE AtomicSession WITH
    session <- Visible,
    ended <- {c \in Call : pc[c] \in PastPersist},
    answer <- [r \in Reader |-> IF pc[r] = "done" THEN graph[r] ELSE None]

Merged == INSTANCE MergedSession WITH
    session <- StoredGraph,
    said <- ret,
    finished <- {c \in Call : Committed(c)}

------------------------------------------------------------------------------
(* What holds of one worker whose searches return all there is.             *)

SameWorker == \A a, b \in Actor : ProcOf[a] = ProcOf[b]

SearchesComplete ==
    Cardinality(StoredNodes) <= ScanLimit /\ Cardinality(edges) <= ScanLimit

\* An actor inside the "with" block holds its worker's lock.
LockHeld == \A a \in Actor : pc[a] \in InCriticalSection => lock[ProcOf[a]] = a

\* What an actor has loaded is what is stored, and stays so till it leaves the
\* lock, but for what the call itself adds.
SeesStore(a) ==
    /\ pc[a] = "loadEdges" => graph[a] = FromSnapshot(facts, events, {})
    /\ pc[a] = "read" => graph[a] = StoredGraph
    /\ pc[a] \in {"build", "persist"} =>
          /\ \A f \in Fact : facts[f] # Missing => graph[a].facts[f] = facts[f]
          /\ events \subseteq graph[a].events
          /\ edges \subseteq graph[a].edges
          /\ \A p \in graph[a].repeats : p[2][1] = a

\* A fact is new to a call if nobody has stored it, and then it has a spelling
\* of the call's result; no other call reports it, or links to it, meanwhile;
\* and all other facts the call knows are stored.
NewAt(c) ==
    /\ pc[c] \in {"build", "persist"} \/ Committed(c) =>
          \A f \in newFacts[c] : graph[c].facts[f] \in Spellings(ret[c], f)
    /\ pc[c] = "build" => \A f \in newFacts[c] : facts[f] = Missing
    /\ pc[c] = "persist" =>
          /\ \A d \in Call \ {c} : Committed(d) => newFacts[c] \cap newFacts[d] = {}
          /\ \A e \in edges : e.event[1] # c => e.target \notin newFacts[c]
    /\ pc[c] \in {"build", "persist"} =>
          \A f \in Fact : Knows(graph[c], f) => facts[f] # Missing \/ f \in newFacts[c]
    /\ pc[c] \in {"acquire"} \cup InCriticalSection => ret[c] \in Returns[ToolOf[c]]

\* The inductive invariant of one worker, next to Inv.
SoloInv ==
    /\ LockHeld
    /\ \A a \in Actor : SeesStore(a)
    /\ \A c \in Call : NewAt(c)
    /\ FactIsNewOnce
    /\ LoadsAreConsistent

\* In one worker, ingests and reads are as good as atomic: a read tool answers
\* from a state of the session in which every ingest is there whole or not at
\* all, and what a failing store leaves of one shows only when the call is over.
ImplementsAtomic == Atomic!Spec

\* The value of a fact, in the store or in the graph of an actor, is a spelling
\* of it that some call has returned.
ValuesSaid ==
    \A f \in Fact :
        \A v \in {facts[f]} \cup {graph[a].facts[f] : a \in Actor} :
            v = Missing \/ \E d \in Call : v \in Spellings(ret[d], f)

\* Across workers, whatever the interleaving and wherever one dies, the store is
\* a graph that only grows, by parts of what calls returned, with all edges
\* closed; and a call that goes on to its record has its whole result in it.
ImplementsMerged == Merged!Spec
==============================================================================
