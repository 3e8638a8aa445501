---------------------------- MODULE MergedSession ----------------------------
(****************************************************************************)
(* What is left of AtomicSession when workers share a store but no lock:    *)
(* "cross-process correctness comes from the mergeable data model"          *)
(* (session.py).  Each call adds parts of its own result in any order with  *)
(* the others, nothing is ever taken back, no edge lacks an end, and a call *)
(* is finished only when all it says is there.                              *)
(****************************************************************************)
EXTENDS FactGraph

CONSTANT Result     \* results the tool of each call may return

VARIABLES
    session,    \* the graph of the session
    said,       \* the result of each call
    finished    \* calls that go on to report a finished ingest

vars == <<session, said, finished>>

Init ==
    /\ session = EmptyGraph
    /\ said = [c \in Call |-> <<>>]
    /\ finished = {}

Return(c) ==
    /\ said[c] = <<>>
    /\ c \notin finished
    /\ \E items \in Result[c] : said' = [said EXCEPT ![c] = items]
    /\ UNCHANGED <<session, finished>>

\* A fact may take another spelling, but one that some call has returned.
Respelled(g, h) ==
    \A f \in Fact : \/ h.facts[f] = g.facts[f]
                    \/ \E d \in Call : h.facts[f] \in Spellings(said[d], f)

Add(c) ==
    /\ c \notin finished
    /\ Grows(session, session', c, said[c])
    /\ Respelled(session, session')
    /\ Closed(session')
    /\ UNCHANGED <<said, finished>>

Finish(c) ==
    /\ HoldsAll(session, c, said[c])
    /\ finished' = finished \cup {c}
    /\ UNCHANGED <<session, said>>

\* Workers die, and what their calls would have reported with them.
Die == \E alive \in SUBSET finished : finished' = alive /\ UNCHANGED <<session, said>>

Next == (\E c \in Call : Return(c) \/ Add(c) \/ Finish(c)) \/ Die

Spec == Init /\ [][Next]_vars
==============================================================================
