---------------------------- MODULE AtomicSession ----------------------------
(****************************************************************************)
(* What the session lock promises the threads of one worker (session.py):   *)
(* an ingest is one step, a read is one step, and a call whose store fails  *)
(* on it leaves a part of its result, with no edge that lacks an end.       *)
(****************************************************************************)
EXTENDS FactGraph

CONSTANTS
    Reader,     \* calls of read tools
    Result,     \* results the tool of each call may return
    None

VARIABLES
    session,    \* the graph of the session
    ended,      \* calls whose ingest is over, or broken off
    answer      \* the graph each read tool answers from

vars == <<session, ended, answer>>

Init ==
    /\ session = EmptyGraph
    /\ ended = {}
    /\ answer = [r \in Reader |-> None]

\* A fact that is known keeps its value; a new one has a spelling of the result.
TakesValues(g, h, items) ==
    \A f \in Fact : \/ h.facts[f] = g.facts[f]
                    \/ ~Knows(g, f) /\ h.facts[f] \in Spellings(items, f)

EndsWith(c, items) ==
    /\ c \notin ended
    /\ ended' = ended \cup {c}
    /\ Grows(session, session', c, items)
    /\ TakesValues(session, session', items)
    /\ UNCHANGED answer

\* The whole result of call c, at once.
Ingest(c) == \E items \in Result[c] : EndsWith(c, items) /\ HoldsAll(session', c, items)

\* A store operation of call c failed: a part of its result, or nothing.
BreakOff(c) == \E items \in Result[c] \cup {<<>>} : EndsWith(c, items) /\ Closed(session')

Read(r) ==
    /\ answer[r] = None
    /\ answer' = [answer EXCEPT ![r] = session]
    /\ UNCHANGED <<session, ended>>

Next == (\E c \in Call : Ingest(c) \/ BreakOff(c)) \/ (\E r \in Reader : Read(r))

Spec == Init /\ [][Next]_vars
==============================================================================
