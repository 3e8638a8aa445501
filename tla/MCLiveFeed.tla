------------------------------ MODULE MCLiveFeed ------------------------------
(* Small instances of LiveFeed for TLC.                                     *)
EXTENDS LiveFeed

CONSTANTS i1, i2, f1, w1, w2

\* Whichever ingest is first creates the fact the other links to.
SharedFact == [i \in Ingest |-> {f1}]

\* The second ingest has an event only.
OneFact == [i \in Ingest |-> IF i = i1 THEN {f1} ELSE {}]

OneThread == [i \in Ingest |-> 1]
OwnThread == [i \in Ingest |-> i]
==============================================================================
