------------------------------- MODULE MCExplore -------------------------------
(* Small instances of Explore for TLC: every graph of three events and some   *)
(* facts, all of which are stored; the walk starts from f1.                   *)
EXTENDS Explore, TLC

CONSTANTS c1, c2, c3, f1, f2, f3, f4, field

\* Values do not matter here: each fact was seen in its canonical spelling.
MCCanonical == [v \in Value |-> v]

Events == {<<c, 1>> : c \in Call}

MCGraphs ==
    {FromSnapshot([f \in Fact |-> f], Events, es) :
        es \in SUBSET [event : Events, type : EdgeType, target : Fact]}

Request(depth, direction, skip, max) ==
    [start |-> f1, depth |-> depth, direction |-> direction, skip |-> skip, max |-> max]

MCRequests ==
    {Request(d, "both", TRUE, m) : d \in {0, 1, 2}, m \in {2, 30}}
        \cup {Request(2, dir, FALSE, 30) : dir \in Direction}
        \cup {Request(3, "both", FALSE, 2)}

Symmetry == Permutations({f2, f3, f4}) \cup Permutations(Call)
==============================================================================
