------------------------------- MODULE MCRecall -------------------------------
(* Small instances of Recall and Report for TLC.                              *)
EXTENDS Report

CONSTANTS f1, f2, srcIp, dstIp, lookup, scan

\* f1 has two spellings.
MCCanonical ==
    [v \in Value |->
        CASE v \in {"1.2.3.4", " 1.2.3.4 "} -> f1
          [] v = "8.8.8.8" -> f2
          [] v = "" -> Dropped]

MCTypeOf == [f \in Fact |-> "IP"]

Src(v) == [type |-> srcIp, value |-> v]
Dst(v) == [type |-> dstIp, value |-> v]

\* An item may name a fact twice, in one field or in two.
Items == {<<>>, <<Src("1.2.3.4")>>, <<Src(" 1.2.3.4 "), Dst("8.8.8.8"), Dst("1.2.3.4")>>,
          <<Dst("8.8.8.8"), Dst(""), Dst("8.8.8.8")>>}

\* "lookup" returns one item, "scan" (many=True) a list of up to two.
MCResults ==
    [t \in Tool |-> IF t = lookup THEN {<<i>> : i \in Items}
                    ELSE {<<>>} \cup {<<i, j>> : i, j \in Items}]
==============================================================================
