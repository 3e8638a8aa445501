------------------------------- MODULE MCIngest -------------------------------
(* Small instances of Ingest for TLC.                                       *)
EXTENDS IngestRefinement, TLC

CONSTANTS c1, c2, c3, r1, p1, p2, f1, f2, srcIp, dstIp, lookup, scan

MCCanonical ==
    [v \in Value |->
        CASE v \in {"1.2.3.4", " 1.2.3.4 "} -> f1
          [] v = "evil.com" -> f2
          [] v = "" -> Dropped
          [] v = "malformed" -> Raises]

Field(t, v) == [type |-> t, value |-> v]

One(v) == <<Field(srcIp, v)>>

\* "lookup" returns one item, "scan" (many=True) a list.
MCReturns ==
    [t \in Tool |->
        IF t = lookup
        THEN { << <<Field(srcIp, "1.2.3.4"), Field(dstIp, "1.2.3.4")>> >>,
               << <<Field(srcIp, " 1.2.3.4 "), Field(dstIp, "malformed")>> >> }
        ELSE { <<>>,
               << One(" 1.2.3.4 "), <<Field(srcIp, ""), Field(dstIp, "evil.com")>> >> }]

\* Short and valid results only, which leaves room for more interleavings.
ShortReturns ==
    [t \in Tool |-> IF t = lookup THEN {<<One("1.2.3.4")>>}
                    ELSE {<<One(" 1.2.3.4 "), One("evil.com")>>}]

MCToolOf == [c \in Call |-> IF c = c3 THEN scan ELSE lookup]
MCArgsOf == [c \in Call |-> "args"]
MCPolicy == [t \in Tool |-> IF t = lookup THEN "skip" ELSE "always"]

OneWorker == [a \in Actor |-> p1]
TwoWorkers == [a \in Actor |-> IF a \in {c2, r1} THEN p2 ELSE p1]
==============================================================================
