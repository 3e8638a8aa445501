------------------------------- MODULE MCSchema -------------------------------
(* A small schema for TLC: models that mention each other in circles, two     *)
(* entities of one name, and a model that is refused because of another.      *)
EXTENDS Walk

CONSTANTS process, alert, host, broken, wrapper, pid, ip, otherIp, e1, e2, e3, e4, e5, e6, e7, p1, p2, h1

Node(e) == [entity |-> e, nested |-> <<>>]
Plain(nested) == [entity |-> None, nested |-> nested]

MCFields ==
    [c \in Class |->
        CASE c = process -> <<Node(pid), Plain(<<process>>)>>
          [] c = alert -> <<Node(ip), Plain(<<process, host>>), Plain(<<>>)>>
          [] c = host -> <<Node(otherIp), Plain(<<alert>>)>>
          [] c = broken -> <<Node(otherIp), [entity |-> pid, nested |-> <<process>>]>>
          [] c = wrapper -> <<Plain(<<process, broken>>), Node(ip)>>]

MCNameOf == [e \in Entity |-> IF e = pid THEN "PID" ELSE "IP"]

MCClassOf ==
    [o \in Object |-> CASE o \in {p1, p2} -> process [] o = h1 -> host [] OTHER -> alert]

NoValue == [kind |-> "none"]
Scalar == [kind |-> "scalar"]
Dict == [kind |-> "dict"]
Tuple == [kind |-> "tuple"]
Model(o) == [kind |-> "model", object |-> o]
List(s) == [kind |-> "list", items |-> s]

\* e2 and e4 hold what is refused, e6 a model in a field that mentions none; p1,
\* p2, h1, e2 and e7 are regular.
MCHolds ==
    [o \in Object |->
        CASE o = p1 -> <<Scalar, Model(p2)>>
          [] o = p2 -> <<Scalar, NoValue>>
          [] o = h1 -> <<List(<<Scalar, NoValue>>), NoValue>>
          [] o = e1 -> <<Scalar, List(<<Model(p1), Model(h1), Model(p2)>>), Scalar>>
          [] o = e2 -> <<List(<<Scalar, Dict>>), NoValue, NoValue>>
          [] o = e3 -> <<Model(p1), Model(h1), Dict>>
          [] o = e4 -> <<NoValue, Model(p1), List(<<Scalar, List(<<>>)>>)>>
          [] o = e5 -> <<Tuple, NoValue, Scalar>>
          [] o = e6 -> <<Scalar, NoValue, List(<<Scalar, Model(h1)>>)>>
          [] o = e7 -> <<Scalar, List(<<Model(p1), NoValue, Model(p2)>>), Scalar>>]
==============================================================================
