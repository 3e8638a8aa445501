-------------------------------- MODULE Schema --------------------------------
(****************************************************************************)
(* What @pin learns of a model class when it is applied (registry.py):      *)
(* the class and every class its annotations mention are scanned depth      *)
(* first, the Entity of each node() field is registered under its name, and *)
(* a node() field that is typed with a model is refused.                    *)
(*                                                                          *)
(* The recursion of _scan is an agenda: classes to enter and fields to look *)
(* at, the next one first.                                                  *)
(****************************************************************************)
EXTENDS Naturals, Sequences, SequencesExt

CONSTANTS
    Class,      \* pydantic models
    Fields,     \* the fields of each class, in order
    Entity,     \* entities, as values: name, description and normalizer
    Name, NameOf,
    None

\* The Entity of the node() marker, if any, and the models that the annotation
\* mentions, in order.
Field == [entity : Entity \cup {None}, nested : Seq(Class)]

ASSUME SchemaAssumption ==
    /\ Fields \in [Class -> Seq(Field)]
    /\ NameOf \in [Entity -> Name]
    /\ None \notin Entity \cup Class
    /\ \A c \in Class : \A k \in DOMAIN Fields[c] : <<c, k>> \notin Class

VARIABLES
    registered, \* the entity declared under each name
    warned,     \* fields for which a name collision was logged
    model,      \* the model being pinned
    seen,       \* classes this scan has entered
    agenda,     \* what is left of it
    accepted, rejected  \* models @pin was applied to, by outcome

vars == <<registered, warned, model, seen, agenda, accepted, rejected>>

Init ==
    /\ registered = [n \in Name |-> None]
    /\ warned = {}
    /\ model = None
    /\ seen = {}
    /\ agenda = <<>>
    /\ accepted = {}
    /\ rejected = {}

------------------------------------------------------------------------------
\* The fields of a class, as places to look at.
Places(c) == [k \in DOMAIN Fields[c] |-> <<c, k>>]

FieldAt(place) == Fields[place[1]][place[2]]

IsPlace(x) == x \notin Class

Pin(m) ==
    /\ model = None
    /\ model' = m
    /\ seen' = {}
    /\ agenda' = <<m>>
    /\ UNCHANGED <<registered, warned, accepted, rejected>>

\* Mutant: the class is not remembered.
Enter_Unseen ==
    /\ agenda # <<>> /\ ~IsPlace(Head(agenda))
    /\ agenda' = Places(Head(agenda)) \o Tail(agenda)
    /\ UNCHANGED <<registered, warned, model, seen, accepted, rejected>>

\* _scan of a class, which does nothing the second time.
Enter ==
    /\ agenda # <<>> /\ ~IsPlace(Head(agenda))
    /\ agenda' = (IF Head(agenda) \in seen THEN <<>> ELSE Places(Head(agenda))) \o Tail(agenda)
    /\ seen' = seen \cup {Head(agenda)}
    /\ UNCHANGED <<registered, warned, model, accepted, rejected>>

LookAt(place) == agenda # <<>> /\ Head(agenda) = place /\ IsPlace(place)

\* Mutant: the marker of a field typed with models is looked past.
MisMarked_Never(f) == FALSE

\* _check_node_field_shape: node() on a field that is typed with a model.
MisMarked(f) == f.entity # None /\ f.nested # <<>>

\* Mutant: the refusal is noted, and the scan goes on.
Refuse_GoesOn(place) ==
    /\ LookAt(place)
    /\ MisMarked(FieldAt(place))
    /\ rejected' = rejected \cup {model}
    /\ agenda' = Tail(agenda)
    /\ UNCHANGED <<registered, warned, model, seen, accepted>>

\* The field raises out of register_model; what was registered stays.
Refuse(place) ==
    /\ LookAt(place)
    /\ MisMarked(FieldAt(place))
    /\ rejected' = rejected \cup {model}
    /\ model' = None
    /\ agenda' = <<>>
    /\ UNCHANGED <<registered, warned, seen, accepted>>

\* Mutant: the last registration wins.
RegisterEntity_LastWins(e, place) ==
    /\ registered' = [registered EXCEPT ![NameOf[e]] = e]
    /\ warned' = IF registered[NameOf[e]] \in {None, e} THEN warned ELSE warned \cup {place}

\* The first entity of a name is kept, another one is warned about.
RegisterEntity(e, place) ==
    LET existing == registered[NameOf[e]] IN
    /\ registered' = IF existing = None THEN [registered EXCEPT ![NameOf[e]] = e]
                     ELSE registered
    /\ warned' = IF existing \in {None, e} THEN warned ELSE warned \cup {place}

Register(place) ==
    LET f == FieldAt(place) IN
    /\ LookAt(place)
    /\ f.entity # None
    /\ ~MisMarked(f)
    /\ RegisterEntity(f.entity, place)
    /\ agenda' = Tail(agenda)
    /\ UNCHANGED <<model, seen, accepted, rejected>>

\* Mutant: only the first of a union is scanned.
Descend_First(place) ==
    LET f == FieldAt(place) IN
    /\ LookAt(place)
    /\ f.entity = None
    /\ agenda' = (IF f.nested = <<>> THEN <<>> ELSE <<Head(f.nested)>>) \o Tail(agenda)
    /\ UNCHANGED <<registered, warned, model, seen, accepted, rejected>>

\* A field without a marker: on to the models it mentions.
Descend(place) ==
    LET f == FieldAt(place) IN
    /\ LookAt(place)
    /\ f.entity = None
    /\ agenda' = f.nested \o Tail(agenda)
    /\ UNCHANGED <<registered, warned, model, seen, accepted, rejected>>

Finish ==
    /\ model # None
    /\ agenda = <<>>
    /\ accepted' = accepted \cup {model}
    /\ model' = None
    /\ UNCHANGED <<registered, warned, seen, agenda, rejected>>

Scan ==
    \/ Enter \/ Finish
    \/ \E c \in Class : \E k \in DOMAIN Fields[c] :
          Refuse(<<c, k>>) \/ Register(<<c, k>>) \/ Descend(<<c, k>>)

------------------------------------------------------------------------------
(* Properties.                                                              *)

\* Classes a scan of m should see: those in every set with m that is closed
\* under what unmarked fields mention.
Reachable == [m \in Class |->
    LET IsClosed(S) == \A c \in S : \A f \in ToSet(Fields[c]) :
                          f.entity = None => ToSet(f.nested) \subseteq S
    IN {c \in Class : \A S \in SUBSET Class : m \in S /\ IsClosed(S) => c \in S}]

\* "node() expects a primitive or list[primitive]" (registry.py): a model is
\* refused exactly when a field that says otherwise can be reached from it,
\* through classes that mention each other in circles or not.
VerdictIsReachability ==
    LET IsSound(c) == \A f \in ToSet(Fields[c]) : f.entity = None \/ f.nested = <<>> IN
    /\ \A m \in accepted : \A c \in Reachable[m] : IsSound(c)
    /\ \A m \in rejected : \E c \in Reachable[m] : ~IsSound(c)

\* "a warning is emitted and the first registration wins" (registry.py): once
\* a model is accepted, the entity of each field that can be reached from it
\* is the one its name stands for in graph_summary and what_have_i_done, or a
\* warning has named the field; no registration, not even one in between by a
\* model that was refused, changes that.
DeclaredOrWarned ==
    \A m \in accepted : \A c \in Reachable[m] : \A k \in DOMAIN Fields[c] :
        LET e == Fields[c][k].entity IN
        e # None => registered[NameOf[e]] = e \/ <<c, k>> \in warned

\* A place is done with: what it mentions is seen or about to be, or the entity
\* it marks is declared or warned about.
LookedAt(c, k) ==
    LET f == Fields[c][k] IN
    IF f.entity = None THEN ToSet(f.nested) \subseteq seen \cup ToSet(agenda)
    ELSE /\ ~MisMarked(f)
         /\ registered[NameOf[f.entity]] = f.entity \/ <<c, k>> \in warned

\* A scan holds nothing that cannot be reached, and owes nothing that it does
\* not hold.
ScanOK ==
    IF model = None THEN agenda = <<>>
    ELSE /\ model \in seen \cup ToSet(agenda)
         /\ seen \subseteq Reachable[model]
         /\ \A x \in ToSet(agenda) :
               \/ x \in Reachable[model]
               \/ \E c \in Reachable[model] : \E k \in DOMAIN Fields[c] : x = <<c, k>>
         /\ \A c \in seen : \A k \in DOMAIN Fields[c] :
               <<c, k>> \in ToSet(agenda) \/ LookedAt(c, k)

Place == UNION {{<<c, k>> : k \in DOMAIN Fields[c]} : c \in Class}

SchemaTypeOK ==
    /\ registered \in [Name -> Entity \cup {None}]
    /\ \A n \in Name : registered[n] # None => NameOf[registered[n]] = n
    /\ model \in Class \cup {None}
    /\ seen \cup accepted \cup rejected \subseteq Class
    /\ agenda \in Seq(Class \cup Place)

\* The invariant that the verdicts follow from.
SchemaInv == SchemaTypeOK /\ ScanOK /\ VerdictIsReachability /\ DeclaredOrWarned

\* "models like Process(parent: Process | None) do not loop" (registry.py).
ScansEnd == (model # None) ~> (model = None)
==============================================================================
