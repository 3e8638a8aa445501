--------------------------------- MODULE Walk ---------------------------------
(****************************************************************************)
(* How the result of a tool is taken apart (extract.py, _walk): depth first *)
(* through the models it holds, each field by the rule that fits its value  *)
(* and its marker.  What reaches _emit_one is what Ingest calls an          *)
(* Occurrence.  The tools are pinned by the steps of Schema.                *)
(****************************************************************************)
EXTENDS Schema

CONSTANTS
    Object,     \* model instances, none of which holds itself
    ClassOf,    \* the class of each
    Holds       \* what each of its fields holds, in order

Kind == {"none", "scalar", "model", "list", "dict", "tuple"}

\* The values of fields, and of the lists in fields.
FieldValue == UNION {ToSet(Holds[o]) : o \in Object}
ItemValue == UNION {ToSet(v.items) : v \in {w \in FieldValue : w.kind = "list"}}
Value == FieldValue \cup ItemValue

ASSUME WalkAssumption ==
    /\ None \notin Object
    /\ ClassOf \in [Object -> Class]
    /\ Holds \in [Object -> Seq(FieldValue)]
    /\ \A o \in Object : DOMAIN Holds[o] = DOMAIN Fields[ClassOf[o]]
    /\ \A v \in FieldValue : v.kind = "list" => v.items \in Seq(ItemValue)
    /\ \A v \in Value : v.kind \in Kind /\ (v.kind = "model" => v.object \in Object)

VARIABLES
    result,     \* the instance being walked
    todo,       \* what is left of it: the next value first
    emitted,    \* occurrences handed to _emit_one
    outcome

walking == <<result, todo, emitted, outcome>>

WalkInit == Init /\ result = None /\ todo = <<>> /\ emitted = {} /\ outcome = "none"

------------------------------------------------------------------------------
\* A value, where it was found: field k of instance o, or in the list there.
Found(o, k, v, inList) == [object |-> o, field |-> k, value |-> v, inList |-> inList]

\* model_fields, one by one.
Values(o) == [k \in DOMAIN Holds[o] |-> Found(o, k, Holds[o][k], FALSE)]

Elements(x) ==
    [i \in DOMAIN x.value.items |-> Found(x.object, x.field, x.value.items[i], TRUE)]

Marked(x) == Fields[ClassOf[x.object]][x.field].entity # None

\* The tool returns an instance of the model it was pinned with.
Return(o) ==
    /\ model = None
    /\ outcome # "walking"
    /\ ClassOf[o] \in accepted
    /\ result' = o
    /\ todo' = Values(o)
    /\ emitted' = {}
    /\ outcome' = "walking"
    /\ UNCHANGED vars

\* The next value, and the action it gets.
Next1(x) == outcome = "walking" /\ todo # <<>> /\ x = Head(todo)

\* Rules 1, 3 and 4 raise on these.
Unsupported(x) ==
    IF x.inList
    THEN x.value.kind \in {"dict", "list", "tuple"} \/ (Marked(x) /\ x.value.kind = "model")
    ELSE Marked(x) /\ x.value.kind \in {"dict", "tuple"}

Raise(x) ==
    /\ Next1(x)
    /\ Unsupported(x)
    /\ todo' = <<>>
    /\ outcome' = "raised"
    /\ UNCHANGED <<vars, result, emitted>>

\* Rules 3 and 4: a list, element by element.
Spread(x) ==
    /\ Next1(x)
    /\ x.value.kind = "list" /\ ~x.inList
    /\ todo' = Elements(x) \o Tail(todo)
    /\ UNCHANGED <<vars, result, emitted, outcome>>

\* Mutant: the models of a list are passed over.
GoInto_FieldsOnly(x) ==
    /\ Next1(x)
    /\ x.value.kind = "model" /\ ~Marked(x)
    /\ todo' = (IF x.inList THEN <<>> ELSE Values(x.value.object)) \o Tail(todo)
    /\ UNCHANGED <<vars, result, emitted, outcome>>

\* Rule 4: a model without a marker is walked in turn.
GoInto(x) ==
    /\ Next1(x)
    /\ x.value.kind = "model" /\ ~Marked(x)
    /\ todo' = Values(x.value.object) \o Tail(todo)
    /\ UNCHANGED <<vars, result, emitted, outcome>>

\* Rules 1 and 3: anything else that is marked, even a model in a field whose
\* annotation does not mention one.
Emit(x) ==
    /\ Next1(x)
    /\ Marked(x) /\ ~Unsupported(x)
    /\ x.value.kind \in {"scalar", "model"}
    /\ emitted' = emitted \cup {x}
    /\ todo' = Tail(todo)
    /\ UNCHANGED <<vars, result, outcome>>

\* Rules 2 and 5: None, and what is not marked and no model to go into.
PassOver(x) ==
    /\ Next1(x)
    /\ ~Unsupported(x)
    /\ x.value.kind = "none" \/ (~Marked(x) /\ x.value.kind \in {"scalar", "dict", "tuple"})
    /\ todo' = Tail(todo)
    /\ UNCHANGED <<vars, result, emitted, outcome>>

EndWalk ==
    /\ outcome = "walking"
    /\ todo = <<>>
    /\ outcome' = "done"
    /\ UNCHANGED <<vars, result, todo, emitted>>

\* Fields whose values become properties of the event.
EventProperties(o) ==
    {k \in DOMAIN Holds[o] : Fields[ClassOf[o]][k].entity = None /\ Holds[o][k].kind = "scalar"}

StepWalk ==
    \/ EndWalk
    \/ todo # <<>> /\ LET x == Head(todo) IN
          Raise(x) \/ Spread(x) \/ GoInto(x) \/ Emit(x) \/ PassOver(x)

Next ==
    \/ Scan /\ UNCHANGED walking
    \/ (\E m \in Class : Pin(m)) /\ UNCHANGED walking
    \/ \E o \in Object : Return(o)
    \/ StepWalk

\* A scan, once begun, is run to its end, and so is a walk.
Spec == WalkInit /\ [][Next]_<<vars, walking>>
            /\ WF_<<vars, walking>>(Scan /\ UNCHANGED walking) /\ WF_<<vars, walking>>(StepWalk)

------------------------------------------------------------------------------
(* Properties.                                                              *)

\* What the fields of an instance hold, lists taken apart.
Held(o) ==
    UNION {IF x.value.kind = "list" THEN ToSet(Elements(x)) ELSE {x} : x \in ToSet(Values(o))}

\* Instances a walk should see: those in every set with o that is closed under
\* what unmarked fields hold.
Within == [o \in Object |->
    LET IsClosed(S) == \A p \in S : \A x \in Held(p) :
                          ~Marked(x) /\ x.value.kind = "model" => x.value.object \in S
    IN {p \in Object : \A S \in SUBSET Object : o \in S /\ IsClosed(S) => p \in S}]

AllHeld == [o \in Object |-> UNION {Held(p) : p \in Within[o]}]

\* What the rules are for (extraction-rules.md): None, primitives, and models in
\* fields without a marker; lists of these have been taken apart.
Fits(x) == x.value.kind \in {"none", "scalar"} \cup (IF Marked(x) THEN {} ELSE {"model"})

\* Elements that are of one type, as far as kinds and classes go, or None.
SameType(items) ==
    \A v, w \in {u \in ToSet(items) : u.kind # "none"} :
        v.kind = w.kind /\ (v.kind = "model" => ClassOf[v.object] = ClassOf[w.object])

\* Fields that are "unsupported shapes" (extraction-rules.md), and go through all
\* the same: containers in an unmarked field, a model in a marked field, and
\* elements that are walked, or emitted, though they are not of one type.
Tolerated(x) ==
    \/ x.value.kind \in {"dict", "tuple"} /\ ~Marked(x)
    \/ x.value.kind = "model" /\ Marked(x)
    \/ x.value.kind = "list" /\ ~SameType(x.value.items)

\* A result has none of them, at whatever depth.
IsRegular(o) == \A p \in Within[o] : \A x \in ToSet(Values(p)) : ~Tolerated(x)

\* "the five extraction rules" (extract.py): a walk raises only if something in
\* its result fits no rule, at whatever depth.  A walk of a regular result that
\* does not raise has met nothing of the kind; it has handed over every primitive
\* with a marker within the result and nothing else; and a primitive of the
\* result itself is either a fact or a property of the event, never lost and never
\* both.
WalkIsExact ==
    /\ outcome = "raised" => \E x \in AllHeld[result] : ~Fits(x)
    /\ outcome = "done" /\ IsRegular(result) =>
          /\ \A x \in AllHeld[result] : Fits(x)
          /\ emitted = {x \in AllHeld[result] : Marked(x) /\ x.value.kind = "scalar"}
          /\ \A x \in ToSet(Values(result)) : x.value.kind = "scalar" =>
                ((x \in emitted) # (x.field \in EventProperties(result)))

\* Every model the result holds is of a class its field's annotation mentions.
Conforms(o) ==
    \A x \in AllHeld[o] : ~Marked(x) /\ x.value.kind = "model" =>
        ClassOf[x.value.object] \in ToSet(Fields[ClassOf[x.object]][x.field].nested)

\* The two recursions agree, one over annotations and one over values: what a
\* conforming result emits is of an entity that pinning its model has declared,
\* or has warned about, so that graph_summary knows its type and
\* what_have_i_done its normalizer.
EmittedIsDeclared ==
    outcome # "none" /\ Conforms(result) =>
        \A x \in emitted :
            LET e == Fields[ClassOf[x.object]][x.field].entity IN
            registered[NameOf[e]] = e \/ <<ClassOf[x.object], x.field>> \in warned

\* What the walk of a value comes to, itself or all within it.
InPlace(x) == IF x.value.kind = "list" /\ ~x.inList THEN ToSet(Elements(x)) ELSE {x}
Ahead(x) ==
    InPlace(x) \cup UNION {AllHeld[y.value.object] :
                             y \in {z \in InPlace(x) : ~Marked(z) /\ z.value.kind = "model"}}

\* What a walk does of a value it meets and passes.
Walked(x) == ~Unsupported(x) /\ (Marked(x) /\ x.value.kind # "none" => x \in emitted)

\* A walk goes where it should and nowhere else, and of what it should see it
\* has seen all that is not ahead of it.
WalkOK ==
    \/ outcome = "none" /\ todo = <<>> /\ emitted = {}
    \/ /\ outcome # "none"
       /\ ClassOf[result] \in accepted
       /\ emitted \subseteq {x \in AllHeld[result] : Marked(x) /\ x.value.kind # "none"}
       /\ \A x \in ToSet(todo) : Ahead(x) \subseteq AllHeld[result]
       /\ outcome # "raised" =>
             \A y \in AllHeld[result] : Walked(y) \/ \E x \in ToSet(todo) : y \in Ahead(x)

\* A value is where its instance has a field, and only a field holds a list
\* that is taken apart.
Occurs(x) ==
    /\ x.field \in DOMAIN Holds[x.object]
    /\ x.value \in (IF x.inList THEN ItemValue ELSE FieldValue)

WalkTypeOK ==
    /\ result \in Object \cup {None}
    /\ outcome \in {"none", "walking", "done", "raised"}
    /\ outcome # "none" => result # None
    /\ outcome # "walking" => todo = <<>>
    /\ todo \in Seq([object : Object, field : Nat, value : Value, inList : BOOLEAN])
    /\ \A x \in ToSet(todo) : Occurs(x)

\* The invariant: that of the scans, and where a walk stands.
Inv == SchemaInv /\ WalkTypeOK /\ WalkOK /\ WalkIsExact /\ EmittedIsDeclared
==============================================================================
