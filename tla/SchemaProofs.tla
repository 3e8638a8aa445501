----------------------------- MODULE SchemaProofs -----------------------------
(****************************************************************************)
(* What @pin says of a model is what can be reached from it, and what a     *)
(* walk hands over is what its result holds: proved for every schema, with  *)
(* circles in it or not, and every result.                                  *)
(*                                                                          *)
(* Both recursions are agendas in the model, and both targets intersections *)
(* of closed sets.  So each proof has the same two halves: what is on the   *)
(* agenda lies within every closed set, and when the agenda is empty, what  *)
(* was seen is a closed set itself.                                         *)
(****************************************************************************)
EXTENDS Walk, ListLemmas

USE SchemaAssumption

------------------------------------------------------------------------------
(* Places and what can be reached.                                          *)

LEMMA FieldTyped ==
    ASSUME NEW c \in Class, NEW k \in DOMAIN Fields[c]
    PROVE  /\ Fields[c] \in Seq(Field) /\ Fields[c][k] \in Field
           /\ Fields[c][k].entity \in Entity \cup {None}
           /\ Fields[c][k].nested \in Seq(Class)
           /\ ToSet(Fields[c][k].nested) \subseteq Class
           /\ Fields[c][k] \in ToSet(Fields[c])
           /\ <<c, k>> \in Place /\ <<c, k>> \notin Class
           /\ k \in Nat \ {0}
  <1>1. Fields[c] \in Seq(Field)
    OBVIOUS
  <1>2. Fields[c][k] \in Field /\ k \in Nat \ {0}
    BY <1>1
  <1>3. Fields[c][k].entity \in Entity \cup {None} /\ Fields[c][k].nested \in Seq(Class)
    BY <1>2 DEF Field
  <1>4. ToSet(Fields[c][k].nested) \subseteq Class
    BY <1>3 DEF ToSet
  <1>5. Fields[c][k] \in ToSet(Fields[c])
    BY DEF ToSet
  <1>6. <<c, k>> \in Place
    BY DEF Place
  <1>7. QED
    BY <1>1, <1>2, <1>3, <1>4, <1>5, <1>6

LEMMA PlacesAt ==
    ASSUME NEW c \in Class
    PROVE  /\ Places(c) \in Seq(Place)
           /\ ToSet(Places(c)) = {<<c, k>> : k \in DOMAIN Fields[c]}
  <1>1. Fields[c] \in Seq(Field)
    OBVIOUS
  <1>2. DOMAIN Fields[c] = 1 .. Len(Fields[c]) /\ Len(Fields[c]) \in Nat
    BY <1>1
  <1>3. \A k \in DOMAIN Fields[c] : <<c, k>> \in Place
    BY DEF Place
  <1>4. Places(c) \in Seq(Place)
    BY <1>2, <1>3 DEF Places
  <1>5. ToSet(Places(c)) = {<<c, k>> : k \in DOMAIN Fields[c]}
    BY DEF Places, ToSet
  <1>6. QED
    BY <1>4, <1>5

\* Closed under what unmarked fields mention.
Closed(S) ==
    \A c \in S : \A k \in DOMAIN Fields[c] :
        Fields[c][k].entity = None => ToSet(Fields[c][k].nested) \subseteq S

\* Reachable[m] is the least closed set with m in it.
LEMMA ReachableIsLeast ==
    ASSUME NEW m \in Class
    PROVE  /\ m \in Reachable[m] /\ Reachable[m] \subseteq Class
           /\ Closed(Reachable[m])
           /\ \A S \in SUBSET Class : m \in S /\ Closed(S) => Reachable[m] \subseteq S
  <1> DEFINE IsClosed(S) == \A c \in S : \A f \in ToSet(Fields[c]) :
                               f.entity = None => ToSet(f.nested) \subseteq S
             R == {c \in Class : \A S \in SUBSET Class : m \in S /\ IsClosed(S) => c \in S}
  <1>1. Reachable[m] = R
    BY DEF Reachable
  <1>2. ASSUME NEW S PROVE IsClosed(S) <=> Closed(S)
    <2>2. ASSUME IsClosed(S), NEW c \in S, NEW k \in DOMAIN Fields[c],
                 Fields[c][k].entity = None
          PROVE  ToSet(Fields[c][k].nested) \subseteq S
      <3> HIDE DEF IsClosed
      <3>1. Fields[c][k] \in ToSet(Fields[c])
        BY DEF ToSet
      <3>2. QED
        BY <2>2, <3>1 DEF IsClosed
    <2>3. ASSUME Closed(S), NEW c \in S, NEW f \in ToSet(Fields[c]), f.entity = None
          PROVE  ToSet(f.nested) \subseteq S
      <3>1. PICK k \in DOMAIN Fields[c] : f = Fields[c][k]
        BY DEF ToSet
      <3>2. QED
        BY <2>3, <3>1 DEF Closed
    <2>4. QED
      BY <2>2, <2>3 DEF Closed
  <1>3. m \in R /\ R \subseteq Class
    OBVIOUS
  <1>4. \A S \in SUBSET Class : m \in S /\ Closed(S) => R \subseteq S
    BY <1>2
  <1>5. Closed(R)
    <2> SUFFICES ASSUME NEW c \in R, NEW k \in DOMAIN Fields[c], Fields[c][k].entity = None,
                        NEW d \in ToSet(Fields[c][k].nested)
                 PROVE  d \in R
      BY DEF Closed
    <2>1. c \in Class /\ d \in Class
      BY FieldTyped
    <2>2. ASSUME NEW S \in SUBSET Class, m \in S, IsClosed(S) PROVE d \in S
      <3>1. c \in S
        BY <2>2
      <3>2. Closed(S)
        BY <1>2, <2>2
      <3>3. QED
        BY <3>1, <3>2 DEF Closed
    <2>3. QED
      BY <2>1, <2>2
  <1>6. QED
    BY <1>1, <1>3, <1>4, <1>5

------------------------------------------------------------------------------
(* The scan.                                                                *)

\* What was declared or warned about stays so.
LEMMA RegisterGrows ==
    ASSUME SchemaTypeOK, NEW e \in Entity, NEW p, RegisterEntity(e, p)
    PROVE  /\ registered' \in [Name -> Entity \cup {None}]
           /\ \A n \in Name : registered'[n] # None => NameOf[registered'[n]] = n
           /\ \A d \in Entity : registered[NameOf[d]] = d => registered'[NameOf[d]] = d
           /\ warned \subseteq warned'
           /\ registered'[NameOf[e]] = e \/ p \in warned'
  <1> USE DEF SchemaTypeOK
  <1>1. NameOf[e] \in Name /\ None \notin Entity /\ \A d \in Entity : NameOf[d] \in Name
    OBVIOUS
  <1>2. registered' = (IF registered[NameOf[e]] = None THEN [registered EXCEPT ![NameOf[e]] = e]
                       ELSE registered)
    BY DEF RegisterEntity
  <1>3. warned' = IF registered[NameOf[e]] \in {None, e} THEN warned ELSE warned \cup {p}
    BY DEF RegisterEntity
  <1>4. CASE registered[NameOf[e]] = None
    BY <1>1, <1>2, <1>3, <1>4
  <1>5. CASE registered[NameOf[e]] # None
    BY <1>1, <1>2, <1>3, <1>5
  <1>6. QED
    BY <1>4, <1>5

\* The promises made of accepted models outlast a step that only adds.
LEMMA PromisesStay ==
    ASSUME SchemaTypeOK, VerdictIsReachability, DeclaredOrWarned,
           accepted' = accepted, rejected' = rejected, warned \subseteq warned',
           \A d \in Entity : registered[NameOf[d]] = d => registered'[NameOf[d]] = d
    PROVE  VerdictIsReachability' /\ DeclaredOrWarned'
  <1>1. VerdictIsReachability'
    BY DEF VerdictIsReachability
  <1>2. ASSUME NEW m \in accepted', NEW c \in Reachable[m], NEW k \in DOMAIN Fields[c],
               Fields[c][k].entity # None
        PROVE  \/ registered'[NameOf[Fields[c][k].entity]] = Fields[c][k].entity
               \/ <<c, k>> \in warned'
    <2>1. m \in Class /\ c \in Class
      BY ReachableIsLeast DEF SchemaTypeOK
    <2>2. Fields[c][k].entity \in Entity
      BY <1>2, <2>1, FieldTyped
    <2>3. \/ registered[NameOf[Fields[c][k].entity]] = Fields[c][k].entity
          \/ <<c, k>> \in warned
      BY <1>2 DEF DeclaredOrWarned
    <2>4. QED
      BY <2>2, <2>3
  <1>3. DeclaredOrWarned'
    BY <1>2 DEF DeclaredOrWarned
  <1>4. QED
    BY <1>1, <1>3

\* So is a place looked at, as long as what it mentions is not forgotten.
LEMMA LookedAtStays ==
    ASSUME NEW c \in Class, NEW k \in DOMAIN Fields[c], LookedAt(c, k),
           seen \cup ToSet(agenda) \subseteq seen' \cup ToSet(agenda'), warned \subseteq warned',
           \A d \in Entity : registered[NameOf[d]] = d => registered'[NameOf[d]] = d
    PROVE  LookedAt(c, k)'
  <1>1. Fields[c][k].entity \in Entity \cup {None}
    BY FieldTyped
  <1>2. CASE Fields[c][k].entity = None
    BY <1>2 DEF LookedAt
  <1>3. CASE Fields[c][k].entity # None
    BY <1>1, <1>3 DEF LookedAt, MisMarked
  <1>4. QED
    BY <1>2, <1>3

\* A mention is no place: it is looked for among the classes of the agenda.
LEMMA MentionStays ==
    ASSUME NEW c \in Class, NEW k \in DOMAIN Fields[c], LookedAt(c, k),
           SchemaTypeOK, agenda # <<>>, IsPlace(Head(agenda)),
           seen' = seen, ToSet(Tail(agenda)) \subseteq ToSet(agenda'), warned \subseteq warned',
           \A d \in Entity : registered[NameOf[d]] = d => registered'[NameOf[d]] = d
    PROVE  LookedAt(c, k)'
  <1>1. Fields[c][k].entity \in Entity \cup {None} /\ ToSet(Fields[c][k].nested) \subseteq Class
    BY FieldTyped
  <1>2. CASE Fields[c][k].entity = None
    <2>1. ToSet(Fields[c][k].nested) \subseteq seen \cup ToSet(agenda)
      BY <1>2 DEF LookedAt
    <2>2. ToSet(agenda) = {Head(agenda)} \cup ToSet(Tail(agenda))
      BY TailAt DEF SchemaTypeOK
    <2>3. ToSet(Fields[c][k].nested) \subseteq seen' \cup ToSet(agenda')
      BY <1>1, <2>1, <2>2 DEF IsPlace
    <2>4. QED
      BY <1>2, <2>3 DEF LookedAt
  <1>3. CASE Fields[c][k].entity # None
    BY <1>1, <1>3 DEF LookedAt, MisMarked
  <1>4. QED
    BY <1>2, <1>3

LEMMA SchemaInit == Init => SchemaInv
  <1> SUFFICES ASSUME Init PROVE SchemaInv
    OBVIOUS
  <1>1. SchemaTypeOK
    BY DEF Init, SchemaTypeOK
  <1>2. ScanOK
    BY DEF Init, ScanOK
  <1>3. VerdictIsReachability /\ DeclaredOrWarned
    BY DEF Init, VerdictIsReachability, DeclaredOrWarned
  <1>4. QED
    BY <1>1, <1>2, <1>3 DEF SchemaInv

LEMMA PinKeeps ==
    ASSUME SchemaInv, NEW m \in Class, Pin(m)
    PROVE  SchemaInv'
  <1> USE DEF SchemaInv
  <1>1. agenda' = <<m>> /\ agenda' \in Seq(Class \cup Place) /\ ToSet(agenda') = {m}
    BY DEF Pin, ToSet
  <1>2. SchemaTypeOK'
    BY <1>1 DEF Pin, SchemaTypeOK
  <1>3. ScanOK'
    <2>1. model' = m /\ m # None /\ seen' = {} /\ m \in Reachable[m]
      BY ReachableIsLeast DEF Pin
    <2>2. QED
      BY <1>1, <2>1 DEF ScanOK
  <1>4. VerdictIsReachability' /\ DeclaredOrWarned'
    BY PromisesStay DEF Pin
  <1>5. QED
    BY <1>2, <1>3, <1>4

\* The next place on the agenda is one of a class that can be reached.
LEMMA HeadReachable ==
    ASSUME SchemaInv, NEW c \in Class, NEW k \in DOMAIN Fields[c], LookAt(<<c, k>>)
    PROVE  /\ model \in Class /\ c \in Reachable[model]
           /\ Head(agenda) = <<c, k>> /\ agenda # <<>>
           /\ ToSet(agenda) = {<<c, k>>} \cup ToSet(Tail(agenda))
           /\ Tail(agenda) \in Seq(Class \cup Place)
           /\ Reachable[model] \subseteq Class
  <1> USE DEF SchemaInv
  <1>1. agenda # <<>> /\ Head(agenda) = <<c, k>> /\ <<c, k>> \notin Class
    BY DEF LookAt, IsPlace
  <1>2. model # None /\ model \in Class
    BY <1>1 DEF ScanOK, SchemaTypeOK
  <1>3. /\ ToSet(agenda) = {Head(agenda)} \cup ToSet(Tail(agenda))
        /\ Tail(agenda) \in Seq(Class \cup Place)
    BY <1>1, TailAt DEF SchemaTypeOK
  <1>4. Reachable[model] \subseteq Class
    BY <1>2, ReachableIsLeast
  <1>5. PICK d \in Reachable[model] : \E j \in DOMAIN Fields[d] : <<c, k>> = <<d, j>>
    BY <1>1, <1>2, <1>3, <1>4 DEF ScanOK
  <1>6. c = d
    BY <1>5
  <1>7. QED
    BY <1>1, <1>2, <1>3, <1>4, <1>5, <1>6

LEMMA EnterKeeps ==
    ASSUME SchemaInv, Enter
    PROVE  SchemaInv'
  <1> USE DEF SchemaInv
  <1> DEFINE h == Head(agenda)
             new == IF h \in seen THEN <<>> ELSE Places(h)
  <1>1. /\ h \in Class /\ h \in ToSet(agenda) /\ ToSet(agenda) = {h} \cup ToSet(Tail(agenda))
        /\ Tail(agenda) \in Seq(Class \cup Place) /\ agenda # <<>>
    BY TailAt DEF Enter, IsPlace, SchemaTypeOK
  <1>2. model # None /\ model \in Class /\ Reachable[model] \subseteq Class
    BY <1>1, ReachableIsLeast DEF ScanOK, SchemaTypeOK
  <1>3. /\ Places(h) \in Seq(Class \cup Place)
        /\ ToSet(Places(h)) = {<<h, k>> : k \in DOMAIN Fields[h]}
    BY <1>1, PlacesAt
  <1>4. new \in Seq(Class \cup Place) /\ ToSet(new) \subseteq {<<h, k>> : k \in DOMAIN Fields[h]}
        /\ (h \notin seen => ToSet(new) = {<<h, k>> : k \in DOMAIN Fields[h]})
    BY <1>3, EmptyAt
  <1>5. /\ agenda' = new \o Tail(agenda) /\ seen' = seen \cup {h}
        /\ UNCHANGED <<registered, warned, model, accepted, rejected>>
    BY DEF Enter
  <1> HIDE DEF new
  <1>6. agenda' \in Seq(Class \cup Place) /\ ToSet(agenda') = ToSet(new) \cup ToSet(Tail(agenda))
    <2> DEFINE W == Class \cup Place
    <2>1. new \in Seq(W) /\ Tail(agenda) \in Seq(W)
      BY <1>1, <1>4
    <2>2. PICK s \in Seq(W), t \in Seq(W) : s = new /\ t = Tail(agenda)
      BY <2>1
    <2> HIDE DEF W
    <2>3. s \o t \in Seq(W) /\ ToSet(s \o t) = ToSet(s) \cup ToSet(t)
      BY ConcatIs
    <2>4. QED
      BY <1>5, <2>2, <2>3 DEF W
  <1>7. SchemaTypeOK'
    BY <1>1, <1>5, <1>6 DEF SchemaTypeOK
  <1>8. h \in Reachable[model]
    BY <1>1, <1>2, FieldTyped DEF ScanOK
  <1>9. ASSUME NEW c \in seen', NEW k \in DOMAIN Fields[c]
        PROVE  <<c, k>> \in ToSet(agenda') \/ LookedAt(c, k)'
    <2>1. CASE c \in seen
      <3>1. c \in Class /\ <<c, k>> \notin Class
        BY <2>1 DEF SchemaTypeOK
      <3>2. CASE LookedAt(c, k)
        BY <1>1, <1>5, <1>6, <3>1, <3>2, LookedAtStays
      <3>3. CASE <<c, k>> \in ToSet(agenda)
        BY <1>1, <1>6, <3>1, <3>3
      <3>4. QED
        BY <1>2, <2>1, <3>2, <3>3 DEF ScanOK
    <2>2. CASE c \notin seen
      <3>1. c = h /\ h \notin seen
        BY <1>5, <2>2
      <3>2. QED
        BY <1>4, <1>6, <3>1
    <2>3. QED
      BY <2>1, <2>2
  <1>10. model' \in seen' \cup ToSet(agenda') /\ seen' \subseteq Reachable[model']
    BY <1>1, <1>2, <1>5, <1>6, <1>8 DEF ScanOK
  <1>11. ASSUME NEW x \in ToSet(agenda')
         PROVE  \/ x \in Reachable[model]
                \/ \E c \in Reachable[model] : \E k \in DOMAIN Fields[c] : x = <<c, k>>
    BY <1>1, <1>2, <1>4, <1>6, <1>8 DEF ScanOK
  <1>12. ScanOK'
    BY <1>2, <1>5, <1>9, <1>10, <1>11 DEF ScanOK
  <1>13. VerdictIsReachability' /\ DeclaredOrWarned'
    BY <1>5, PromisesStay
  <1>14. QED
    BY <1>7, <1>12, <1>13

LEMMA RefuseKeeps ==
    ASSUME SchemaInv, NEW c \in Class, NEW k \in DOMAIN Fields[c], Refuse(<<c, k>>)
    PROVE  SchemaInv'
  <1> USE DEF SchemaInv
  <1>1. LookAt(<<c, k>>) /\ MisMarked(Fields[c][k])
    BY DEF Refuse, FieldAt
  <1>2. model \in Class /\ c \in Reachable[model]
    BY <1>1, HeadReachable
  <1>3. /\ rejected' = rejected \cup {model} /\ model' = None /\ agenda' = <<>>
        /\ UNCHANGED <<registered, warned, seen, accepted>>
    BY DEF Refuse
  <1>4. SchemaTypeOK'
    BY <1>2, <1>3 DEF SchemaTypeOK
  <1>5. ScanOK'
    BY <1>3 DEF ScanOK
  <1>6. VerdictIsReachability'
    <2> DEFINE IsSound(d) == \A f \in ToSet(Fields[d]) : f.entity = None \/ f.nested = <<>>
    <2>1. ~IsSound(c)
      BY <1>1, FieldTyped DEF MisMarked
    <2> HIDE DEF IsSound
    <2>2. /\ \A m \in accepted : \A d \in Reachable[m] : IsSound(d)
          /\ \A m \in rejected : \E d \in Reachable[m] : ~IsSound(d)
      BY DEF VerdictIsReachability, IsSound
    <2>3. /\ \A m \in accepted' : \A d \in Reachable[m] : IsSound(d)
          /\ \A m \in rejected' : \E d \in Reachable[m] : ~IsSound(d)
      BY <1>2, <1>3, <2>1, <2>2
    <2>4. QED
      BY <2>3 DEF VerdictIsReachability, IsSound
  <1>7. DeclaredOrWarned'
    BY <1>3 DEF DeclaredOrWarned
  <1>8. QED
    BY <1>4, <1>5, <1>6, <1>7

LEMMA RegisterKeeps ==
    ASSUME SchemaInv, NEW c \in Class, NEW k \in DOMAIN Fields[c], Register(<<c, k>>)
    PROVE  SchemaInv'
  <1> USE DEF SchemaInv
  <1>1. /\ LookAt(<<c, k>>) /\ Fields[c][k].entity # None /\ ~MisMarked(Fields[c][k])
        /\ RegisterEntity(Fields[c][k].entity, <<c, k>>)
        /\ agenda' = Tail(agenda) /\ UNCHANGED <<model, seen, accepted, rejected>>
    BY DEF Register, FieldAt
  <1>2. /\ model \in Class /\ c \in Reachable[model] /\ Reachable[model] \subseteq Class
        /\ Head(agenda) = <<c, k>> /\ agenda # <<>> /\ IsPlace(Head(agenda))
        /\ ToSet(agenda) = {<<c, k>>} \cup ToSet(Tail(agenda))
        /\ Tail(agenda) \in Seq(Class \cup Place)
    BY <1>1, HeadReachable DEF LookAt
  <1>3. Fields[c][k].entity \in Entity
    BY <1>1, FieldTyped
  <1>4. /\ registered' \in [Name -> Entity \cup {None}]
        /\ \A n \in Name : registered'[n] # None => NameOf[registered'[n]] = n
        /\ \A d \in Entity : registered[NameOf[d]] = d => registered'[NameOf[d]] = d
        /\ warned \subseteq warned'
        /\ \/ registered'[NameOf[Fields[c][k].entity]] = Fields[c][k].entity
           \/ <<c, k>> \in warned'
    BY <1>1, <1>3, RegisterGrows
  <1>5. SchemaTypeOK'
    BY <1>1, <1>2, <1>4 DEF SchemaTypeOK
  <1>6. ASSUME NEW d \in seen', NEW j \in DOMAIN Fields[d]
        PROVE  <<d, j>> \in ToSet(agenda') \/ LookedAt(d, j)'
    <2>1. d \in seen /\ d \in Class
      BY <1>1 DEF SchemaTypeOK
    <2>2. CASE <<d, j>> = <<c, k>>
      BY <1>1, <1>3, <1>4, <2>2 DEF LookedAt, MisMarked
    <2>3. CASE <<d, j>> \in ToSet(agenda) /\ <<d, j>> # <<c, k>>
      BY <1>1, <1>2, <2>3
    <2>4. CASE LookedAt(d, j)
      BY <1>1, <1>2, <1>4, <2>1, <2>4, MentionStays
    <2>5. QED
      BY <1>2, <2>1, <2>2, <2>3, <2>4 DEF ScanOK
  <1>7. model' \in seen' \cup ToSet(agenda')
    BY <1>1, <1>2 DEF ScanOK, IsPlace
  <1>8. ScanOK'
    BY <1>1, <1>2, <1>6, <1>7 DEF ScanOK
  <1>9. VerdictIsReachability' /\ DeclaredOrWarned'
    BY <1>1, <1>4, PromisesStay
  <1>10. QED
    BY <1>5, <1>8, <1>9

LEMMA DescendKeeps ==
    ASSUME SchemaInv, NEW c \in Class, NEW k \in DOMAIN Fields[c], Descend(<<c, k>>)
    PROVE  SchemaInv'
  <1> USE DEF SchemaInv
  <1>1. /\ LookAt(<<c, k>>) /\ Fields[c][k].entity = None
        /\ agenda' = Fields[c][k].nested \o Tail(agenda)
        /\ UNCHANGED <<registered, warned, model, seen, accepted, rejected>>
    BY DEF Descend, FieldAt
  <1>2. /\ model \in Class /\ c \in Reachable[model] /\ Reachable[model] \subseteq Class
        /\ Head(agenda) = <<c, k>> /\ agenda # <<>> /\ IsPlace(Head(agenda))
        /\ ToSet(agenda) = {<<c, k>>} \cup ToSet(Tail(agenda))
        /\ Tail(agenda) \in Seq(Class \cup Place)
    BY <1>1, HeadReachable DEF LookAt
  <1>3. /\ Fields[c][k].nested \in Seq(Class \cup Place)
        /\ ToSet(Fields[c][k].nested) \subseteq Reachable[model]
    BY <1>1, <1>2, FieldTyped, ReachableIsLeast DEF Closed
  <1>4. /\ agenda' \in Seq(Class \cup Place)
        /\ ToSet(agenda') = ToSet(Fields[c][k].nested) \cup ToSet(Tail(agenda))
    <2> DEFINE W == Class \cup Place
    <2>1. PICK s \in Seq(W), t \in Seq(W) : s = Fields[c][k].nested /\ t = Tail(agenda)
      BY <1>2, <1>3
    <2> HIDE DEF W
    <2>2. s \o t \in Seq(W) /\ ToSet(s \o t) = ToSet(s) \cup ToSet(t)
      BY ConcatIs
    <2>3. QED
      BY <1>1, <2>1, <2>2 DEF W
  <1>5. SchemaTypeOK'
    BY <1>1, <1>4 DEF SchemaTypeOK
  <1>6. ASSUME NEW d \in seen', NEW j \in DOMAIN Fields[d]
        PROVE  <<d, j>> \in ToSet(agenda') \/ LookedAt(d, j)'
    <2>1. d \in seen /\ d \in Class
      BY <1>1 DEF SchemaTypeOK
    <2>2. CASE <<d, j>> = <<c, k>>
      BY <1>1, <1>4, <2>2 DEF LookedAt
    <2>3. CASE <<d, j>> \in ToSet(agenda) /\ <<d, j>> # <<c, k>>
      BY <1>2, <1>4, <2>3
    <2>4. CASE LookedAt(d, j)
      BY <1>1, <1>2, <1>4, <2>1, <2>4, MentionStays
    <2>5. QED
      BY <1>2, <2>1, <2>2, <2>3, <2>4 DEF ScanOK
  <1>7. model' \in seen' \cup ToSet(agenda')
    BY <1>1, <1>2, <1>4 DEF ScanOK, IsPlace
  <1>8. ASSUME NEW x \in ToSet(agenda')
        PROVE  \/ x \in Reachable[model]
               \/ \E d \in Reachable[model] : \E j \in DOMAIN Fields[d] : x = <<d, j>>
    BY <1>2, <1>3, <1>4 DEF ScanOK
  <1>9. ScanOK'
    BY <1>1, <1>2, <1>6, <1>7, <1>8 DEF ScanOK
  <1>10. VerdictIsReachability' /\ DeclaredOrWarned'
    BY <1>1, PromisesStay
  <1>11. QED
    BY <1>5, <1>9, <1>10

\* What a finished scan has seen is closed, so it is all that can be reached.
LEMMA FinishKeeps ==
    ASSUME SchemaInv, Finish
    PROVE  SchemaInv'
  <1> USE DEF SchemaInv
  <1>1. /\ model # None /\ model \in Class /\ agenda = <<>> /\ ToSet(agenda) = {}
        /\ accepted' = accepted \cup {model} /\ model' = None
        /\ UNCHANGED <<registered, warned, seen, agenda, rejected>>
    BY EmptyAt DEF Finish, SchemaTypeOK
  <1>2. model \in seen /\ seen \subseteq Class
    BY <1>1 DEF ScanOK, SchemaTypeOK
  <1>3. \A c \in seen : \A k \in DOMAIN Fields[c] : LookedAt(c, k)
    BY <1>1 DEF ScanOK
  <1>4. Closed(seen)
    BY <1>1, <1>3 DEF Closed, LookedAt
  <1>5. Reachable[model] \subseteq seen
    BY <1>1, <1>2, <1>4, ReachableIsLeast
  <1>6. ASSUME NEW c \in Reachable[model], NEW k \in DOMAIN Fields[c],
               Fields[c][k].entity # None
        PROVE  /\ Fields[c][k].nested = <<>>
               /\ \/ registered[NameOf[Fields[c][k].entity]] = Fields[c][k].entity
                  \/ <<c, k>> \in warned
    BY <1>3, <1>5, <1>6 DEF LookedAt, MisMarked
  <1>7. SchemaTypeOK'
    BY <1>1 DEF SchemaTypeOK
  <1>8. ScanOK'
    BY <1>1 DEF ScanOK
  <1>9. VerdictIsReachability'
    <2> DEFINE IsSound(d) == \A f \in ToSet(Fields[d]) : f.entity = None \/ f.nested = <<>>
    <2>1. \A c \in Reachable[model] : IsSound(c)
      BY <1>6 DEF ToSet
    <2> HIDE DEF IsSound
    <2>2. /\ \A m \in accepted : \A d \in Reachable[m] : IsSound(d)
          /\ \A m \in rejected : \E d \in Reachable[m] : ~IsSound(d)
      BY DEF VerdictIsReachability, IsSound
    <2>3. /\ \A m \in accepted' : \A d \in Reachable[m] : IsSound(d)
          /\ \A m \in rejected' : \E d \in Reachable[m] : ~IsSound(d)
      BY <1>1, <2>1, <2>2
    <2>4. QED
      BY <2>3 DEF VerdictIsReachability, IsSound
  <1>10. DeclaredOrWarned'
    BY <1>1, <1>6 DEF DeclaredOrWarned
  <1>11. QED
    BY <1>7, <1>8, <1>9, <1>10

LEMMA ScanKeeps ==
    ASSUME SchemaInv, Scan
    PROVE  SchemaInv'
  BY EnterKeeps, FinishKeeps, RefuseKeeps, RegisterKeeps, DescendKeeps DEF Scan

LEMMA SchemaStutters ==
    ASSUME SchemaInv, UNCHANGED vars
    PROVE  SchemaInv'
  BY DEF SchemaInv, vars, SchemaTypeOK, ScanOK, LookedAt, MisMarked, VerdictIsReachability,
         DeclaredOrWarned

------------------------------------------------------------------------------
(* What an instance holds.                                                  *)

Occ == [object : Object, field : Nat, value : Value, inList : BOOLEAN]

LEMMA HoldsAt ==
    ASSUME NEW o \in Object, NEW k \in DOMAIN Holds[o]
    PROVE  /\ Holds[o] \in Seq(FieldValue) /\ Holds[o][k] \in FieldValue
           /\ FieldValue \subseteq Value /\ ItemValue \subseteq Value
           /\ k \in Nat /\ ClassOf[o] \in Class /\ k \in DOMAIN Fields[ClassOf[o]]
  <1>1. Holds[o] \in Seq(FieldValue) /\ ClassOf[o] \in Class
    BY WalkAssumption
  <1>2. Holds[o][k] \in FieldValue /\ k \in Nat
    BY <1>1
  <1>3. k \in DOMAIN Fields[ClassOf[o]]
    BY WalkAssumption
  <1>4. QED
    BY <1>1, <1>2, <1>3 DEF Value

LEMMA ValuesAt ==
    ASSUME NEW o \in Object
    PROVE  /\ Values(o) \in Seq(Occ)
           /\ \A x \in ToSet(Values(o)) :
                 /\ x \in Occ /\ Occurs(x) /\ x.object = o /\ ~x.inList
                 /\ x.value = Holds[o][x.field]
  <1>1. Holds[o] \in Seq(FieldValue) /\ DOMAIN Holds[o] = 1 .. Len(Holds[o]) /\ Len(Holds[o]) \in Nat
    BY WalkAssumption
  <1>2. PICK g : g = Values(o)
    OBVIOUS
  <1>3. ASSUME NEW k \in DOMAIN Holds[o], NEW x, x = g[k]
        PROVE  /\ x \in Occ /\ Occurs(x) /\ x.object = o /\ ~x.inList
               /\ x.value = Holds[o][x.field]
    <2>1. k \in Nat /\ Holds[o][k] \in Value /\ Holds[o][k] \in FieldValue
      BY HoldsAt
    <2>2. x.object = o /\ x.field = k /\ x.value = Holds[o][k] /\ ~x.inList
      BY <1>2, <1>3 DEF Found, Values
    <2>3. x \in Occ
      BY <1>2, <1>3, <2>1 DEF Found, Occ, Values
    <2>4. Occurs(x)
      BY <2>1, <2>2 DEF Occurs
    <2>5. QED
      BY <2>2, <2>3, <2>4
  <1>4. g \in [1 .. Len(Holds[o]) -> Occ]
    BY <1>1, <1>2, <1>3 DEF Values
  <1>5. g \in Seq(Occ) /\ ToSet(g) = {g[k] : k \in DOMAIN Holds[o]}
    <2>1. PICK n \in Nat : DOMAIN Holds[o] = 1 .. n
      BY <1>1
    <2>2. g \in [1 .. n -> Occ]
      BY <1>1, <1>4, <2>1
    <2>3. QED
      BY <2>1, <2>2, ListOf
  <1>6. QED
    BY <1>2, <1>3, <1>4, <1>5

LEMMA ElementsAt ==
    ASSUME NEW x \in Occ, Occurs(x), x.value.kind = "list", ~x.inList
    PROVE  /\ Elements(x) \in Seq(Occ)
           /\ \A y \in ToSet(Elements(x)) :
                 y \in Occ /\ Occurs(y) /\ y.object = x.object /\ y.field = x.field /\ y.inList
  <1>1. /\ x.object \in Object /\ x.field \in DOMAIN Holds[x.object] /\ x.value \in FieldValue
    BY DEF Occ, Occurs
  <1>2. PICK s \in Seq(ItemValue) : s = x.value.items
    BY <1>1, WalkAssumption
  <1>3. DOMAIN s = 1 .. Len(s) /\ Len(s) \in Nat /\ \A i \in DOMAIN s : s[i] \in ItemValue
    OBVIOUS
  <1>4. PICK g : g = Elements(x)
    OBVIOUS
  <1>5. ASSUME NEW i \in DOMAIN s, NEW y, y = g[i]
        PROVE  y \in Occ /\ Occurs(y) /\ y.object = x.object /\ y.field = x.field /\ y.inList
    <2>1. x.field \in Nat /\ s[i] \in Value /\ s[i] \in ItemValue
      BY <1>1, <1>3, HoldsAt
    <2>2. y.object = x.object /\ y.field = x.field /\ y.value = s[i] /\ y.inList
      BY <1>2, <1>4, <1>5 DEF Found, Elements
    <2>3. y \in Occ
      BY <1>1, <1>2, <1>4, <1>5, <2>1 DEF Found, Occ, Elements
    <2>4. Occurs(y)
      BY <1>1, <2>1, <2>2 DEF Occurs
    <2>5. QED
      BY <2>2, <2>3, <2>4
  <1>6. g \in [1 .. Len(s) -> Occ]
    BY <1>2, <1>3, <1>4, <1>5 DEF Elements
  <1>7. g \in Seq(Occ) /\ ToSet(g) = {g[i] : i \in DOMAIN s}
    <2>1. PICK n \in Nat : DOMAIN s = 1 .. n
      BY <1>3
    <2>2. g \in [1 .. n -> Occ]
      BY <1>3, <1>6, <2>1
    <2>3. QED
      BY <2>1, <2>2, ListOf
  <1>8. QED
    BY <1>4, <1>5, <1>6, <1>7

\* A value that is not taken apart.
Single(x) == x.value.kind # "list" \/ x.inList

LEMMA InPlaceAt ==
    ASSUME NEW x \in Occ, Occurs(x)
    PROVE  /\ \A y \in InPlace(x) :
                 /\ y \in Occ /\ Occurs(y) /\ Single(y)
                 /\ y.object = x.object /\ y.field = x.field
           /\ Single(x) => InPlace(x) = {x}
           /\ ~Single(x) => InPlace(x) = ToSet(Elements(x))
  <1>1. CASE Single(x)
    BY <1>1 DEF InPlace, Single
  <1>2. CASE ~Single(x)
    BY <1>2, ElementsAt DEF InPlace, Single
  <1>3. QED
    BY <1>1, <1>2

LEMMA HeldIs ==
    ASSUME NEW o \in Object
    PROVE  /\ \A x \in ToSet(Values(o)) : InPlace(x) \subseteq Held(o)
           /\ \A y \in Held(o) : \E x \in ToSet(Values(o)) : y \in InPlace(x)
           /\ \A y \in Held(o) : y \in Occ /\ Occurs(y) /\ Single(y) /\ y.object = o
  <1>1. \A x \in ToSet(Values(o)) :
           /\ x \in Occ /\ Occurs(x) /\ x.object = o
           /\ InPlace(x) = IF x.value.kind = "list" THEN ToSet(Elements(x)) ELSE {x}
    BY ValuesAt DEF InPlace
  <1>2. Held(o) = UNION {InPlace(x) : x \in ToSet(Values(o))}
    BY <1>1 DEF Held
  <1>3. QED
    BY <1>1, <1>2, InPlaceAt

------------------------------------------------------------------------------
(* What a walk should see.                                                  *)

Entered(x) == ~Marked(x) /\ x.value.kind = "model"

LEMMA EnteredIs ==
    ASSUME NEW x \in Occ, Occurs(x), Entered(x)
    PROVE  x.value.object \in Object
  BY WalkAssumption DEF Entered, Occ

\* Closed under what unmarked fields hold.
ClosedWithin(S) == \A p \in S : \A x \in Held(p) : Entered(x) => x.value.object \in S

LEMMA WithinIsLeast ==
    ASSUME NEW o \in Object
    PROVE  /\ o \in Within[o] /\ Within[o] \subseteq Object
           /\ ClosedWithin(Within[o])
           /\ \A S \in SUBSET Object : o \in S /\ ClosedWithin(S) => Within[o] \subseteq S
  <1> DEFINE W == {p \in Object : \A S \in SUBSET Object : o \in S /\ ClosedWithin(S) => p \in S}
  <1>1. Within[o] = W
    BY DEF Within, ClosedWithin, Entered
  <1>2. o \in W /\ W \subseteq Object
    OBVIOUS
  <1>3. \A S \in SUBSET Object : o \in S /\ ClosedWithin(S) => W \subseteq S
    OBVIOUS
  <1>4. ClosedWithin(W)
    <2> SUFFICES ASSUME NEW p \in W, NEW x \in Held(p), Entered(x)
                 PROVE  x.value.object \in W
      BY DEF ClosedWithin
    <2>1. x.value.object \in Object
      BY HeldIs, EnteredIs
    <2>2. ASSUME NEW S \in SUBSET Object, o \in S, ClosedWithin(S) PROVE x.value.object \in S
      BY <2>2 DEF ClosedWithin
    <2>3. QED
      BY <2>1, <2>2
  <1>5. QED
    BY <1>1, <1>2, <1>3, <1>4

LEMMA AllHeldAt ==
    ASSUME NEW o \in Object
    PROVE  \A x : x \in AllHeld[o] <=> \E p \in Within[o] : x \in Held(p)
  BY DEF AllHeld

LEMMA AllHeldTyped ==
    ASSUME NEW o \in Object, NEW x \in AllHeld[o]
    PROVE  x \in Occ /\ Occurs(x) /\ Single(x) /\ x.object \in Within[o] /\ x \in Held(x.object)
  <1>1. PICK p \in Within[o] : x \in Held(p)
    BY AllHeldAt
  <1>2. QED
    BY <1>1, WithinIsLeast, HeldIs

\* What is held is what the instance holds itself, and what is held by the
\* models that it holds.
LEMMA AllHeldUnfolds ==
    ASSUME NEW o \in Object
    PROVE  /\ Held(o) \subseteq AllHeld[o]
           /\ \A y \in Held(o) : Entered(y) => AllHeld[y.value.object] \subseteq AllHeld[o]
           /\ \A x \in AllHeld[o] :
                 x \in Held(o) \/ \E y \in Held(o) : Entered(y) /\ x \in AllHeld[y.value.object]
  <1> DEFINE U == {o} \cup {p \in Object : \E y \in Held(o) : Entered(y) /\ p \in Within[y.value.object]}
  <1>1. Held(o) \subseteq AllHeld[o]
    BY WithinIsLeast, AllHeldAt
  <1>2. ASSUME NEW y \in Held(o), Entered(y)
        PROVE  /\ y.value.object \in Object
               /\ Within[y.value.object] \subseteq Within[o]
               /\ AllHeld[y.value.object] \subseteq AllHeld[o]
    <2>1. y.value.object \in Object
      BY <1>2, HeldIs, EnteredIs
    <2>2. y.value.object \in Within[o]
      BY <1>2, WithinIsLeast DEF ClosedWithin
    <2>3. Within[y.value.object] \subseteq Within[o]
      BY <2>1, <2>2, WithinIsLeast
    <2>4. QED
      BY <2>1, <2>3, AllHeldAt
  <1>3. ClosedWithin(U)
    <2> SUFFICES ASSUME NEW p \in U, NEW x \in Held(p), Entered(x)
                 PROVE  x.value.object \in U
      BY DEF ClosedWithin
    <2>1. x.value.object \in Object
      BY HeldIs, EnteredIs
    <2>2. CASE p = o
      BY <2>1, <2>2, WithinIsLeast
    <2>3. CASE p # o
      <3>1. PICK y \in Held(o) : Entered(y) /\ p \in Within[y.value.object]
        BY <2>3
      <3>2. y.value.object \in Object
        BY <1>2, <3>1
      <3>3. x.value.object \in Within[y.value.object]
        BY <3>1, <3>2, WithinIsLeast DEF ClosedWithin
      <3>4. QED
        BY <2>1, <3>1, <3>3
    <2>4. QED
      BY <2>2, <2>3
  <1>4. Within[o] \subseteq U
    <2> HIDE DEF U
    <2>1. U \in SUBSET Object /\ o \in U
      BY DEF U
    <2>2. QED
      BY <1>3, <2>1, WithinIsLeast
  <1>5. ASSUME NEW x \in AllHeld[o]
        PROVE  x \in Held(o) \/ \E y \in Held(o) : Entered(y) /\ x \in AllHeld[y.value.object]
    <2>1. PICK p \in Within[o] : x \in Held(p)
      BY AllHeldAt
    <2>2. CASE p = o
      BY <2>1, <2>2
    <2>3. CASE p # o
      <3>1. PICK y \in Held(o) : Entered(y) /\ p \in Within[y.value.object]
        BY <1>4, <2>3
      <3>2. x \in AllHeld[y.value.object]
        BY <1>2, <2>1, <3>1, AllHeldAt
      <3>3. QED
        BY <3>1, <3>2
    <2>4. QED
      BY <2>2, <2>3
  <1>6. QED
    BY <1>1, <1>2, <1>5

------------------------------------------------------------------------------
(* What is ahead of a walk.                                                 *)

LEMMA AheadAt ==
    ASSUME NEW x \in Occ, Occurs(x)
    PROVE  /\ InPlace(x) \subseteq Ahead(x)
           /\ \A y \in InPlace(x) : Entered(y) => AllHeld[y.value.object] \subseteq Ahead(x)
           /\ \A z \in Ahead(x) :
                 z \in InPlace(x) \/ \E y \in InPlace(x) : Entered(y) /\ z \in AllHeld[y.value.object]
  BY DEF Ahead, Entered

\* The fields of an instance, together, come to all it holds.
LEMMA AheadOfValues ==
    ASSUME NEW o \in Object
    PROVE  /\ \A x \in ToSet(Values(o)) : Ahead(x) \subseteq AllHeld[o]
           /\ \A z \in AllHeld[o] : \E x \in ToSet(Values(o)) : z \in Ahead(x)
  <1>1. ASSUME NEW x \in ToSet(Values(o)), NEW z \in Ahead(x)
        PROVE  z \in AllHeld[o]
    <2>1. x \in Occ /\ Occurs(x) /\ InPlace(x) \subseteq Held(o)
      BY ValuesAt, HeldIs
    <2>2. QED
      BY <2>1, AheadAt, AllHeldUnfolds
  <1>2. ASSUME NEW z \in AllHeld[o]
        PROVE  \E x \in ToSet(Values(o)) : z \in Ahead(x)
    <2>1. PICK y \in Held(o) : z = y \/ (Entered(y) /\ z \in AllHeld[y.value.object])
      BY AllHeldUnfolds
    <2>2. PICK x \in ToSet(Values(o)) : y \in InPlace(x)
      BY HeldIs
    <2>3. x \in Occ /\ Occurs(x)
      BY ValuesAt
    <2>4. QED
      BY <2>1, <2>2, <2>3, AheadAt
  <1>3. QED
    BY <1>1, <1>2

\* So do the elements of a list to what the list comes to.
LEMMA AheadOfElements ==
    ASSUME NEW x \in Occ, Occurs(x), ~Single(x)
    PROVE  /\ \A y \in ToSet(Elements(x)) : Ahead(y) \subseteq Ahead(x)
           /\ \A z \in Ahead(x) : \E y \in ToSet(Elements(x)) : z \in Ahead(y)
  <1>1. /\ InPlace(x) = ToSet(Elements(x))
        /\ \A y \in ToSet(Elements(x)) : y \in Occ /\ Occurs(y) /\ InPlace(y) = {y}
    BY InPlaceAt
  <1>2. QED
    BY <1>1, AheadAt

LEMMA AheadOfSingle ==
    ASSUME NEW x \in Occ, Occurs(x), Single(x)
    PROVE  /\ x \in Ahead(x)
           /\ Entered(x) => Ahead(x) = {x} \cup AllHeld[x.value.object]
           /\ ~Entered(x) => Ahead(x) = {x}
  BY InPlaceAt, AheadAt

------------------------------------------------------------------------------
(* The walk.                                                                *)

WalkInv == WalkTypeOK /\ WalkOK

\* The next value of a walk, and what is left then.
LEMMA NextIs ==
    ASSUME WalkInv, outcome = "walking", todo # <<>>, NEW x, x = Head(todo)
    PROVE  /\ x \in Occ /\ Occurs(x) /\ result \in Object
           /\ ToSet(todo) = {x} \cup ToSet(Tail(todo)) /\ Tail(todo) \in Seq(Occ)
           /\ Ahead(x) \subseteq AllHeld[result]
  <1>1. todo \in Seq(Occ)
    BY DEF WalkInv, WalkTypeOK, Occ
  <1>2. x \in Occ /\ ToSet(todo) = {x} \cup ToSet(Tail(todo)) /\ Tail(todo) \in Seq(Occ)
    BY <1>1, TailAt
  <1>3. Occurs(x) /\ result \in Object
    BY <1>2 DEF WalkInv, WalkTypeOK
  <1>4. Ahead(x) \subseteq AllHeld[result]
    BY <1>2 DEF WalkInv, WalkOK
  <1>5. QED
    BY <1>2, <1>3, <1>4

\* A step that puts what is ahead of a value in place of the value, or does
\* what is due to it, keeps the invariant.
LEMMA Advance ==
    ASSUME WalkInv, outcome = "walking", todo # <<>>, NEW x, x = Head(todo),
           NEW S,
           todo' \in Seq(Occ), ToSet(todo') = S \cup ToSet(Tail(todo)),
           \A y \in S : Occurs(y) /\ Ahead(y) \subseteq Ahead(x),
           \A z \in Ahead(x) : Walked(z)' \/ \E y \in S : z \in Ahead(y),
           emitted \subseteq emitted',
           \A z \in emitted' : z \in emitted
                               \/ (z \in Ahead(x) /\ Marked(z) /\ z.value.kind # "none"),
           outcome' = outcome, result' = result, accepted \subseteq accepted'
    PROVE  WalkInv'
  <1> USE DEF WalkInv
  <1>1. /\ x \in Occ /\ Occurs(x) /\ result \in Object
        /\ ToSet(todo) = {x} \cup ToSet(Tail(todo))
        /\ Ahead(x) \subseteq AllHeld[result]
    BY NextIs
  <1>2. /\ ClassOf[result] \in accepted
        /\ emitted \subseteq {y \in AllHeld[result] : Marked(y) /\ y.value.kind # "none"}
        /\ \A y \in ToSet(todo) : Ahead(y) \subseteq AllHeld[result]
        /\ \A z \in AllHeld[result] : Walked(z) \/ \E y \in ToSet(todo) : z \in Ahead(y)
    BY DEF WalkOK
  <1>3. WalkTypeOK'
    <2>1. \A y \in ToSet(todo') : Occurs(y)
      BY <1>1 DEF WalkTypeOK
    <2>2. QED
      BY <2>1 DEF WalkTypeOK, Occ, Occurs
  <1>4. \A z : Walked(z) => Walked(z)'
    BY DEF Walked
  <1>5. \A z \in AllHeld[result] : Walked(z)' \/ \E y \in ToSet(todo') : z \in Ahead(y)
    <2> SUFFICES ASSUME NEW z \in AllHeld[result], ~(Walked(z)')
                 PROVE  \E y \in ToSet(todo') : z \in Ahead(y)
      OBVIOUS
    <2>1. PICK y \in ToSet(todo) : z \in Ahead(y)
      BY <1>2, <1>4
    <2>2. CASE y = x
      BY <2>1, <2>2
    <2>3. CASE y # x
      BY <1>1, <2>1, <2>3
    <2>4. QED
      BY <2>2, <2>3
  <1>6. \A y \in ToSet(todo') : Ahead(y) \subseteq AllHeld[result]
    BY <1>1, <1>2
  <1>7. emitted' \subseteq {y \in AllHeld[result] : Marked(y) /\ y.value.kind # "none"}
    BY <1>1, <1>2
  <1>8. WalkOK'
    BY <1>2, <1>5, <1>6, <1>7 DEF WalkOK
  <1>9. QED
    BY <1>3, <1>8

LEMMA WalkInit1 == WalkInit => WalkInv /\ WalkIsExact
  BY EmptyAt DEF WalkInit, WalkInv, WalkTypeOK, WalkOK, WalkIsExact

LEMMA ReturnKeeps ==
    ASSUME WalkInv, NEW o \in Object, Return(o)
    PROVE  WalkInv'
  <1>1. /\ result' = o /\ todo' = Values(o) /\ emitted' = {} /\ outcome' = "walking"
        /\ ClassOf[o] \in accepted' /\ o # None
    BY WalkAssumption DEF Return, vars
  <1>2. WalkTypeOK'
    <2>1. Values(o) \in Seq(Occ) /\ \A x \in ToSet(Values(o)) : Occurs(x)
      BY ValuesAt
    <2>2. QED
      BY <1>1, <2>1 DEF WalkTypeOK, Occ, Occurs
  <1>3. WalkOK'
    <2>1. /\ \A x \in ToSet(Values(o)) : Ahead(x) \subseteq AllHeld[o]
          /\ \A z \in AllHeld[o] : \E x \in ToSet(Values(o)) : z \in Ahead(x)
      BY AheadOfValues
    <2>2. QED
      BY <1>1, <2>1 DEF WalkOK
  <1>4. QED
    BY <1>2, <1>3 DEF WalkInv

\* A value that fits no rule is among what the result holds.
LEMMA RaiseKeeps ==
    ASSUME WalkInv, todo # <<>>, NEW x, x = Head(todo), Raise(x)
    PROVE  WalkInv' /\ WalkIsExact'
  <1>1. outcome = "walking" /\ outcome' = "raised" /\ todo' = <<>> /\ Unsupported(x)
    BY DEF Raise, Next1
  <1>2. UNCHANGED <<accepted, result, emitted>>
    BY DEF Raise, vars
  <1>3. x \in Occ /\ Occurs(x) /\ result \in Object /\ Ahead(x) \subseteq AllHeld[result]
    BY <1>1, NextIs
  <1>4. Single(x) /\ ~Fits(x)
    BY <1>1 DEF Unsupported, Single, Fits
  <1>5. x \in AllHeld[result]
    BY <1>3, <1>4, AheadOfSingle
  <1>6. WalkIsExact'
    BY <1>1, <1>2, <1>4, <1>5 DEF WalkIsExact
  <1>7. ToSet(todo') = {} /\ todo' \in Seq(Occ)
    BY <1>1, EmptyAt
  <1>8. WalkInv'
    BY <1>1, <1>2, <1>3, <1>7 DEF WalkInv, WalkTypeOK, WalkOK, Occ, Occurs
  <1>9. QED
    BY <1>6, <1>8

LEMMA SpreadKeeps ==
    ASSUME WalkInv, todo # <<>>, NEW x, x = Head(todo), Spread(x)
    PROVE  WalkInv'
  <1>1. outcome = "walking" /\ ~Single(x) /\ todo' = Elements(x) \o Tail(todo)
    BY DEF Spread, Next1, Single
  <1>2. UNCHANGED <<accepted, result, emitted, outcome>>
    BY DEF Spread, vars
  <1>3. x \in Occ /\ Occurs(x) /\ Tail(todo) \in Seq(Occ)
    BY <1>1, NextIs
  <1>4. PICK s \in Seq(Occ), t \in Seq(Occ) : s = Elements(x) /\ t = Tail(todo)
    BY <1>1, <1>3, ElementsAt DEF Single
  <1>5. s \o t \in Seq(Occ) /\ ToSet(s \o t) = ToSet(s) \cup ToSet(t)
    BY ConcatIs
  <1>6. todo' \in Seq(Occ) /\ ToSet(todo') = ToSet(Elements(x)) \cup ToSet(Tail(todo))
    BY <1>1, <1>4, <1>5
  <1>7. \A y \in ToSet(Elements(x)) : Occurs(y) /\ Ahead(y) \subseteq Ahead(x)
    BY <1>1, <1>3, ElementsAt, AheadOfElements DEF Single
  <1>8. \A z \in Ahead(x) : \E y \in ToSet(Elements(x)) : z \in Ahead(y)
    BY <1>1, <1>3, AheadOfElements
  <1>9. QED
    BY <1>1, <1>2, <1>6, <1>7, <1>8, Advance

LEMMA GoIntoKeeps ==
    ASSUME WalkInv, todo # <<>>, NEW x, x = Head(todo), GoInto(x)
    PROVE  WalkInv'
  <1> DEFINE o == x.value.object
  <1>1. outcome = "walking" /\ Entered(x) /\ todo' = Values(o) \o Tail(todo)
    BY DEF GoInto, Next1, Entered
  <1>2. UNCHANGED <<accepted, result, emitted, outcome>>
    BY DEF GoInto, vars
  <1>3. x \in Occ /\ Occurs(x) /\ Tail(todo) \in Seq(Occ) /\ o \in Object
    BY <1>1, NextIs, EnteredIs
  <1>4. Single(x) /\ ~Unsupported(x) /\ ~Marked(x) /\ Ahead(x) = {x} \cup AllHeld[o]
    <2>1. Single(x) /\ ~Marked(x) /\ ~Unsupported(x)
      BY <1>1 DEF Entered, Single, Unsupported
    <2>2. QED
      BY <1>1, <1>3, <2>1, AheadOfSingle
  <1>5. PICK s \in Seq(Occ), t \in Seq(Occ) : s = Values(o) /\ t = Tail(todo)
    BY <1>3, ValuesAt
  <1>6. s \o t \in Seq(Occ) /\ ToSet(s \o t) = ToSet(s) \cup ToSet(t)
    BY ConcatIs
  <1>7. todo' \in Seq(Occ) /\ ToSet(todo') = ToSet(Values(o)) \cup ToSet(Tail(todo))
    BY <1>1, <1>5, <1>6
  <1>8. \A y \in ToSet(Values(o)) : Occurs(y) /\ Ahead(y) \subseteq Ahead(x)
    BY <1>3, <1>4, ValuesAt, AheadOfValues
  <1>9. \A z \in Ahead(x) : Walked(z)' \/ \E y \in ToSet(Values(o)) : z \in Ahead(y)
    BY <1>3, <1>4, AheadOfValues DEF Walked
  <1>10. QED
    BY <1>1, <1>2, <1>7, <1>8, <1>9, Advance

LEMMA EmitKeeps ==
    ASSUME WalkInv, todo # <<>>, NEW x, x = Head(todo), Emit(x)
    PROVE  WalkInv'
  <1>1. /\ outcome = "walking" /\ Marked(x) /\ ~Unsupported(x)
        /\ x.value.kind \in {"scalar", "model"}
        /\ emitted' = emitted \cup {x} /\ todo' = Tail(todo)
    BY DEF Emit, Next1
  <1>2. UNCHANGED <<accepted, result, outcome>>
    BY DEF Emit, vars
  <1>3. x \in Occ /\ Occurs(x) /\ Tail(todo) \in Seq(Occ)
    BY <1>1, NextIs
  <1>4. Single(x)
    BY <1>1 DEF Unsupported, Single
  <1>5. Ahead(x) = {x}
    BY <1>1, <1>3, <1>4, AheadOfSingle DEF Entered
  <1>6. Walked(x)'
    BY <1>1, <1>4 DEF Walked
  <1>7. x.value.kind # "none"
    BY <1>1
  <1>8. QED
    <2> DEFINE S == {}
    <2>1. ToSet(todo') = S \cup ToSet(Tail(todo)) /\ \A y \in S : Occurs(y) /\ Ahead(y) \subseteq Ahead(x)
      BY <1>1
    <2>2. \A z \in Ahead(x) : Walked(z)' \/ \E y \in S : z \in Ahead(y)
      BY <1>5, <1>6
    <2>3. emitted \subseteq emitted' /\ \A z \in emitted' : z \in emitted
                               \/ (z \in Ahead(x) /\ Marked(z) /\ z.value.kind # "none")
      BY <1>1, <1>5, <1>7
    <2> HIDE DEF S
    <2>4. QED
      BY <1>1, <1>2, <1>3, <2>1, <2>2, <2>3, Advance

LEMMA PassOverKeeps ==
    ASSUME WalkInv, todo # <<>>, NEW x, x = Head(todo), PassOver(x)
    PROVE  WalkInv'
  <1>1. /\ outcome = "walking" /\ ~Unsupported(x) /\ todo' = Tail(todo)
        /\ x.value.kind = "none" \/ (~Marked(x) /\ x.value.kind \in {"scalar", "dict", "tuple"})
    BY DEF PassOver, Next1
  <1>2. UNCHANGED <<accepted, result, outcome, emitted>>
    BY DEF PassOver, vars
  <1>3. x \in Occ /\ Occurs(x) /\ Tail(todo) \in Seq(Occ)
    BY <1>1, NextIs
  <1>4. Single(x)
    BY <1>1 DEF Unsupported, Single
  <1>5. Ahead(x) = {x}
    BY <1>1, <1>3, <1>4, AheadOfSingle DEF Entered
  <1>6. Walked(x)'
    BY <1>1, <1>4 DEF Walked
  <1>7. QED
    <2> DEFINE S == {}
    <2>1. ToSet(todo') = S \cup ToSet(Tail(todo)) /\ \A y \in S : Occurs(y) /\ Ahead(y) \subseteq Ahead(x)
      BY <1>1
    <2>2. \A z \in Ahead(x) : Walked(z)' \/ \E y \in S : z \in Ahead(y)
      BY <1>5, <1>6
    <2> HIDE DEF S
    <2>3. QED
      BY <1>1, <1>2, <1>3, <2>1, <2>2, Advance

\* What goes through a walk fits the rules, unless it is tolerated.
LEMMA RegularFits ==
    ASSUME NEW o \in Object, IsRegular(o), NEW z \in AllHeld[o], ~Unsupported(z)
    PROVE  Fits(z)
  <1>1. z \in Occ /\ Occurs(z) /\ Single(z) /\ z.object \in Within[o] /\ z \in Held(z.object)
    BY AllHeldTyped
  <1>2. z.object \in Object /\ z.value.kind \in Kind
    BY <1>1, WithinIsLeast, WalkAssumption DEF Occ
  <1>3. CASE z.inList
    BY <1>2, <1>3 DEF Unsupported, Fits, Kind
  <1>4. CASE ~z.inList
    <2>1. PICK x \in ToSet(Values(z.object)) : z \in InPlace(x)
      BY <1>1, <1>2, HeldIs
    <2>2. x \in Occ /\ Occurs(x)
      BY <1>2, <2>1, ValuesAt
    <2>3. z = x
      <3>1. CASE Single(x)
        BY <2>1, <2>2, <3>1, InPlaceAt
      <3>2. CASE ~Single(x)
        <4>1. z \in ToSet(Elements(x))
          BY <2>1, <2>2, <3>2, InPlaceAt
        <4>2. z.inList
          BY <2>2, <3>2, <4>1, ElementsAt DEF ToSet, Elements, Found, Single
        <4>3. QED
          BY <1>4, <4>2
      <3>3. QED
        BY <3>1, <3>2
    <2>4. ~Tolerated(z)
      BY <1>1, <2>1, <2>3 DEF IsRegular
    <2>5. z.value.kind # "list"
      BY <1>1, <1>4 DEF Single
    <2>6. QED
      BY <1>2, <1>4, <2>4, <2>5 DEF Tolerated, Unsupported, Fits, Kind
  <1>5. QED
    BY <1>3, <1>4

\* With nothing ahead, what the result holds has been walked.
LEMMA EndWalkKeeps ==
    ASSUME WalkInv, EndWalk
    PROVE  WalkInv' /\ WalkIsExact'
  <1> DEFINE A == AllHeld[result]
  <1>1. /\ outcome = "walking" /\ outcome' = "done" /\ todo = <<>>
        /\ UNCHANGED <<accepted, result, todo, emitted>>
    BY DEF EndWalk, vars
  <1>2. result \in Object
    BY <1>1 DEF WalkInv, WalkTypeOK
  <1>3. WalkInv'
    BY <1>1 DEF WalkInv, WalkTypeOK, WalkOK, Walked
  <1>4. ToSet(todo) = {}
    BY <1>1, EmptyAt
  <1>5. \A z \in A : Walked(z)
    BY <1>1, <1>4 DEF WalkInv, WalkOK
  <1>6. emitted = {z \in A : Marked(z) /\ z.value.kind # "none"}
    BY <1>1, <1>5 DEF WalkInv, WalkOK, Walked
  <1>7. ASSUME IsRegular(result)
        PROVE  /\ \A z \in A : Fits(z)
               /\ emitted = {z \in A : Marked(z) /\ z.value.kind = "scalar"}
    <2>1. \A z \in A : Fits(z)
      BY <1>2, <1>5, <1>7, RegularFits DEF Walked
    <2>2. \A z \in A : Marked(z) => (z.value.kind # "none" <=> z.value.kind = "scalar")
      BY <2>1 DEF Fits
    <2>3. QED
      BY <1>6, <2>1, <2>2
  <1>8. ASSUME NEW x \in ToSet(Values(result)), x.value.kind = "scalar"
        PROVE  (x \in emitted) # (x.field \in EventProperties(result))
    <2>1. /\ x \in Occ /\ Occurs(x) /\ x.object = result
          /\ x.value = Holds[result][x.field] /\ x.field \in DOMAIN Holds[result]
      BY <1>2, ValuesAt DEF Occurs
    <2>2. Single(x)
      BY <1>8 DEF Single
    <2>3. x \in A
      BY <1>2, <2>1, <2>2, AheadOfSingle, AheadOfValues
    <2>4. x \in emitted <=> Marked(x)
      BY <1>6, <1>8, <2>3
    <2>5. x.field \in EventProperties(result) <=> ~Marked(x)
      BY <1>8, <2>1 DEF EventProperties, Marked
    <2>6. QED
      BY <2>4, <2>5
  <1>9. WalkIsExact'
    BY <1>1, <1>6, <1>7, <1>8 DEF WalkIsExact
  <1>10. QED
    BY <1>3, <1>9

\* While a walk is under way, nothing is said of it.
LEMMA ExactMeanwhile ==
    ASSUME outcome' \notin {"raised", "done"}
    PROVE  WalkIsExact'
  BY DEF WalkIsExact

LEMMA StepWalkKeeps ==
    ASSUME WalkInv, StepWalk
    PROVE  WalkInv' /\ WalkIsExact'
  <1>1. CASE EndWalk
    BY <1>1, EndWalkKeeps
  <1>2. CASE todo # <<>> /\ ~EndWalk
    <2>1. PICK x : x = Head(todo) /\ (Raise(x) \/ Spread(x) \/ GoInto(x) \/ Emit(x) \/ PassOver(x))
      BY <1>2 DEF StepWalk
    <2>2. CASE Raise(x)
      BY <1>2, <2>1, <2>2, RaiseKeeps
    <2>3. CASE Spread(x)
      <3>1. outcome' \notin {"raised", "done"}
        BY <2>3 DEF Spread, Next1
      <3>2. QED
        BY <1>2, <2>1, <2>3, <3>1, SpreadKeeps, ExactMeanwhile
    <2>4. CASE GoInto(x)
      <3>1. outcome' \notin {"raised", "done"}
        BY <2>4 DEF GoInto, Next1
      <3>2. QED
        BY <1>2, <2>1, <2>4, <3>1, GoIntoKeeps, ExactMeanwhile
    <2>5. CASE Emit(x)
      <3>1. outcome' \notin {"raised", "done"}
        BY <2>5 DEF Emit, Next1
      <3>2. QED
        BY <1>2, <2>1, <2>5, <3>1, EmitKeeps, ExactMeanwhile
    <2>6. CASE PassOver(x)
      <3>1. outcome' \notin {"raised", "done"}
        BY <2>6 DEF PassOver, Next1
      <3>2. QED
        BY <1>2, <2>1, <2>6, <3>1, PassOverKeeps, ExactMeanwhile
    <2>7. QED
      BY <2>1, <2>2, <2>3, <2>4, <2>5, <2>6
  <1>3. QED
    BY <1>1, <1>2 DEF StepWalk

\* Scans leave a walk as it is, and take back no acceptance.
LEMMA WalkUnmoved ==
    ASSUME WalkInv, WalkIsExact, UNCHANGED walking, accepted \subseteq accepted'
    PROVE  WalkInv' /\ WalkIsExact'
  <1>1. WalkIsExact'
    BY DEF walking, WalkIsExact
  <1>2. WalkTypeOK'
    BY DEF WalkInv, walking, WalkTypeOK, Occurs
  <1>3. WalkOK'
    BY DEF WalkInv, walking, WalkOK, Walked
  <1>4. QED
    BY <1>1, <1>2, <1>3 DEF WalkInv

\* In a result that conforms, only instances of reachable classes are entered:
\* they make a set that is closed under what unmarked fields hold.
LEMMA Declared ==
    ASSUME SchemaInv, WalkInv
    PROVE  EmittedIsDeclared
  <1> SUFFICES ASSUME outcome # "none", Conforms(result), NEW x \in emitted
               PROVE  LET e == Fields[ClassOf[x.object]][x.field].entity IN
                      registered[NameOf[e]] = e \/ <<ClassOf[x.object], x.field>> \in warned
    BY DEF EmittedIsDeclared
  <1> DEFINE m == ClassOf[result]
             S == {p \in Within[result] : ClassOf[p] \in Reachable[m]}
  <1>1. result \in Object /\ m \in accepted /\ m \in Class /\ x \in AllHeld[result] /\ Marked(x)
    BY WalkAssumption DEF WalkInv, WalkTypeOK, WalkOK
  <1>2. ASSUME NEW p \in S, NEW y \in Held(p), Entered(y)
        PROVE  y.value.object \in S
    <2>1. /\ p \in Object /\ p \in Within[result] /\ ClassOf[p] \in Reachable[m]
          /\ y.value.object \in Within[result] /\ y \in AllHeld[result]
      BY <1>1, <1>2, WithinIsLeast, AllHeldAt DEF ClosedWithin
    <2>2. y \in Occ /\ Occurs(y) /\ y.object = p /\ y.field \in DOMAIN Holds[p]
      BY <2>1, HeldIs DEF Occurs
    <2>3. ClassOf[y.value.object] \in ToSet(Fields[ClassOf[p]][y.field].nested)
      BY <1>2, <2>1, <2>2 DEF Conforms, Entered
    <2>4. Fields[ClassOf[p]][y.field].entity = None /\ y.field \in DOMAIN Fields[ClassOf[p]]
      BY <1>2, <2>1, <2>2, HoldsAt DEF Entered, Marked
    <2>5. ClassOf[y.value.object] \in Reachable[m]
      BY <1>1, <2>1, <2>3, <2>4, ReachableIsLeast DEF Closed
    <2>6. QED
      BY <2>1, <2>5
  <1>3. result \in S /\ S \in SUBSET Object
    BY <1>1, WithinIsLeast, ReachableIsLeast
  <1>4. Within[result] \subseteq S
    <2> HIDE DEF S
    <2>1. ClosedWithin(S)
      BY <1>2 DEF ClosedWithin
    <2>2. QED
      BY <1>1, <1>3, <2>1, WithinIsLeast
  <1>5. /\ x.object \in Object /\ ClassOf[x.object] \in Reachable[m]
        /\ x.field \in DOMAIN Holds[x.object]
    BY <1>1, <1>4, AllHeldTyped DEF Occ, Occurs
  <1>6. x.field \in DOMAIN Fields[ClassOf[x.object]] /\ ClassOf[x.object] \in Class
    BY <1>5, HoldsAt
  <1>7. Fields[ClassOf[x.object]][x.field].entity # None
    BY <1>1 DEF Marked
  <1>8. QED
    BY <1>1, <1>5, <1>6, <1>7 DEF SchemaInv, DeclaredOrWarned

LEMMA AcceptedStay ==
    ASSUME Scan \/ \E m \in Class : Pin(m)
    PROVE  accepted \subseteq accepted'
  BY DEF Scan, Pin, Enter, Finish, Refuse, Register, Descend

LEMMA InvInit == WalkInit => Inv
  <1> SUFFICES ASSUME WalkInit PROVE Inv
    OBVIOUS
  <1>1. SchemaInv
    BY SchemaInit DEF WalkInit
  <1>2. WalkInv /\ WalkIsExact
    BY WalkInit1
  <1>3. QED
    BY <1>1, <1>2, Declared DEF Inv, WalkInv

LEMMA InvNext == Inv /\ [Next]_<<vars, walking>> => Inv'
  <1> SUFFICES ASSUME Inv, [Next]_<<vars, walking>> PROVE Inv'
    OBVIOUS
  <1>1. SchemaInv /\ WalkInv /\ WalkIsExact
    BY DEF Inv, WalkInv
  <1>2. (SchemaInv /\ WalkInv => EmittedIsDeclared)'
    BY Declared, PTL
  <1> SUFFICES SchemaInv' /\ WalkInv' /\ WalkIsExact'
    BY <1>2 DEF Inv, WalkInv
  <1>3. CASE Scan /\ UNCHANGED walking
    BY <1>1, <1>3, ScanKeeps, AcceptedStay, WalkUnmoved
  <1>4. CASE (\E m \in Class : Pin(m)) /\ UNCHANGED walking
    BY <1>1, <1>4, PinKeeps, AcceptedStay, WalkUnmoved
  <1>5. CASE \E o \in Object : Return(o)
    <2>1. PICK o \in Object : Return(o)
      BY <1>5
    <2>2. UNCHANGED vars /\ outcome' \notin {"raised", "done"}
      BY <2>1 DEF Return
    <2>3. QED
      BY <1>1, <2>1, <2>2, SchemaStutters, ReturnKeeps, ExactMeanwhile
  <1>6. CASE StepWalk
    <2>1. UNCHANGED vars
      BY <1>6 DEF StepWalk, EndWalk, Raise, Spread, GoInto, Emit, PassOver
    <2>2. QED
      BY <1>1, <1>6, <2>1, SchemaStutters, StepWalkKeeps
  <1>7. CASE UNCHANGED <<vars, walking>>
    <2>1. UNCHANGED vars /\ UNCHANGED walking /\ accepted \subseteq accepted'
      BY <1>7 DEF vars
    <2>2. QED
      BY <1>1, <2>1, SchemaStutters, WalkUnmoved
  <1>8. QED
    BY <1>3, <1>4, <1>5, <1>6, <1>7 DEF Next

\* Scans hold nothing that cannot be reached and owe nothing they do not hold,
\* and so do walks (registry.py, _scan; extract.py, _walk).
THEOREM SchemaInvHolds == Spec => []Inv
  BY InvInit, InvNext, PTL DEF Spec

\* A model is refused exactly when a mis-marked field can be reached from it,
\* whatever circles its annotations go in (registry.py).
THEOREM VerdictsAreReachability == Spec => []VerdictIsReachability
  <1>1. Inv => VerdictIsReachability
    BY DEF Inv, SchemaInv
  <1>2. QED
    BY SchemaInvHolds, <1>1, PTL

\* Every entity reachable from an accepted model is the one its name stands
\* for, or the field that has it was warned about (registry.py).
THEOREM EntitiesDeclared == Spec => []DeclaredOrWarned
  <1>1. Inv => DeclaredOrWarned
    BY DEF Inv, SchemaInv
  <1>2. QED
    BY SchemaInvHolds, <1>1, PTL

\* A walk raises only if something in its result fits no rule, at whatever depth;
\* of a regular result it raises exactly then, and otherwise hands over exactly the
\* primitives that are marked (extract.py).
THEOREM WalksAreExact == Spec => []WalkIsExact
  <1>1. Inv => WalkIsExact
    BY DEF Inv
  <1>2. QED
    BY SchemaInvHolds, <1>1, PTL

\* The recursion over values emits nothing that the recursion over annotations
\* did not declare or warn about (extract.py and registry.py).
THEOREM EmissionsDeclared == Spec => []EmittedIsDeclared
  <1>1. Inv => EmittedIsDeclared
    BY DEF Inv
  <1>2. QED
    BY SchemaInvHolds, <1>1, PTL

===============================================================================
