---------------------------- MODULE ClassInfoProofs ----------------------------
(***************************************************************************)
(* What the maps of ClassInfo agree on, for any lists of names.            *)
(***************************************************************************)
EXTENDS ClassInfo, SequenceTheorems, TLAPS

(* The inductive invariant: the types, the facts to be shown, and two more. *)

\* TheClasses holds every id that a Class has, with a Class of that id.
IdsOK ==
    /\ \A id \in DOMAIN TheClasses : classes[TheClasses[id]].id = id
    /\ \A k \in DOMAIN classes : classes[k].id \in DOMAIN TheClasses

\* Classes displace none, and after a field has, the next id is free.
FreeOK ==
    Displaced # {} =>
        /\ phase # "classes"
        /\ \A id \in DOMAIN TheClasses : id < max_class_id

IInv ==
    /\ TypeOK /\ ClassFound /\ MaxIsBound /\ OneOwner /\ AtMostOneDisplaced
    /\ IdsOK /\ FreeOK

------------------------------------------------------------------------------
LEMMA WithFacts ==
    ASSUME NEW map, NEW key, NEW value
    PROVE  /\ DOMAIN With(map, key, value) = DOMAIN map \cup {key}
           /\ With(map, key, value)[key] = value
           /\ \A x \in DOMAIN map : x # key => With(map, key, value)[x] = map[x]
BY DEF With

LEMMA InitIInv == Init => IInv
BY ClassInfoAssumption DEF Init, IInv, TypeOK, ClassFound, MaxIsBound, OneOwner,
   AtMostOneDisplaced, IdsOK, FreeOK, Displaced, Empty

\* What NewClass does, for a Class made for a class (fields is empty) or a field.
LEMMA NewClassFacts ==
    ASSUME IInv, NEW id \in Nat, NEW name \in Names \cup {NoName}, NEW fields \in SUBSET FieldIds,
           NewClass(id, name, fields)
    PROVE  /\ classes' \in Seq(ClassType)
           /\ DOMAIN classes' = DOMAIN classes \cup {Len(classes) + 1}
           /\ Len(classes) + 1 \notin DOMAIN classes
           /\ classes'[Len(classes) + 1] = Class(id, name, fields)
           /\ \A k \in DOMAIN classes : classes'[k] = classes[k]
           /\ DOMAIN TheClasses' = DOMAIN TheClasses \cup {id}
           /\ TheClasses' \in [DOMAIN TheClasses' -> DOMAIN classes']
           /\ TheClasses'[id] = Len(classes) + 1
           /\ \A x \in DOMAIN TheClasses : x # id => TheClasses'[x] = TheClasses[x]
           /\ IdsOK'
<1>1. classes \in Seq(ClassType) /\ TheClasses \in [DOMAIN TheClasses -> DOMAIN classes]
  BY DEF IInv, TypeOK
<1>2. Class(id, name, fields) \in ClassType /\ Class(id, name, fields).id = id
  BY DEF Class, ClassType
<1>3. classes' = Append(classes, Class(id, name, fields))
  BY DEF NewClass
<1> DEFINE n == Len(classes) + 1
<1>4. /\ classes' \in Seq(ClassType)
      /\ DOMAIN classes' = DOMAIN classes \cup {n} /\ n \notin DOMAIN classes
      /\ classes'[n] = Class(id, name, fields)
      /\ \A k \in DOMAIN classes : classes'[k] = classes[k]
  <2> DEFINE c == Class(id, name, fields)
  <2> HIDE DEF c
  <2>1. c \in ClassType /\ classes' = Append(classes, c)
    BY <1>2, <1>3 DEF c
  <2>2. classes'[n] = c /\ classes' \in Seq(ClassType) /\ Len(classes') = n
        /\ \A k \in 1 .. Len(classes) : classes'[k] = classes[k]
    BY <1>1, <2>1, AppendProperties
  <2>3. DOMAIN classes = 1 .. Len(classes) /\ DOMAIN classes' = 1 .. n /\ Len(classes) \in Nat
    BY <1>1, <2>2
  <2> QED  BY <2>2, <2>3 DEF c
<1> HIDE DEF n
<1>5. /\ DOMAIN TheClasses' = DOMAIN TheClasses \cup {id}
      /\ TheClasses'[id] = n
      /\ \A x \in DOMAIN TheClasses : x # id => TheClasses'[x] = TheClasses[x]
      /\ TheClasses' = [x \in DOMAIN TheClasses' |-> TheClasses'[x]]
  BY WithFacts DEF NewClass, n, With
<1>6. TheClasses' \in [DOMAIN TheClasses' -> DOMAIN classes']
  BY <1>1, <1>4, <1>5
<1>7. IdsOK'
  BY <1>1, <1>2, <1>4, <1>5 DEF IInv, IdsOK
<1> QED  BY <1>4, <1>5, <1>6, <1>7 DEF n

\* A line of the class list whose name is new and whose id is not.
LEMMA KnownIdStep ==
    ASSUME IInv, NEW name \in Names, NEW id \in DOMAIN TheClasses,
           rev_map' = With(rev_map, name, id), lines' \in 0 .. MaxLines, phase = "classes",
           UNCHANGED <<phase, classes, TheClasses, max_class_id, field_map, TheFields>>
    PROVE  IInv'
<1>1. id \in Nat /\ Displaced = {}
  BY DEF IInv, TypeOK, FreeOK
<1>2. /\ DOMAIN rev_map' = DOMAIN rev_map \cup {name}
      /\ rev_map' \in [DOMAIN rev_map' -> Nat]
      /\ \A x \in DOMAIN rev_map' : rev_map'[x] \in DOMAIN TheClasses
  BY <1>1 DEF With, IInv, TypeOK, ClassFound
<1>3. Displaced' = {}
  BY <1>1 DEF Displaced
<1>4. TypeOK'
  BY <1>2 DEF IInv, TypeOK
<1> QED
  BY <1>2, <1>3, <1>4 DEF IInv, ClassFound, MaxIsBound, OneOwner, AtMostOneDisplaced, IdsOK, FreeOK

\* A line of the class list whose name and id are new.
LEMMA NewIdStep ==
    ASSUME IInv, NEW name \in Names, NEW id \in Ids, id \notin DOMAIN TheClasses,
           rev_map' = With(rev_map, name, id), lines' \in 0 .. MaxLines, phase = "classes",
           NewClass(id, name, {}), max_class_id' = MaxId(id),
           UNCHANGED <<phase, field_map, TheFields>>
    PROVE  IInv'
<1> DEFINE n == Len(classes) + 1
<1>1. id \in Nat /\ Displaced = {} /\ max_class_id \in Nat
  BY ClassInfoAssumption DEF IInv, TypeOK, FreeOK
<1>2. /\ classes' \in Seq(ClassType)
      /\ DOMAIN classes' = DOMAIN classes \cup {n} /\ n \notin DOMAIN classes
      /\ classes'[n] = Class(id, name, {})
      /\ \A k \in DOMAIN classes : classes'[k] = classes[k]
      /\ DOMAIN TheClasses' = DOMAIN TheClasses \cup {id}
      /\ TheClasses' \in [DOMAIN TheClasses' -> DOMAIN classes']
      /\ TheClasses'[id] = n
      /\ \A x \in DOMAIN TheClasses : TheClasses'[x] = TheClasses[x]
      /\ IdsOK'
  BY <1>1, NewClassFacts
<1> HIDE DEF n
<1>3. /\ DOMAIN rev_map' = DOMAIN rev_map \cup {name}
      /\ rev_map' \in [DOMAIN rev_map' -> Nat]
      /\ \A x \in DOMAIN rev_map' : rev_map'[x] \in DOMAIN TheClasses'
  BY <1>1, <1>2 DEF With, IInv, TypeOK, ClassFound
<1>4. /\ max_class_id' \in Nat /\ id <= max_class_id' /\ max_class_id <= max_class_id'
  BY <1>1 DEF MaxId
<1>5. \A x \in DOMAIN TheClasses' : x <= max_class_id'
  BY <1>1, <1>2, <1>4 DEF IInv, MaxIsBound, TypeOK
<1>6. Displaced' = {}
  <2>1. \A k \in DOMAIN classes : /\ classes[k].id \in DOMAIN TheClasses
                                 /\ TheClasses[classes[k].id] = k
    BY <1>1 DEF Displaced, IInv, IdsOK
  <2>2. classes'[n].id = id
    BY <1>2 DEF Class
  <2>3. \A k \in DOMAIN classes' : TheClasses'[classes'[k].id] = k
    BY <1>2, <2>1, <2>2
  <2> QED  BY <2>3 DEF Displaced
<1>7. OneOwner'
  <2>1. classes'[n].fields = {}
    BY <1>2 DEF Class
  <2>2. \A field \in DOMAIN TheFields : TheFields[field] # n
    BY <1>2 DEF IInv, TypeOK
  <2> QED  BY <1>2, <2>1, <2>2 DEF IInv, OneOwner
<1>8. TypeOK'
  BY <1>1, <1>2, <1>3, <1>4 DEF IInv, TypeOK
<1> QED
  BY <1>2, <1>3, <1>5, <1>6, <1>7, <1>8 DEF IInv, ClassFound, MaxIsBound, AtMostOneDisplaced, FreeOK

\* A field of a class that is known by its name.
LEMMA KnownClassStep ==
    ASSUME IInv, NEW owner \in DOMAIN rev_map, NEW field \in FieldIds, ~Known(field),
           NEW k, k = TheClasses[rev_map[owner]],
           field_map' = With(field_map, field, owner), lines' \in 0 .. MaxLines,
           classes' = [classes EXCEPT ![k].fields = @ \cup {field}],
           TheFields' = With(TheFields, field, k),
           UNCHANGED <<phase, rev_map, TheClasses, max_class_id>>
    PROVE  IInv'
<1>1. k \in DOMAIN classes /\ classes \in Seq(ClassType) /\ owner \in Names
  BY DEF IInv, TypeOK, ClassFound
<1>2. /\ DOMAIN classes' = DOMAIN classes
      /\ classes' \in Seq(ClassType)
      /\ \A l \in DOMAIN classes : classes'[l].id = classes[l].id
      /\ \A l \in DOMAIN classes : l # k => classes'[l] = classes[l]
      /\ classes'[k].fields = classes[k].fields \cup {field}
  <2>1. classes[k] \in ClassType
    BY <1>1, ElementOfSeq
  <2>2. [classes[k] EXCEPT !.fields = @ \cup {field}] \in ClassType
    BY <2>1 DEF ClassType
  <2>3. classes' = [classes EXCEPT ![k] = [classes[k] EXCEPT !.fields = @ \cup {field}]]
    OBVIOUS
  <2>4. classes' \in Seq(ClassType)
    BY <1>1, <2>2, <2>3, ExceptSeq
  <2> QED  BY <1>1, <2>1, <2>3, <2>4 DEF ClassType
<1>3. /\ DOMAIN field_map' = DOMAIN field_map \cup {field}
      /\ field_map' \in [DOMAIN field_map' -> Names \cup {NoName}]
  BY <1>1 DEF With, IInv, TypeOK
<1>4. /\ TheFields' \in [DOMAIN field_map' -> DOMAIN classes']
      /\ DOMAIN TheFields' = DOMAIN TheFields \cup {field}
      /\ TheFields'[field] = k
      /\ \A x \in DOMAIN TheFields : TheFields'[x] = TheFields[x]
      /\ field \notin DOMAIN TheFields
  BY <1>1, <1>2, <1>3 DEF With, IInv, TypeOK, Known
<1>5. OneOwner'
  BY <1>1, <1>2, <1>4 DEF IInv, OneOwner
<1>6. Displaced' = Displaced
  BY <1>2 DEF Displaced
<1>7. TypeOK'
  BY <1>2, <1>3, <1>4 DEF IInv, TypeOK
<1>8. IdsOK'
  BY <1>2 DEF IInv, IdsOK, TypeOK
<1>9. AtMostOneDisplaced'
  <2>1. \A l \in Displaced : l \in DOMAIN classes
    BY DEF Displaced
  <2> QED  BY <1>2, <1>6, <2>1 DEF IInv, AtMostOneDisplaced
<1> QED
  BY <1>5, <1>6, <1>7, <1>8, <1>9 DEF IInv, ClassFound, MaxIsBound, FreeOK

\* A field of a class that is not: the one step that may displace a class.
LEMMA UnknownClassStep ==
    ASSUME IInv, NEW owner \in Names \cup {NoName}, NEW field \in FieldIds, ~Known(field),
           phase = "fields", field_map' = With(field_map, field, owner), lines' \in 0 .. MaxLines,
           NewClass(max_class_id, owner, {field}),
           TheFields' = With(TheFields, field, Len(classes) + 1), max_class_id' = NextMax,
           UNCHANGED <<phase, rev_map>>
    PROVE  IInv'
<1> DEFINE n == Len(classes) + 1
           m == max_class_id
<1>1. m \in Nat /\ classes \in Seq(ClassType)
  BY DEF IInv, TypeOK
<1>12. {field} \in SUBSET FieldIds /\ NewClass(m, owner, {field})
  OBVIOUS
<1>2. /\ classes' \in Seq(ClassType)
      /\ DOMAIN classes' = DOMAIN classes \cup {n} /\ n \notin DOMAIN classes
      /\ classes'[n] = Class(m, owner, {field})
      /\ \A k \in DOMAIN classes : classes'[k] = classes[k]
      /\ DOMAIN TheClasses' = DOMAIN TheClasses \cup {m}
      /\ TheClasses' \in [DOMAIN TheClasses' -> DOMAIN classes']
      /\ TheClasses'[m] = n
      /\ \A x \in DOMAIN TheClasses : x # m => TheClasses'[x] = TheClasses[x]
      /\ IdsOK'
  BY ONLY IInv, <1>1, <1>12, NewClassFacts
<1>3. TheFields' = With(TheFields, field, n) /\ max_class_id' = m + 1
  BY DEF NextMax
<1> HIDE DEF n, m
<1>4. /\ DOMAIN field_map' = DOMAIN field_map \cup {field}
      /\ field_map' \in [DOMAIN field_map' -> Names \cup {NoName}]
  BY DEF With, IInv, TypeOK
<1>5. /\ TheFields' \in [DOMAIN field_map' -> DOMAIN classes']
      /\ DOMAIN TheFields' = DOMAIN TheFields \cup {field}
      /\ TheFields'[field] = n
      /\ \A x \in DOMAIN TheFields : TheFields'[x] = TheFields[x]
      /\ field \notin DOMAIN TheFields
  BY <1>2, <1>3, <1>4 DEF With, IInv, TypeOK, Known
<1>6. TypeOK'
  BY <1>1, <1>2, <1>3, <1>4, <1>5 DEF IInv, TypeOK
<1>7. ClassFound'
  BY <1>2 DEF IInv, ClassFound
<1>8. \A x \in DOMAIN TheClasses' : x \in Nat /\ x <= m /\ x < max_class_id'
  BY <1>1, <1>2, <1>3 DEF IInv, MaxIsBound, TypeOK, m
<1>9. MaxIsBound'
  BY <1>1, <1>3, <1>8 DEF MaxIsBound
<1>10. OneOwner'
  <2>1. classes'[n].fields = {field}
    BY <1>2 DEF Class
  <2>2. \A x \in DOMAIN TheFields : TheFields[x] # n
    BY <1>2 DEF IInv, TypeOK
  <2>3. \A f \in FieldIds, k \in DOMAIN classes :
           f \in classes'[k].fields <=> f \in DOMAIN TheFields' /\ TheFields'[f] = k
    BY <1>2, <1>5, <2>2 DEF IInv, OneOwner
  <2>4. \A f \in FieldIds : f \in classes'[n].fields <=> f \in DOMAIN TheFields' /\ TheFields'[f] = n
    BY <1>5, <2>1, <2>2
  <2> QED  BY <1>2, <2>3, <2>4 DEF OneOwner
<1>11. AtMostOneDisplaced'
  <2>1. classes'[n].id = m
    BY <1>2 DEF Class
  <2>2. ASSUME NEW k \in Displaced'
        PROVE  k \in DOMAIN classes /\ (k \in Displaced \/ classes[k].id = m)
    BY <1>2, <2>1, <2>2 DEF Displaced, IInv, IdsOK
  <2>3. CASE Displaced # {}
    <3>1. \A x \in DOMAIN TheClasses : x # m
      BY <2>3 DEF IInv, FreeOK, TypeOK, m
    <3>2. \A k \in DOMAIN classes : classes[k].id # m
      BY <3>1 DEF IInv, IdsOK
    <3>3. Displaced' \subseteq Displaced
      BY <2>2, <3>2
    <3>4. \A k \in Displaced : k \in DOMAIN classes
      BY DEF Displaced
    <3> QED  BY <1>2, <3>3, <3>4 DEF IInv, AtMostOneDisplaced
  <2>4. CASE Displaced = {}
    <3>1. \A k \in DOMAIN classes : TheClasses[classes[k].id] = k
      BY <2>4 DEF Displaced
    <3>2. \A k, l \in Displaced' : k = l
      BY <2>2, <2>4, <3>1
    <3>3. \A name \in DOMAIN rev_map : rev_map[name] <= m
      BY DEF IInv, ClassFound, MaxIsBound, m
    <3>4. \A k \in Displaced' : classes'[k].id = m
      BY <1>2, <2>2, <2>4
    <3> QED  BY <3>2, <3>3, <3>4 DEF AtMostOneDisplaced
  <2> QED  BY <2>3, <2>4
<1>13. FreeOK'
  BY <1>8 DEF FreeOK
<1> QED
  BY <1>2, <1>6, <1>7, <1>9, <1>10, <1>11, <1>13 DEF IInv

LEMMA IInvStep == IInv /\ [Next]_vars => IInv'
<1> SUFFICES ASSUME IInv, [Next]_vars PROVE IInv'
  OBVIOUS
<1>0. MaxLines \in Nat /\ lines \in 0 .. MaxLines
  BY ClassInfoAssumption DEF IInv, TypeOK
<1>1. ASSUME UNCHANGED <<classes, rev_map, TheClasses, max_class_id, field_map, TheFields>>,
             lines' \in 0 .. MaxLines, phase' \in {"classes", "fields", "methods", "done"},
             phase' = "classes" => phase = "classes"
      PROVE  IInv'
  <2>1. Displaced' = Displaced
    BY <1>1 DEF Displaced
  <2> QED
    BY <1>1, <2>1 DEF IInv, TypeOK, ClassFound, MaxIsBound, OneOwner, AtMostOneDisplaced,
       IdsOK, FreeOK
<1>2. ASSUME NEW file, ReadLine(file)
      PROVE  lines' \in 0 .. MaxLines /\ phase = file /\ phase' = phase
  BY <1>0, <1>2 DEF ReadLine
<1>3. ASSUME NEW name \in Names, NEW id \in Ids, ClassLine(name, id) PROVE IInv'
  <2>1. lines' \in 0 .. MaxLines /\ phase = "classes" /\ phase' = phase
    BY <1>2, <1>3 DEF ClassLine
  <2>2. CASE name \in DOMAIN rev_map
    BY <1>1, <1>3, <2>1, <2>2 DEF ClassLine
  <2>3. CASE name \notin DOMAIN rev_map /\ id \in DOMAIN TheClasses
    BY <1>3, <2>1, <2>3, KnownIdStep DEF ClassLine
  <2>4. CASE name \notin DOMAIN rev_map /\ id \notin DOMAIN TheClasses
    BY <1>3, <2>1, <2>4, NewIdStep DEF ClassLine
  <2> QED  BY <2>2, <2>3, <2>4
<1>4. ASSUME NEW owner \in Names \cup {NoName}, NEW field \in FieldIds, FieldLine(owner, field)
      PROVE  IInv'
  <2>1. lines' \in 0 .. MaxLines /\ phase = "fields" /\ phase' = phase
    BY <1>2, <1>4 DEF FieldLine
  <2>2. CASE Known(field)
    BY <1>1, <1>4, <2>1, <2>2 DEF FieldLine
  <2>3. CASE ~Known(field) /\ owner \in DOMAIN rev_map
    BY <1>4, <2>1, <2>3, KnownClassStep DEF FieldLine
  <2>4. CASE ~Known(field) /\ owner \notin DOMAIN rev_map
    BY <1>4, <2>1, <2>4, UnknownClassStep DEF FieldLine
  <2> QED  BY <2>2, <2>3, <2>4
<1>5. CASE MethodLine
  BY <1>1, <1>2, <1>5 DEF MethodLine
<1>6. CASE EndOfFile
  <2>1. phase' \in {"fields", "methods", "done"}
    BY <1>6 DEF EndOfFile, NextFile, IInv, TypeOK
  <2> QED  BY <1>0, <1>1, <1>6, <2>1 DEF EndOfFile
<1>7. CASE Done \/ UNCHANGED vars
  BY <1>0, <1>1, <1>7 DEF Done, vars, IInv, TypeOK
<1> QED  BY <1>3, <1>4, <1>5, <1>6, <1>7 DEF Next

LEMMA Inductive == Spec => []IInv
<1>1. Init => IInv
  BY InitIInv
<1>2. IInv /\ [Next]_vars => IInv'
  BY IInvStep
<1> QED  BY <1>1, <1>2, PTL DEF Spec

------------------------------------------------------------------------------
\* The types hold for any names, ids and lengths of the lists.
THEOREM TypeCorrect == Spec => []TypeOK
<1>1. IInv => TypeOK
  BY DEF IInv
<1> QED  BY <1>1, Inductive, PTL

\* The assertion after a class is looked up by its name cannot fail.
THEOREM ClassAlwaysFound == Spec => []ClassFound
<1>1. IInv => ClassFound
  BY DEF IInv
<1> QED  BY <1>1, Inductive, PTL

\* max_class_id bounds the ids of all classes.
THEOREM MaxAlwaysBound == Spec => []MaxIsBound
<1>1. IInv => MaxIsBound
  BY DEF IInv
<1> QED  BY <1>1, Inductive, PTL

\* A field belongs to the one class that TheFields names.
THEOREM FieldOwned == Spec => []OneOwner
<1>1. IInv => OneOwner
  BY DEF IInv
<1> QED  BY <1>1, Inductive, PTL

\* However many fields are read, they displace at most the class with the
\* greatest id.
THEOREM OneDisplaced == Spec => []AtMostOneDisplaced
<1>1. IInv => AtMostOneDisplaced
  BY DEF IInv
<1> QED  BY <1>1, Inductive, PTL
=============================================================================
