------------------------------- MODULE ClassInfo -------------------------------
(***************************************************************************)
(* How the simulator reads the lists of names (ClassInfo::impl_read_...    *)
(* _file_et2, classinfo.cpp): first the classes, then the fields, then the *)
(* methods.  A step reads one line, whose name and ids may be any,         *)
(* repeated ones included; only the empty name names no class.             *)
(*                                                                         *)
(* A class may be known by its name (rev_map) and by its id (TheClasses);  *)
(* an id may come to stand for another Class, so the Class objects are     *)
(* numbered as they are made.  Ids count classes and fields from 1 and     *)
(* stay far below the 2^32 of their type.                                  *)
(***************************************************************************)
EXTENDS Naturals, Sequences, FiniteSets

CONSTANTS Names,       \* names of classes
          Ids,         \* ids of classes in the class list
          FieldIds,
          NoName,      \* the class of a field without a '/' in its name
          MaxLines     \* bound: lines of a file

ASSUME ClassInfoAssumption ==
    /\ Ids \subseteq Nat
    /\ NoName \notin Names
    /\ MaxLines \in Nat

VARIABLES
    phase,        \* the file being read
    lines,        \* read of it
    classes,      \* the Class objects made so far
    rev_map,      \* name -> id
    TheClasses,   \* id -> Class object
    max_class_id,
    field_map,    \* field id -> class part of its name
    TheFields     \* field id -> Class object

vars == <<phase, lines, classes, rev_map, TheClasses, max_class_id, field_map, TheFields>>

Empty == [x \in {} |-> 0]

Init ==
    /\ phase = "classes"
    /\ lines = 0
    /\ classes = << >>
    /\ rev_map = Empty /\ TheClasses = Empty /\ max_class_id = 0
    /\ field_map = Empty /\ TheFields = Empty

\* map[key] = value
With(map, key, value) ==
    [x \in DOMAIN map \cup {key} |-> IF x = key THEN value ELSE map[x]]

\* Mutant: the arguments in another order.
ClassSwapped(id, name, fields) == [id |-> name, name |-> id, fields |-> fields]

Class(id, name, fields) == [id |-> id, name |-> name, fields |-> fields]

\* Mutant: stored by its number in the file.
NewByCount(id, name, fields) ==
    /\ classes' = Append(classes, Class(id, name, fields))
    /\ TheClasses' = With(TheClasses, Len(classes) + 1, Len(classes) + 1)

\* cls = new Class(...); TheClasses[cls->getId()] = cls;
NewClass(id, name, fields) ==
    /\ classes' = Append(classes, Class(id, name, fields))
    /\ TheClasses' = With(TheClasses, id, Len(classes) + 1)

\* std::max(max_class_id, type_id)
MaxId(id) == IF id > max_class_id THEN id ELSE max_class_id

ReadLine(file) ==
    /\ phase = file
    /\ lines < MaxLines
    /\ lines' = lines + 1
    /\ UNCHANGED phase

\* <name>,<id>.  A name that comes again is skipped; an id that comes again
\* (`This shouldn't happen') names the Class that has it already.
ClassLine(name, id) ==
    /\ ReadLine("classes")
    /\ IF name \in DOMAIN rev_map
       THEN UNCHANGED <<classes, rev_map, TheClasses, max_class_id>>
       ELSE /\ rev_map' = With(rev_map, name, id)
            /\ IF id \in DOMAIN TheClasses
               THEN UNCHANGED <<classes, TheClasses, max_class_id>>
               ELSE /\ NewClass(id, name, {})
                    /\ max_class_id' = MaxId(id)
    /\ UNCHANGED <<field_map, TheFields>>

\* Mutant: a field id that comes again is read like a new one.
KnownNever(field) == FALSE

Known(field) == field \in DOMAIN field_map

\* Mutant: max_class_id stays.
SameMax == max_class_id

\* max_class_id += 1
NextMax == max_class_id + 1

\* <name>,<id>, where owner is the last but one of the parts that '/' makes of
\* the name.
FieldLine(owner, field) ==
    /\ ReadLine("fields")
    /\ IF Known(field)
       THEN UNCHANGED <<classes, TheClasses, max_class_id, field_map, TheFields>>
       ELSE /\ field_map' = With(field_map, field, owner)
            /\ IF owner \in DOMAIN rev_map
               THEN LET k == TheClasses[rev_map[owner]] IN
                    /\ classes' = [classes EXCEPT ![k].fields = @ \cup {field}]
                    /\ TheFields' = With(TheFields, field, k)
                    /\ UNCHANGED <<TheClasses, max_class_id>>
               ELSE /\ NewClass(max_class_id, owner, {field})
                    /\ TheFields' = With(TheFields, field, Len(classes) + 1)
                    /\ max_class_id' = NextMax
    /\ UNCHANGED rev_map

\* A line of the method list is read into method_id and dropped.
MethodLine ==
    /\ ReadLine("methods")
    /\ UNCHANGED <<classes, rev_map, TheClasses, max_class_id, field_map, TheFields>>

NextFile == [classes |-> "fields", fields |-> "methods", methods |-> "done"]

EndOfFile ==
    /\ phase # "done"
    /\ phase' = NextFile[phase]
    /\ lines' = 0
    /\ UNCHANGED <<classes, rev_map, TheClasses, max_class_id, field_map, TheFields>>

Done == phase = "done" /\ UNCHANGED vars

Next ==
    \/ \E name \in Names, id \in Ids : ClassLine(name, id)
    \/ \E owner \in Names \cup {NoName}, field \in FieldIds : FieldLine(owner, field)
    \/ MethodLine \/ EndOfFile \/ Done

Spec == Init /\ [][Next]_vars

------------------------------------------------------------------------------
ClassType == [id : Nat, name : Names \cup {NoName}, fields : SUBSET FieldIds]

\* Types.
TypeOK ==
    /\ phase \in {"classes", "fields", "methods", "done"}
    /\ lines \in 0 .. MaxLines
    /\ classes \in Seq(ClassType)
    /\ DOMAIN rev_map \subseteq Names /\ rev_map \in [DOMAIN rev_map -> Nat]
    /\ DOMAIN TheClasses \subseteq Nat
    /\ TheClasses \in [DOMAIN TheClasses -> DOMAIN classes]
    /\ max_class_id \in Nat
    /\ DOMAIN field_map \subseteq FieldIds
    /\ field_map \in [DOMAIN field_map -> Names \cup {NoName}]
    /\ TheFields \in [DOMAIN field_map -> DOMAIN classes]

\* assert(cls != NULL): a class that is known by its name is in TheClasses,
\* whatever ids came twice and whatever the fields displaced.
ClassFound == \A name \in DOMAIN rev_map : rev_map[name] \in DOMAIN TheClasses

\* `Max class id': no class has a greater one.
MaxIsBound == \A id \in DOMAIN TheClasses : id <= max_class_id

\* A field belongs to one Class object, the one that TheFields says, even if its
\* id comes again with another class.
OneOwner ==
    \A field \in FieldIds : \A k \in DOMAIN classes :
        field \in classes[k].fields <=> field \in DOMAIN TheFields /\ TheFields[field] = k

\* The fields displace at most one class, that with the greatest id: the Class
\* objects made for fields do not displace each other.
Displaced == {k \in DOMAIN classes : TheClasses[classes[k].id] # k}

AtMostOneDisplaced ==
    \A k \in Displaced : /\ \A l \in Displaced : k = l
                         /\ \A name \in DOMAIN rev_map : rev_map[name] <= classes[k].id

\* `Class not yet in the map!': the Class that is then made for a field gets an
\* id of its own.
NotYetInMap ==
    [][phase = "fields" /\ Len(classes') > Len(classes)
         => classes'[Len(classes')].id \notin DOMAIN TheClasses]_vars
==============================================================================
