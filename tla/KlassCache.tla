----------------------------- MODULE KlassCache -----------------------------
(****************************************************************************)
(* The classes of a Ruby program that uses generated types, while files are *)
(* loaded, loaded again and collected, and what the extension remembers of  *)
(* them by address: klassCache and unions (ext/serializer.cpp:49-50).       *)
(*                                                                          *)
(* A generated class comes to be in steps: `class', FIELDS, and the four    *)
(* parts of init_thrift_struct.  Between any two of them other threads may  *)
(* create its objects, compare them, and write or read them.                *)
(****************************************************************************)
EXTENDS Integers, FiniteSets

CONSTANTS
  Klass,      \* class objects, each of which lives once
  Address,    \* what a VALUE of a class may be
  Constants,  \* the constants that classes are bound to
  Versions,   \* [Constants -> SUBSET Version]: what the file of each may say
  Names,      \* field names
  MaxLoads,   \* how often the body of one class is evaluated
  MaxObjects, \* how many objects the program holds
  NULL

\* A class body: its superclass and, of each field, its :class and whether it has
\* a :default.  A class without FIELDS is a program's own subclass.
Field == [class : Constants \cup {NULL}, default : BOOLEAN]
Bodies == {NULL} \cup UNION {[S -> Field] : S \in SUBSET Names}
Version == [super : {"Struct", "Union"} \cup Constants, fields : Bodies]

\* Generated classes have FIELDS and refer to generated classes
\* (t_ruby_generator.cc:425-449); only a subclass has a class of Constants above it.
Generated(c) == \A v \in Versions[c] : v.fields # NULL /\ v.super \notin Constants
ASSUME VersionsAssumption ==
  /\ Versions \in [Constants -> SUBSET Version]
  /\ (Klass \cup Constants) \cap {"Struct", "Union"} = {} /\ NULL \notin Klass \cup Constants \cup Address
  /\ "struct_fields" \notin Names
  /\ \A c \in Constants : \A v \in Versions[c] :
       IF v.fields = NULL THEN v.super \in Constants /\ Generated(v.super)
       ELSE /\ v.super \notin Constants
            /\ \A n \in DOMAIN v.fields : v.fields[n].class # NULL => Generated(v.fields[n].class)

ASSUME BoundsAssumption == MaxLoads \in Nat \ {0} /\ MaxObjects \in Nat

\* Values of FIELDS, in which a default is an object of its own for every evaluation
\* of a class body, and FieldInfoMaps, which hold classes by their addresses.
Default == Klass \X (1..MaxLoads) \X Names
FieldMap == UNION {[S -> [klass : Klass \cup {NULL}, default : Default \cup {NULL}]] : S \in SUBSET Names}
InfoMap == UNION {[S -> Address \cup {NULL}] : S \in SUBSET Names}
DefaultMap == UNION {[S -> Default] : S \in SUBSET Names}
ASSUME NullAssumption ==
  /\ NULL \notin FieldMap /\ NULL \notin InfoMap /\ NULL \notin DefaultMap
  /\ \A S \in SUBSET Names : S # NULL

VARIABLES
  bound,          \* the class each constant names
  life,           \* "unborn", "live" or "dead"
  addr, super,    \* of classes that were born
  body, pc,       \* the body being evaluated and the step it is at
  FIELDS, FIELD_SYMS, DEFAULT_VALUES,
  methods,        \* the accessors of a class, and struct_fields
  klassCache, unions,
  objects,        \* the objects of the program, as [klass, slots]
  frozen,         \* defaults that are frozen
  changed,        \* <<default, depth>> of what was changed in place
  loads,          \* how many bodies of each class were begun
  stale           \* classes whose FIELDS was set again after it was cached

definition == <<bound, life, addr, super, body, pc, loads>>
constants == <<FIELDS, FIELD_SYMS, DEFAULT_VALUES, methods, frozen>>
cached == <<klassCache, unions, stale>>
heap == <<objects, changed>>
vars == <<definition, constants, cached, heap>>

Live == {k \in Klass : life[k] = "live"}

\* Mutant: const_get(name, false).
OwnHolder(k, const) == k

\* rb_const_get and `::' look through the ancestors, rb_const_get_at does not.
Holder(k, const) == IF const[k] # NULL \/ super[k] \notin Klass THEN k ELSE super[k]

Lookup(k, const) == const[Holder(k, const)]

\* rb_class_inherited_p(klass, klass_for_union)
Inherits(s) == IF s \in Klass THEN super[s] = "Union" ELSE s = "Union"
IsUnion(k) == Inherits(super[k])

-----------------------------------------------------------------------------
(* The extension                                                            *)

\* What CreateFieldInfoMap makes of a class's own FIELDS: the same classes, as
\* addresses.
FieldInfoMap(k) ==
  [n \in DOMAIN FIELDS[k] |->
     IF FIELDS[k][n].klass = NULL THEN NULL ELSE addr[FIELDS[k][n].klass]]

\* Mutant: a class without FIELDS is given an empty map.
FindOrCreateWithoutFields(k) ==
  IF klassCache[addr[k]] # NULL THEN UNCHANGED cached
  ELSE /\ unions' = unions \cup (IF IsUnion(k) THEN {addr[k]} ELSE {})
       /\ klassCache' = [klassCache EXCEPT ![addr[k]] = IF FIELDS[k] = NULL THEN <<>> ELSE FieldInfoMap(k)]
       /\ UNCHANGED stale

\* The insertion into unions comes before the NameError of a class without FIELDS.
FindOrCreateFieldInfoMap(k) ==
  IF klassCache[addr[k]] # NULL THEN UNCHANGED cached
  ELSE /\ unions' = unions \cup (IF IsUnion(k) THEN {addr[k]} ELSE {})
       /\ klassCache' = IF FIELDS[k] = NULL THEN klassCache
                        ELSE [klassCache EXCEPT ![addr[k]] = FieldInfoMap(k)]
       /\ UNCHANGED stale

\* serialize and deserialize with class k, which end there with a NameError or go
\* on with its map.
UseRaises(k) == klassCache[addr[k]] = NULL /\ FIELDS[k] = NULL
Use(k) ==
  /\ k \in Live
  /\ FindOrCreateFieldInfoMap(k)
  /\ UNCHANGED <<definition, constants, heap>>

-----------------------------------------------------------------------------
(* Defining a class                                                         *)

\* `class X < S' makes a class at an address that no living class has ...
CreateClass(c, v) ==
  /\ bound[c] = NULL
  /\ v.super \in Constants => bound[v.super] # NULL /\ pc[bound[v.super]] = "ready"
  /\ \E k \in Klass, a \in Address :
       /\ life[k] = "unborn"
       /\ \A j \in Live : addr[j] # a
       /\ life' = [life EXCEPT ![k] = "live"]
       /\ addr' = [addr EXCEPT ![k] = a]
       /\ super' = [super EXCEPT ![k] = IF v.super \in Constants THEN bound[v.super] ELSE v.super]
       /\ body' = [body EXCEPT ![k] = v]
       /\ pc' = [pc EXCEPT ![k] = IF v.fields = NULL THEN "ready" ELSE "FIELDS"]
       /\ bound' = [bound EXCEPT ![c] = k]
       /\ loads' = [loads EXCEPT ![k] = 1]
  /\ UNCHANGED <<constants, cached, heap>>

\* ... or opens the one that is there, which must have the same superclass.
ReopenClass(c, v) ==
  LET k == bound[c] IN
  /\ k # NULL /\ pc[k] = "ready"
  /\ v.fields # NULL /\ v.super = super[k]
  /\ loads[k] < MaxLoads /\ loads' = [loads EXCEPT ![k] = @ + 1]
  /\ body' = [body EXCEPT ![k] = v]
  /\ pc' = [pc EXCEPT ![k] = "FIELDS"]
  /\ UNCHANGED <<bound, life, addr, super, constants, cached, heap>>

Step(k, from, to) ==
  /\ k \in Live /\ pc[k] = from
  /\ pc' = [pc EXCEPT ![k] = to]
  /\ UNCHANGED <<bound, life, addr, super, body, loads, heap>>

\* FIELDS = { ... }: a file comes after those it requires, a struct after those it
\* refers to, itself excepted.  Every evaluation makes its defaults anew.
AssignFields(k) ==
  LET fields == body[k].fields
      Class(n) == bound[fields[n].class]
  IN /\ Step(k, "FIELDS", "accessors")
     /\ \A n \in DOMAIN fields :
          fields[n].class # NULL =>
            Class(n) # NULL /\ (Class(n) = k \/ pc[Class(n)] = "ready")
     /\ FIELDS' = [FIELDS EXCEPT ![k] = [n \in DOMAIN fields |->
          [klass |-> IF fields[n].class = NULL THEN NULL ELSE Class(n),
           default |-> IF fields[n].default THEN <<k, loads[k], n>> ELSE NULL]]]
     /\ stale' = stale \cup (IF klassCache[addr[k]] # NULL THEN {k} ELSE {})
     /\ UNCHANGED <<FIELD_SYMS, DEFAULT_VALUES, methods, frozen, klassCache, unions>>

generate_accessors(k) ==
  /\ Step(k, "accessors", "FIELD_SYMS")
  /\ methods' = [methods EXCEPT ![k] = @ \cup DOMAIN FIELDS[k]]
  /\ UNCHANGED <<FIELDS, FIELD_SYMS, DEFAULT_VALUES, frozen, cached>>

generate_field_syms(k) ==
  /\ Step(k, "FIELD_SYMS", "cache_fields")
  /\ FIELD_SYMS' = [FIELD_SYMS EXCEPT ![k] = DOMAIN FIELDS[k]]
  /\ UNCHANGED <<FIELDS, DEFAULT_VALUES, methods, frozen, cached>>

\* Mutant: classes are cached when they are used first.
cache_fields_lazily(k) ==
  /\ Step(k, "cache_fields", "DEFAULT_VALUES")
  /\ UNCHANGED <<constants, cached>>

cache_fields(k) ==
  /\ Step(k, "cache_fields", "DEFAULT_VALUES")
  /\ FindOrCreateFieldInfoMap(k)
  /\ UNCHANGED constants

\* Mutant: the hash of the defaults is frozen, not the defaults.
generate_default_values_unfrozen(k) ==
  LET Defaulted == {n \in DOMAIN FIELDS[k] : FIELDS[k][n].default # NULL} IN
  /\ Step(k, "DEFAULT_VALUES", "struct_fields")
  /\ DEFAULT_VALUES' = [DEFAULT_VALUES EXCEPT ![k] = [n \in Defaulted |-> FIELDS[k][n].default]]
  /\ UNCHANGED <<FIELDS, FIELD_SYMS, methods, frozen, cached>>

\* Only the default itself is frozen, not what is in it.
generate_default_values(k) ==
  LET Defaulted == {n \in DOMAIN FIELDS[k] : FIELDS[k][n].default # NULL} IN
  /\ Step(k, "DEFAULT_VALUES", "struct_fields")
  /\ DEFAULT_VALUES' = [DEFAULT_VALUES EXCEPT ![k] = [n \in Defaulted |-> FIELDS[k][n].default]]
  /\ frozen' = frozen \cup {FIELDS[k][n].default : n \in Defaulted}
  /\ UNCHANGED <<FIELDS, FIELD_SYMS, methods, cached>>

define_struct_fields(k) ==
  /\ Step(k, "struct_fields", "ready")
  /\ methods' = [methods EXCEPT ![k] = @ \cup {"struct_fields"}]
  /\ UNCHANGED <<FIELDS, FIELD_SYMS, DEFAULT_VALUES, frozen, cached>>

Define(k) ==
  \/ AssignFields(k)
  \/ generate_accessors(k)
  \/ generate_field_syms(k)
  \/ cache_fields(k)
  \/ generate_default_values(k)
  \/ define_struct_fields(k)

\* A reloader removes the constant.
RemoveConst(c) ==
  /\ bound[c] # NULL /\ pc[bound[c]] = "ready"
  /\ bound' = [bound EXCEPT ![c] = NULL]
  /\ UNCHANGED <<life, addr, super, body, pc, loads, constants, cached, heap>>

-----------------------------------------------------------------------------
(* Objects                                                                  *)

\* Writing to the fields S of an object of class k, by their accessors.
CannotSend(k, S) ==
  Lookup(k, FIELD_SYMS) = NULL \/ ~ S \subseteq Lookup(k, FIELD_SYMS) \cap methods[Holder(k, FIELD_SYMS)]

Defaults(k) == Lookup(k, DEFAULT_VALUES)
NewRaises(k) ==
  ~ IsUnion(k) /\ (Defaults(k) = NULL \/ (Defaults(k) # <<>> /\ CannotSend(k, DOMAIN Defaults(k))))

\* klass.new, with at most one field given.  A union has no defaults.
New(k, given) ==
  LET values == IF IsUnion(k) THEN <<>> ELSE Defaults(k) IN
  /\ k \in Live /\ ~ NewRaises(k)
  /\ given # {} => ~ CannotSend(k, given)
  /\ Cardinality(objects) < MaxObjects
  /\ objects' = objects \cup {[klass |-> k, slots |->
       [n \in DOMAIN values \cup given |-> IF n \in given THEN NULL ELSE values[n]]]}
  /\ UNCHANGED <<definition, constants, cached, changed>>

\* == goes through struct_fields, which is defined last and reads FIELDS.
EqualRaises(k) ==
  LET h == Holder(k, FIELDS) IN
  ~ IsUnion(k) /\ ("struct_fields" \notin methods[h] \/ CannotSend(k, DOMAIN FIELDS[h]))

\* The program changes the value of a field in place, at its top or in an element.
Mutate(o, n, depth) ==
  /\ o \in objects /\ n \in DOMAIN o.slots
  /\ LET d == o.slots[n] IN
     changed' = IF d = NULL \/ (depth = 1 /\ d \in frozen) THEN changed
                ELSE changed \cup {<<d, depth>>}
  /\ UNCHANGED <<definition, constants, cached, objects>>

Drop(o) ==
  /\ o \in objects
  /\ objects' = objects \ {o}
  /\ UNCHANGED <<definition, constants, cached, changed>>

-----------------------------------------------------------------------------
(* Garbage collection                                                       *)

Roots == {bound[c] : c \in Constants} \cup {o.klass : o \in objects}
           \cup {k \in Live : pc[k] # "ready"}
Refers(k, j) ==
  super[k] = j \/ (FIELDS[k] # NULL /\ \E n \in DOMAIN FIELDS[k] : FIELDS[k][n].klass = j)

\* Classes go that nothing living refers to.  What the extension knows of them is
\* neither a reference nor removed.
Collect(garbage) ==
  /\ garbage # {} /\ garbage \subseteq Live \ Roots
  /\ \A k \in Live \ garbage : \A j \in garbage : ~ Refers(k, j)
  /\ life' = [k \in Klass |-> IF k \in garbage THEN "dead" ELSE life[k]]
  /\ UNCHANGED <<bound, addr, super, body, pc, loads, constants, cached, heap>>

-----------------------------------------------------------------------------
Init ==
  /\ bound = [c \in Constants |-> NULL]
  /\ life = [k \in Klass |-> "unborn"]
  /\ addr = [k \in Klass |-> NULL]
  /\ super = [k \in Klass |-> NULL]
  /\ body = [k \in Klass |-> NULL]
  /\ pc = [k \in Klass |-> "ready"]
  /\ FIELDS = [k \in Klass |-> NULL]
  /\ FIELD_SYMS = [k \in Klass |-> NULL]
  /\ DEFAULT_VALUES = [k \in Klass |-> NULL]
  /\ methods = [k \in Klass |-> {}]
  /\ klassCache = [a \in Address |-> NULL]
  /\ unions = {}
  /\ objects = {} /\ frozen = {} /\ changed = {} /\ loads = [k \in Klass |-> 0] /\ stale = {}

Load == \E c \in Constants : \E v \in Versions[c] : CreateClass(c, v) \/ ReopenClass(c, v)
Program ==
  \/ \E k \in Klass : Use(k)
  \/ \E k \in Klass, given \in SUBSET Names : Cardinality(given) <= 1 /\ New(k, given)
  \/ \E o \in objects : Drop(o) \/ \E n \in Names, depth \in 1..2 : Mutate(o, n, depth)
  \/ \E c \in Constants : RemoveConst(c)

Next ==
  \/ Load
  \/ \E k \in Klass : Define(k)
  \/ Program
  \/ \E garbage \in SUBSET Klass : Collect(garbage)

Spec == Init /\ [][Next]_vars

-----------------------------------------------------------------------------
\* No other class lived at the address of k before.
FirstAt(k) == \A j \in Klass : life[j] = "dead" => addr[j] # addr[k]

\* While a class keeps the FIELDS it was cached with and came to an address that was
\* never used, its entry says what its FIELDS say, and every class the entry points
\* to is alive, although the entry keeps none of them from being collected
\* (ext/serializer.cpp:49, "consider the memory leaked").
EntriesAreTheirs ==
  \A k \in Live \ stale :
    FirstAt(k) /\ klassCache[addr[k]] # NULL =>
      /\ FIELDS[k] # NULL /\ klassCache[addr[k]] = FieldInfoMap(k)
      /\ \A n \in DOMAIN FIELDS[k] : FIELDS[k][n].klass # NULL =>
           /\ FIELDS[k][n].klass \in Live
           /\ \A j \in Live : addr[j] = klassCache[addr[k]][n] => j = FIELDS[k][n].klass

\* readAny asks unions about a field's class before it is looked up itself
\* (ext/serializer.cpp:283-287): it must know each union that a cached class refers
\* to, and nothing else, whatever was used without FIELDS before.
UnionsAreKnown ==
  \A k \in Live \ stale :
    FirstAt(k) /\ klassCache[addr[k]] # NULL =>
      FIELDS[k] # NULL /\ \A n \in DOMAIN FIELDS[k] :
        LET j == FIELDS[k][n].klass IN
        j # NULL /\ FirstAt(j) => (klassCache[addr[k]][n] \in unions <=> IsUnion(j))

\* Whatever other threads do while classes are defined and defined again: an object
\* can be made and compared unless its class, or the one it inherits from, is being
\* (re)defined, and written and read unless its class has no FIELDS of its own.
OnlyDefinitionsRaise ==
  \A k \in Live :
    /\ NewRaises(k) \/ EqualRaises(k) =>
         pc[k] # "ready" \/ (super[k] \in Klass /\ pc[super[k]] # "ready")
    /\ UseRaises(k) => pc[k] = "FIELDS" \/ super[k] \in Klass

\* All objects of a class have the same defaults.  Through none of them, nor between
\* the steps of a definition, can one be changed but in an element of it
\* (base_type.rb:38 freezes it, not its elements).
DefaultsKeepTheirTop == \A c \in changed : c[2] # 1
=============================================================================
