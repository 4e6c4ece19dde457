------------------------- MODULE CompilerProperties -------------------------
(****************************************************************************)
(* What a careful reader of a thrift file expects of it, by the names and    *)
(* numbers that are written in it, and what the compiler promises for that.  *)
(****************************************************************************)
EXTENDS Compiler

TypesNamed(name) == {i \in DOMAIN doc : doc[i].k \in TypeKinds /\ doc[i].name = name}
Declared(name) == TypesNamed(name) # {}
PlaceOf(name) == CHOOSE i \in TypesNamed(name) : TRUE
ConstsBefore(name, p) ==
  {i \in DOMAIN doc : i < p /\ doc[i].k = "const" /\ doc[i].name = name}

\* What a type is when its typedefs are followed, wherever they are.
RECURSIVE Followed(_, _)
Followed(e, seen) ==
  IF e.k # "name" THEN e
  ELSE IF e.of \in seen \/ ~Declared(e.of) THEN [k |-> "none"]
  ELSE LET def == doc[PlaceOf(e.of)]
       IN CASE def.k = "typedef" -> Followed(def.type, seen \cup {e.of})
            [] def.k = "senum" -> [k |-> "base", of |-> "string"]
            [] OTHER -> [k |-> def.k, of |-> e.of]
Meant(e) == Followed(e, {})

RECURSIVE MeantThroughout(_)
MeantThroughout(e) ==
  LET t == Meant(e)
  IN CASE t.k = "none" -> FALSE
       [] t.k \in {"list", "set"} -> MeantThroughout(t.of)
       [] t.k = "map" -> MeantThroughout(t.key) /\ MeantThroughout(t.val)
       [] OTHER -> TRUE

RECURSIVE MeantData(_)
MeantData(e) ==
  LET t == Meant(e)
  IN CASE t.k = "base" -> <<"base", t.of>>
       [] t.k = "enum" -> <<"enum_class", Capital[t.of]>>
       [] t.k \in ObjectKinds -> <<"class", Capital[t.of]>>
       [] t.k \in {"list", "set"} -> <<t.k, MeantData(t.of)>>
       [] t.k = "map" -> <<t.k, MeantData(t.key), MeantData(t.val)>>

RECURSIVE WrittenValue(_, _)
WrittenValue(values, i) ==
  IF values[i].value # NULL THEN values[i].value
  ELSE IF i = 1 THEN 0 ELSE WrittenValue(values, i - 1) + 1

EnumeratorsBefore(enum, name, p) ==
  {<<i, j>> \in (1..(p - 1)) \X (1..Len(doc)) :
     /\ doc[i].k = "enum" /\ doc[i].name = enum
     /\ j \in DOMAIN doc[i].values /\ doc[i].values[j].name = name}

\* The literal a value stands for, written at definition p.
RECURSIVE Literal(_, _)
Literal(c, p) ==
  IF c.cv # "identifier" THEN c
  ELSE IF c.v[1] = NULL
    THEN LET s == ConstsBefore(c.v[2], p) IN
         IF s = {} THEN c ELSE LET i == CHOOSE i \in s : TRUE IN Literal(doc[i].value, i)
    ELSE LET s == EnumeratorsBefore(c.v[1], c.v[2], p) IN
         IF s = {} THEN c
         ELSE LET ij == CHOOSE ij \in s : TRUE IN Int64(WrittenValue(doc[ij[1]].values, ij[2]))

\* Literals that reach Ruby as they are: doubles of at most six digits, strings
\* without a newline, a return or a tab.
RECURSIVE IsPlain(_, _)
IsPlain(c, p) ==
  LET x == Literal(c, p)
  IN CASE x.cv = "double" -> x.v < Digits
       [] x.cv = "string" -> x.v \notin DOMAIN Escaped
       [] x.cv = "list" -> \A i \in DOMAIN x.v : IsPlain(x.v[i], p)
       [] x.cv = "map" -> \A i \in DOMAIN x.v : IsPlain(x.v[i][1], p) /\ IsPlain(x.v[i][2], p)
       [] OTHER -> TRUE

FieldsNamed(type, key) ==
  {i \in DOMAIN doc[PlaceOf(type.of)].fields : doc[PlaceOf(type.of)].fields[i].name = key.v}
WrittenField(type, key) ==
  doc[PlaceOf(type.of)].fields[CHOOSE i \in FieldsNamed(type, key) : TRUE].type

\* The Ruby value that is meant by c as a value of type e; 4.0 and 4 are equal.
RECURSIVE MeantValue(_, _, _)
MeantValue(c, e, p) ==
  LET t == Meant(e)
      x == Literal(c, p)
  IN CASE t.k = "base" /\ t.of = "bool" -> <<"bool", x.v > 0>>
       [] t.k = "base" /\ t.of # "bool" ->
            IF x.cv = "double" /\ x.v % 10 = 0 THEN <<"int", x.v \div 10>> ELSE <<x.cv, x.v>>
       [] t.k = "enum" -> <<"int", x.v>>
       [] t.k \in ObjectKinds ->
            <<"new", t.of, {<<<<"string", x.v[i][1].v>>,
                              MeantValue(x.v[i][2], WrittenField(t, x.v[i][1]), p)>> :
                            i \in DOMAIN x.v}>>
       [] t.k = "map" ->
            <<"hash", {<<MeantValue(x.v[i][1], t.key, p), MeantValue(x.v[i][2], t.val, p)>> :
                       i \in DOMAIN x.v}>>
       [] t.k = "list" -> <<"list", [i \in DOMAIN x.v |-> MeantValue(x.v[i], t.of, p)]>>
       [] t.k = "set" -> <<"set", {MeantValue(x.v[i], t.of, p) : i \in DOMAIN x.v}>>

\* c has the form that type e asks for.
RECURSIVE Fits(_, _, _)
Fits(c, e, p) ==
  LET t == Meant(e)
      x == Literal(c, p)
  IN CASE t.k = "base" ->
            x.cv \in IF t.of \in Integral THEN {"int"}
                     ELSE IF t.of = "double" THEN {"int", "double"} ELSE {"string"}
       [] t.k = "enum" ->
            LET values == doc[PlaceOf(t.of)].values
            IN x.cv = "int" /\ \E i \in DOMAIN values : x.v = WrittenValue(values, i)
       [] t.k \in ObjectKinds ->
            x.cv = "map" /\ \A i \in DOMAIN x.v :
              /\ x.v[i][1].cv = "string" /\ FieldsNamed(t, x.v[i][1]) # {}
              /\ Fits(x.v[i][2], WrittenField(t, x.v[i][1]), p)
       [] t.k = "map" ->
            x.cv = "map" /\ \A i \in DOMAIN x.v :
              Fits(x.v[i][1], t.key, p) /\ Fits(x.v[i][2], t.val, p)
       [] t.k \in {"list", "set"} -> x.cv = "list" /\ \A i \in DOMAIN x.v : Fits(x.v[i], t.of, p)
       [] OTHER -> FALSE

-----------------------------------------------------------------------------
(****************************************************************************)
(* Where the compiler is no help, and a careful author looks twice: types    *)
(* whose definition is behind a typedef, follows later or is an exception,   *)
(* where names are not resolved and values not checked; the values of        *)
(* another enum; names of constants that are containers, objects or enums, or *)
(* doubles that were given as integers.                                      *)
(****************************************************************************)
SeenKind(e, p) ==
  IF e.k # "name" THEN e.k
  ELSE LET s == {i \in TypesNamed(e.of) : i < p}
       IN IF s = {} THEN "typedef" ELSE doc[CHOOSE i \in s : TRUE].k

RECURSIVE NamesNothing(_)
NamesNothing(c) ==
  CASE c.cv = "identifier" -> FALSE
    [] c.cv = "list" -> \A i \in DOMAIN c.v : NamesNothing(c.v[i])
    [] c.cv = "map" -> \A i \in DOMAIN c.v : NamesNothing(c.v[i][1]) /\ NamesNothing(c.v[i][2])
    [] OTHER -> TRUE

RECURSIVE IsCareful(_, _, _, _)
CopiesScalar(c, p) ==
  IF c.v[1] # NULL THEN EnumeratorsBefore(c.v[1], c.v[2], p) # {}
  ELSE \E i \in ConstsBefore(c.v[2], p) :
         /\ Meant(doc[i].type).k = "base"
         /\ Meant(doc[i].type).of = "double" => Literal(c, p).cv = "double"
         /\ IsCareful(doc[i].value, doc[i].type, i, i)

\* c, at definition p, for a type e that was read at definition j.
IsCareful(c, e, j, p) ==
  LET kind == SeenKind(e, j)
      t == Meant(e)
  IN CASE kind = "base" -> c.cv = "identifier" => CopiesScalar(c, p)
       [] kind = "enum" -> c.cv = "int" \/ (c.cv = "identifier" /\ c.v[1] = e.of)
       [] kind \in {"struct", "union"} ->
            c.cv = "map" /\ \A i \in DOMAIN c.v :
              /\ c.v[i][1].cv = "string" /\ FieldsNamed(t, c.v[i][1]) # {}
              /\ IsCareful(c.v[i][2], WrittenField(t, c.v[i][1]), PlaceOf(t.of), p)
       [] kind = "map" ->
            c.cv = "map" /\ \A i \in DOMAIN c.v :
              IsCareful(c.v[i][1], e.key, j, p) /\ IsCareful(c.v[i][2], e.val, j, p)
       [] kind \in {"list", "set"} ->
            c.cv = "list" /\ \A i \in DOMAIN c.v : IsCareful(c.v[i], e.of, j, p)
       [] kind = "exception" ->
            /\ Fits(c, e, p) /\ NamesNothing(c)
            /\ \A i \in DOMAIN c.v : Meant(WrittenField(t, c.v[i][1])).k = "base"
       [] OTHER ->
            /\ Fits(c, e, p)
            /\ \/ NamesNothing(c)
               \/ c.cv = "identifier" /\ t.k \in {"base", "enum"} /\ CopiesScalar(c, p)

\* The lists of fields in definition i, those of attributes included.
RECURSIVE ListsWithin(_)
ListsWithin(fields) ==
  {fields} \cup UNION {ListsWithin(f.attrs) : f \in {g \in ToSet(fields) : g.attrs # NULL}}
FieldListsOf(i) == UNION {ListsWithin(list.fields) : list \in ToSet(ListsOf(doc[i]))}
AllFields == UNION {UNION {ToSet(fields) : fields \in FieldListsOf(i)} : i \in DOMAIN doc}

\* The constants and defaults, <<value, type, definition>>.
ConstValues ==
  {<<doc[i].value, doc[i].type, i>> : i \in {j \in DOMAIN doc : doc[j].k = "const"}}
DefaultValues ==
  UNION {{<<f.value, f.type, i>> :
            f \in {g \in UNION {ToSet(fields) : fields \in FieldListsOf(i)} : g.value # NULL}} :
         i \in DOMAIN doc}
AllCareful == \A v \in ConstValues \cup DefaultValues : IsCareful(v[1], v[2], v[3], v[3])
AllFit == \A v \in ConstValues \cup DefaultValues : Fits(v[1], v[2], v[3])

-----------------------------------------------------------------------------
(****************************************************************************)
(* What a document may not say.                                              *)
(****************************************************************************)
Twice(s, Same(_, _)) == \E i, j \in DOMAIN s : i < j /\ Same(s[i], s[j])

\* Given ids are the same in 32 bits.  Ids that are not given are counted down
\* from -1: they can meet a nonpositive one, or start again after attributes.
IdsMayMeet(fields) ==
  \/ Twice(fields, LAMBDA f, g : IsExplicit(f) /\ IsExplicit(g) /\ Cast(f.id) = Cast(g.id))
  \/ /\ \E f \in ToSet(fields) : ~IsExplicit(f)
     /\ \E f \in ToSet(fields) : f.attrs # NULL \/ (IsExplicit(f) /\ Cast(f.id) <= 0)
NameTwice(fields) == Twice(fields, LAMBDA f, g : f.name = g.name)

SameNameTwice ==
  \/ Twice(doc, LAMBDA x, y : /\ {x.k, y.k} \subseteq TypeKinds \cup {"service"}
                              /\ x.name = y.name)
  \/ Twice(doc, LAMBDA x, y : x.k = "const" /\ y.k = "const" /\ x.name = y.name)

BadEnum(def) ==
  /\ def.k = "enum"
  /\ \/ Twice(def.values, LAMBDA x, y : x.name = y.name)
     \/ \E i \in DOMAIN def.values : ~FitsInt32(WrittenValue(def.values, i))

BadUnion(def) ==
  def.k = "union" /\ Twice(def.fields, LAMBDA f, g : f.value # NULL /\ g.value # NULL)

\* An exception may be behind a typedef, but must precede the service.
BadService(i) ==
  /\ doc[i].k = "service"
  /\ \/ doc[i].extends # NULL
        /\ ~\E j \in 1..(i - 1) : doc[j].k = "service" /\ doc[j].name = doc[i].extends
     \/ Twice(doc[i].functions, LAMBDA f, g : f.name = g.name)
     \/ \E f \in ToSet(doc[i].functions) :
          \/ f.oneway /\ f.throws # <<>>
          \/ \E x \in ToSet(f.throws) : Meant(x.type).k # "exception"

Wrong ==
  \/ SameNameTwice
  \/ \E i \in DOMAIN doc : BadEnum(doc[i]) \/ BadUnion(doc[i]) \/ BadService(i)
  \/ \E i \in DOMAIN doc : \E fields \in FieldListsOf(i) : NameTwice(fields)
  \/ \E i \in DOMAIN doc : \E fields \in FieldListsOf(i) :
       Twice(fields, LAMBDA f, g : IsExplicit(f) /\ IsExplicit(g) /\ Cast(f.id) = Cast(g.id))
  \/ g_strict /\ \E f \in AllFields : ~IsExplicit(f)

\* The types that are generated.
ObjectFields == UNION {ToSet(doc[i].fields) : i \in {j \in DOMAIN doc : doc[j].k \in ObjectKinds}}
UnknownType ==
  \/ \E f \in ObjectFields : ~MeantThroughout(f.type)
  \/ \E v \in ConstValues : ~MeantThroughout(v[2])

Accepted == status \in {"generate", "load", "load error", "loaded", "error printed"}

\* Nothing but a mistake in the file makes the compiler give up, whatever the
\* order of the definitions and however ids are given: something said twice, a
\* value or a service that is wrong, a type that does not exist, an id that may
\* be met twice, a value where the compiler is no help.
FailureHasCause ==
  status = "failure" =>
    \/ Wrong \/ UnknownType \/ ~AllCareful \/ ~AllFit
    \/ \E i \in DOMAIN doc : \E fields \in FieldListsOf(i) : IdsMayMeet(fields)

\* What it accepts says nothing twice, and has none of the errors it looks for.
AcceptedIsSound == Accepted => ~Wrong

\* A chain of typedefs that does not end is the only thing the compiler does
\* not come back from (parse.cc:27), and uninitialized memory is only read
\* for values that are not careful.
OnlyCyclesLoop ==
  /\ status = "loops" => \E name \in {doc[i].name : i \in DOMAIN doc} :
       /\ Declared(name) /\ doc[PlaceOf(name)].k = "typedef"
       /\ Meant([k |-> "name", of |-> name]).k = "none"
  /\ status \in {"crash", "error printed"} => ~AllCareful

-----------------------------------------------------------------------------
(****************************************************************************)
(* What is generated and loaded.                                             *)
(****************************************************************************)
RubyNameTwice ==
  Twice(doc, LAMBDA x, y : /\ {x.k, y.k} \subseteq ObjectKinds \cup {"enum"}
                           /\ Capital[x.name] = Capital[y.name])

\* A constant or a default that is careful and plain is the Ruby value that is
\* meant, through names of constants, of enumerators and of types (t_scope.h:71,
\* t_ruby_generator.cc:305).
RenderedAsMeant ==
  \A m \in DOMAIN files :
    LET i == Generated[m]
        item == files[m]
        IsMeant(c, e, r) ==
          IsCareful(c, e, i, i) /\ IsPlain(c, i) => r = MeantValue(c, e, i)
    IN CASE item.k = "enum" -> TRUE
         [] item.k = "const" -> IsMeant(doc[i].value, doc[i].type, item.value)
         [] OTHER -> \A j \in DOMAIN item.fields :
              LET f == doc[i].fields[j]
              IN f.value # NULL => IsMeant(f.value, f.type, item.fields[j].default)

\* The id of field j, if its list has no attributes and no nonpositive id.
WrittenId(fields, j) ==
  IF IsExplicit(fields[j]) THEN fields[j].id
  ELSE -Cardinality({m \in 1..j : ~IsExplicit(fields[m])})
WrittenOptional(kind, f) ==
  f.req = "T_OPTIONAL" \/ (kind = "union" /\ f.req = "T_REQUIRED")

\* What the extension knows of a class is what its definition says: each field
\* under its id, with its name, its requiredness and the type that is meant by
\* names read before or after, unless an id does not fit 16 bits
\* (serializer.cpp:763) or the class was opened twice.
CachedAsWritten ==
  \A i \in {j \in DOMAIN doc : doc[j].k \in ObjectKinds} :
    LET fields == doc[i].fields
        name == Capital[doc[i].name]
    IN /\ status = "loaded" /\ ~RubyNameTwice
       /\ \A j \in DOMAIN fields :
            Cast16(WrittenId(fields, j)) = WrittenId(fields, j) /\ fields[j].attrs = NULL
       /\ \/ \A j \in DOMAIN fields : IsExplicit(fields[j])
          \/ \A j \in DOMAIN fields : IsExplicit(fields[j]) => fields[j].id > 0
       => ruby[name].cache =
            [id \in {WrittenId(fields, j) : j \in DOMAIN fields} |->
               LET j == CHOOSE j \in DOMAIN fields : WrittenId(fields, j) = id
               IN [name |-> fields[j].name, data |-> MeantData(fields[j].type),
                   optional |-> WrittenOptional(doc[i].k, fields[j])]]

\* An enum's constants, its map from values to names and its set of values
\* agree (a conversion from either side is then the inverse of the other),
\* unless two of its names are one in Ruby.
EnumModulesAgree ==
  \A i \in {j \in DOMAIN doc : doc[j].k = "enum"} :
    LET values == doc[i].values
        module == ruby[Capital[doc[i].name]]
    IN status = "loaded" /\ ~RubyNameTwice
       /\ ~Twice(values, LAMBDA x, y : Capital[x.name] = Capital[y.name])
       => /\ \A j \in DOMAIN values :
               module.constants[Capital[values[j].name]] = WrittenValue(values, j)
          /\ DOMAIN module.value_map = module.valid_values
          /\ \A v \in module.valid_values : module.constants[module.value_map[v]] = v

\* The file can be loaded if no class needs a later one, nor a default an object
\* of its own class, no two definitions are one name in Ruby, and no union is
\* made of two fields: enums come first, objects in their order.
RECURSIVE ClassesIn(_)
ClassesIn(data) ==
  CASE data[1] = "class" -> {data[2]}
    [] data[1] \in {"list", "set"} -> ClassesIn(data[2])
    [] data[1] = "map" -> ClassesIn(data[2]) \cup ClassesIn(data[3])
    [] OTHER -> {}
RECURSIVE MakesUnionOfTwo(_)
MakesUnionOfTwo(c) ==
  CASE c.cv = "map" -> Len(c.v) > 1 \/ \E i \in DOMAIN c.v : MakesUnionOfTwo(c.v[i][2])
    [] c.cv = "list" -> \E i \in DOMAIN c.v : MakesUnionOfTwo(c.v[i])
    [] OTHER -> FALSE
NeedsLaterClass(i) ==
  \E f \in ToSet(doc[i].fields) :
    LET classes == ClassesIn(MeantData(f.type))
        Place(class) == CHOOSE j \in DOMAIN doc :
                          doc[j].k \in ObjectKinds /\ Capital[doc[j].name] = class
    IN \E class \in classes : Place(class) > i \/ (Place(class) = i /\ f.value # NULL)
LoadErrorHasCause ==
  status = "load error" =>
    \/ RubyNameTwice
    \/ \E i \in DOMAIN doc : doc[i].k \in ObjectKinds /\ NeedsLaterClass(i)
    \/ \E v \in ConstValues \cup DefaultValues :
         MakesUnionOfTwo(v[1]) /\ \E i \in DOMAIN doc : doc[i].k = "union"

\* The parser's lists behave as FieldLists says, whatever the rest of the
\* compiler does in between; what is proved of those lists holds here.
ReadsListsAsSpecified == ListSpec

\* "unions can't have required fields" (t_struct.h:69): nothing a union's
\* member lacks is required of it by the extension, which treats every field
\* that is not optional as required (serializer.cpp:595).
UnionsRequireNothing ==
  \A name \in DOMAIN ruby :
    ruby[name].super = "::Sparsam::Union" =>
      \A id \in DOMAIN ruby[name].cache : ruby[name].cache[id].optional

\* The Ruby class of a value is the one the writer asks for in a field of that
\* type, all the way down (serializer.cpp:501-586).
RECURSIVE CanBeWritten(_, _)
CanBeWritten(r, data) ==
  CASE data[1] = "base" ->
         r[1] = IF data[2] \in Integral \ {"bool"} THEN "int" ELSE data[2]
    [] data[1] = "enum_class" -> r[1] = "int"
    [] data[1] = "class" ->
         /\ r[1] = "new" /\ Capital[r[2]] = data[2]
         /\ \A pair \in r[3] :
              \E f \in ToSet(ruby[data[2]].fields) :
                f.name = pair[1][2] /\ CanBeWritten(pair[2], f.data)
    [] data[1] = "list" -> r[1] = "list" /\ \A x \in ToSet(r[2]) : CanBeWritten(x, data[2])
    [] data[1] = "set" -> r[1] = "set" /\ \A x \in r[2] : CanBeWritten(x, data[2])
    [] data[1] = "map" ->
         r[1] = "hash" /\ \A pair \in r[2] :
           CanBeWritten(pair[1], data[2]) /\ CanBeWritten(pair[2], data[3])

\* "type checking is NOT performed in this function as it is always run
\* beforehand" (t_ruby_generator.cc:301-303): a default that is careful and fits
\* its type is a value that objects which have it can be serialized with.
DefaultsCanBeWritten ==
  status = "loaded" /\ ~RubyNameTwice =>
    \A i \in {j \in DOMAIN doc : doc[j].k \in ObjectKinds} :
      \A f \in ToSet(ruby[Capital[doc[i].name]].fields) :
        LET g == CHOOSE g \in ToSet(doc[i].fields) : g.name = f.name
        IN g.value # NULL /\ IsCareful(g.value, g.type, i, i) => CanBeWritten(f.default, f.data)
=============================================================================
