------------------------------ MODULE Compiler ------------------------------
(****************************************************************************)
(* One thrift file from its text to the Ruby classes it becomes: the PROGRAM *)
(* pass of the parser (compiler/src/thrifty.yy) over a document, definition  *)
(* by definition and field by field; generate_program with the Ruby          *)
(* generator; and the loading of the generated file, with what the extension *)
(* caches of every class (ext/serializer.cpp).                               *)
(*                                                                          *)
(* A document is a sequence of definitions, records whose k is "typedef",    *)
(* "enum", "senum", "const", "struct", "union", "exception" or "service".    *)
(****************************************************************************)
EXTENDS Scope

CONSTANTS
  Documents,   \* the files that may be compiled
  Junks,       \* what uninitialized memory may hold
  Int16,       \* how many values an int16_t has, 2^16
  Capital      \* name |-> the name with its first letter in upper case

VARIABLES
  doc,        \* the file
  d, n,       \* the definition being read, and how many of its lists have been
  todo,       \* the declarations that follow in each of lists
  defaults,   \* <<definition, field name>> |-> its default, resolved
  files,      \* what has been generated: enums, then objects, then constants
  ruby,       \* name |-> the module or class that has been loaded
  loaded      \* how many items of files have been

vars == <<listVars, scopeVars, doc, d, n, todo, defaults, files, ruby, loaded>>
position == <<d, n, todo>>
output == <<files, ruby, loaded>>
parser == <<listVars, scopeVars, position, defaults>>

Init ==
  /\ ListInit /\ ScopeInit
  /\ junk \in Junks
  /\ doc \in Documents
  /\ d = 1 /\ n = 0 /\ todo = <<>>
  /\ defaults = [id \in {} |-> NULL]
  /\ files = <<>> /\ loaded = 0
  /\ ruby = [name \in {} |-> NULL]

Def == doc[d]
ObjectKinds == {"struct", "union", "exception"}
TypeKinds == ObjectKinds \cup {"typedef", "enum", "senum"}

\* The field lists of a definition; ends is the function a list is the last of.
ListsOf(def) ==
  IF def.k = "service"
  THEN FlattenSeq([i \in DOMAIN def.functions |->
         LET f == def.functions[i]
         IN IF f.throws = <<>> THEN <<[kind |-> "args", fields |-> f.args, ends |-> f]>>
            ELSE <<[kind |-> "args", fields |-> f.args, ends |-> NULL],
                   [kind |-> "throws", fields |-> f.throws, ends |-> f]>>])
  ELSE IF def.k \in ObjectKinds
    THEN <<[kind |-> def.k, fields |-> def.fields, ends |-> NULL]>>
    ELSE <<>>
Lists == ListsOf(Def)

\* yyerror and exit(1), or failure() for a string that was thrown.
OnThrow(how) == IF how \in {"throw", "exit"} THEN "failure" ELSE how

Ends(outcome) ==
  /\ EndParse(outcome)
  /\ UNCHANGED <<scopeVars, doc, position, defaults, output>>

-----------------------------------------------------------------------------
(****************************************************************************)
(* FieldList and Field.                                                      *)
(****************************************************************************)
Reading == status = "parse" /\ d <= Len(doc)
InField == Reading /\ lists # <<>> /\ Pending # NULL
HasMore == todo[1] # <<>>

OpenFieldList ==
  /\ Reading /\ lists = <<>> /\ n < Len(Lists)
  /\ Def.k = "service" => g_arglist
  /\ OpenList
  /\ todo' = <<Lists[n + 1].fields>>
  /\ UNCHANGED <<scopeVars, doc, d, n, defaults, output>>

ParseField ==
  /\ Reading /\ lists # <<>> /\ Pending = NULL /\ HasMore
  /\ ReadIdentifier(Head(todo[1]))
  /\ todo' = <<Tail(todo[1])>> \o Tail(todo)
  /\ UNCHANGED <<scopeVars, doc, d, n, defaults, output>>

\* XsdAttributes
AwaitsAttributes == Pending.decl.attrs # NULL /\ ~Pending.attrs

OpenAttributes ==
  /\ InField /\ AwaitsAttributes
  /\ OpenList
  /\ todo' = <<Pending.decl.attrs>> \o todo
  /\ UNCHANGED <<scopeVars, doc, d, n, defaults, output>>

\* Mutant: the field the attributes belong to is lost.
CloseAttributesAndField ==
  /\ Reading /\ Len(lists) > 1 /\ Pending = NULL /\ ~HasMore
  /\ lists' = <<[lists[2] EXCEPT !.pending = NULL]>> \o Tail(Tail(lists))
  /\ todo' = Tail(todo)
  /\ UNCHANGED <<options, g_arglist, y_field_val, structs, status>>
  /\ UNCHANGED <<scopeVars, doc, d, n, defaults, output>>

CloseAttributes ==
  /\ Reading /\ Len(lists) > 1 /\ Pending = NULL /\ ~HasMore
  /\ CloseList
  /\ todo' = Tail(todo)
  /\ UNCHANGED <<scopeVars, doc, d, n, defaults, output>>

\* The default is resolved and validated once the field has been read.
HasDefault == Pending.decl.value # NULL
Default == Checked(Pending.decl.value, FieldType(Pending.decl.type))
DefaultFails == HasDefault /\ IsBroken(Default)

FinishField ==
  /\ InField /\ ~AwaitsAttributes /\ ~DefaultFails
  /\ AppendField
  /\ defaults' = IF HasDefault /\ Len(lists) = 1 /\ Def.k \in ObjectKinds
                 THEN defaults @@ (<<d, Pending.decl.name>> :> Default)
                 ELSE defaults
  /\ UNCHANGED <<scopeVars, doc, position, output>>

\* "Implicit field keys are deprecated and not allowed with -strict", "type
\* error", "field identifier/name has already been used"
RefuseField ==
  /\ InField /\ ~AwaitsAttributes
  /\ \/ IsDeprecated(Pending) /\ Ends("failure")
     \/ ~IsDeprecated(Pending) /\ DefaultFails /\ Ends(OnThrow(Default.v))
     \/ ~IsDeprecated(Pending) /\ ~DefaultFails /\ Clashes(Top, Pending) /\ Ends("failure")

-----------------------------------------------------------------------------
(****************************************************************************)
(* The end of a list of fields.                                              *)
(****************************************************************************)
Current == Lists[n + 1]
AtEndOfList == Reading /\ Len(lists) = 1 /\ Pending = NULL /\ ~HasMore

\* validate_throws: the first member that is no exception, or has no true type.
ThrownKinds ==
  [i \in DOMAIN Top.members |-> TrueType(FieldType(Top.members[i].decl.type))]
NotThrowable == SelectSeq(ThrownKinds, LAMBDA type : Kind(type) # "exception")
ThrowsFails == Current.kind = "throws" /\ NotThrowable # <<>>
ThrowsOutcome ==
  LET type == NotThrowable[1]
  IN IF Kind(type) = "stuck" THEN OnThrow(type.of) ELSE "failure"

\* The constructor of t_function, and t_service::add_function.
FunctionFails ==
  LET f == Current.ends IN
  /\ f # NULL
  /\ \/ f.oneway /\ f.throws # <<>>
     \/ \E i \in 1..n : Lists[i].ends # NULL /\ Lists[i].ends.name = f.name

\* "provides another default value for union"
UnionFails == Current.kind = "union" /\ Cardinality(MembersWithValue(Top)) > 1

CloseFieldList ==
  /\ AtEndOfList /\ ~ThrowsFails /\ ~FunctionFails /\ ~UnionFails
  /\ CloseStruct(Current.kind)
  /\ n' = n + 1 /\ todo' = <<>>
  /\ UNCHANGED <<scopeVars, doc, d, defaults, output>>

RefuseList ==
  /\ AtEndOfList
  /\ \/ ThrowsFails /\ Ends(ThrowsOutcome)
     \/ ~ThrowsFails /\ (FunctionFails \/ UnionFails) /\ Ends("failure")

-----------------------------------------------------------------------------
(****************************************************************************)
(* The definitions.                                                          *)
(****************************************************************************)
AtDefinition(kinds) == Reading /\ lists = <<>> /\ n = Len(Lists) /\ Def.k \in kinds
NextDefinition == d' = d + 1 /\ n' = 0

\* Mutant: services have names of their own.
IsUniqueAmongTypes(name) ==
  name \notin {doc[i].name : i \in {j \in 1..(d - 1) : doc[j].k \in TypeKinds}}

\* t_program::is_unique_typename, of the types and services of this file.
IsUniqueTypename(name) ==
  name \notin services_ \cup {doc[i].name : i \in {j \in 1..(d - 1) : doc[j].k \in TypeKinds}}

\* Mutant: a value that is given does not set y_enum_val.
EnumValueByPlace(values, i) ==
  IF values[i].value # NULL THEN values[i].value ELSE i - 1

\* A t_enum_value is one more than the last, unless it is given.
EnumValue(values, i) ==
  LET given == {j \in 1..i : values[j].value # NULL}
      last == CHOOSE j \in given : \A k \in given : k <= j
  IN IF given = {} THEN i - 1 ELSE values[last].value + (i - last)

EnumValues(values) ==
  [i \in DOMAIN values |-> [name |-> values[i].name, value |-> EnumValue(values, i)]]
FitsInt32(v) == v \in (-(Int32 \div 2))..(Int32 \div 2 - 1)

\* The type a definition adds to the scope.
Definition(def) ==
  CASE def.k = "typedef" -> [k |-> "typedef", type |-> FieldType(def.type)]
    [] def.k = "senum" -> [k |-> "typedef", type |-> [k |-> "base", of |-> "string"]]
    [] def.k = "enum" -> [k |-> "enum", values |-> EnumValues(def.values)]
    [] OTHER -> [k |-> def.k, fields |->
         [i \in DOMAIN def.fields |-> [name |-> def.fields[i].name,
                                       type |-> FieldType(def.fields[i].type)]]]

\* Each value of an enum is a constant, named after the enum.
EnumConstants(def) ==
  LET values == IF def.k = "enum" THEN EnumValues(def.values) ELSE <<>>
  IN [i \in DOMAIN values |->
        [id |-> <<def.name, values[i].name>>, type |-> [k |-> "base", of |-> "i32"],
         value |-> Int64(values[i].value)]]
WithConstants(added) ==
  [id \in DOMAIN constants_ \cup {added[i].id : i \in DOMAIN added} |->
     IF id \in DOMAIN constants_ THEN constants_[id]
     ELSE LET c == SelectSeq(added, LAMBDA a : a.id = id)[1]
          IN [type |-> c.type, value |-> c.value]]

EnumFails(def) ==
  /\ def.k = "enum"
  /\ \/ \E i \in DOMAIN def.values : ~FitsInt32(EnumValue(def.values, i))
     \/ \E i \in DOMAIN def.values :
          \/ <<def.name, def.values[i].name>> \in DOMAIN constants_
          \/ \E j \in 1..(i - 1) : def.values[i].name = def.values[j].name

DefineType ==
  /\ AtDefinition(TypeKinds) /\ ~EnumFails(Def) /\ IsUniqueTypename(Def.name)
  /\ types_' = (Def.name :> Definition(Def)) @@ types_
  /\ constants_' = WithConstants(EnumConstants(Def))
  /\ NextDefinition
  /\ UNCHANGED <<listVars, services_, junk, doc, todo, defaults, output>>

RefuseType ==
  /\ AtDefinition(TypeKinds)
  /\ EnumFails(Def) \/ ~IsUniqueTypename(Def.name)
  /\ Ends("failure")

\* A constant is resolved and validated before it has its name.
Constant == Checked(Def.value, FieldType(Def.type))

DefineConst ==
  /\ AtDefinition({"const"})
  /\ ~IsBroken(Constant) /\ <<NULL, Def.name>> \notin DOMAIN constants_
  /\ constants_' = constants_ @@
       (<<NULL, Def.name>> :> [type |-> FieldType(Def.type), value |-> Constant])
  /\ NextDefinition
  /\ UNCHANGED <<listVars, types_, services_, junk, doc, todo, defaults, output>>

RefuseConst ==
  /\ AtDefinition({"const"})
  /\ \/ IsBroken(Constant) /\ Ends(OnThrow(Constant.v))
     \/ ~IsBroken(Constant) /\ <<NULL, Def.name>> \in DOMAIN constants_ /\ Ends("failure")

\* Extends and FlagArgs
AtService == Reading /\ lists = <<>> /\ n = 0 /\ Def.k = "service" /\ ~g_arglist
ExtendsFails == Def.extends # NULL /\ Def.extends \notin services_

StartService ==
  /\ AtService /\ ~ExtendsFails
  /\ FlagArgs
  /\ UNCHANGED <<scopeVars, doc, position, defaults, output>>

DefineService ==
  /\ AtDefinition({"service"}) /\ g_arglist /\ IsUniqueTypename(Def.name)
  /\ UnflagArgs
  /\ services_' = services_ \cup {Def.name}
  /\ NextDefinition
  /\ UNCHANGED <<types_, constants_, junk, doc, todo, defaults, output>>

RefuseService ==
  \/ AtService /\ ExtendsFails /\ Ends("failure")
  \/ /\ AtDefinition({"service"}) /\ g_arglist /\ ~IsUniqueTypename(Def.name)
     /\ Ends("failure")

FinishParse ==
  /\ status = "parse" /\ d > Len(doc)
  /\ Ends("generate")

-----------------------------------------------------------------------------
(****************************************************************************)
(* generate_program: the enums, the objects in the order they were declared, *)
(* the constants.  What is thrown here is only printed: the compiler goes on *)
(* and exits with 0, and the file stays as far as it got.                    *)
(****************************************************************************)
Pick(kinds) == SelectSeq([i \in DOMAIN doc |-> i], LAMBDA i : doc[i].k \in kinds)

\* Mutant: the objects come first.
GeneratedObjectsFirst == Pick(ObjectKinds) \o Pick({"enum"}) \o Pick({"const"})

Generated == Pick({"enum"}) \o Pick(ObjectKinds) \o Pick({"const"})

\* generate_field_data, but for the annotations.
RECURSIVE FieldData(_)
FieldData(declared) ==
  LET type == TrueType(declared)
      kind == Kind(type)
      Of(parts) == Rendered1(parts, <<kind>> \o parts)
  IN CASE kind = "stuck" -> <<"broken", type.of>>
       [] kind = "base" -> <<"base", type.of>>
       [] kind = "enum" -> <<"enum_class", Capital[type.of]>>
       [] kind \in ObjectKinds -> <<"class", Capital[type.of]>>
       [] kind \in {"list", "set"} -> Of(<<FieldData(type.of)>>)
       [] kind = "map" -> Of(<<FieldData(type.key), FieldData(type.val)>>)

\* A field's type is the one the scope knew when the field was read.
FieldDefn(i, f) ==
  LET type == FieldTypeOf([of |-> doc[i].name], f.decl.name)
  IN [key |-> f.key, name |-> f.decl.name, data |-> FieldData(type),
      default |-> IF <<i, f.decl.name>> \in DOMAIN defaults
                  THEN Rendered(defaults[i, f.decl.name], type) ELSE <<"none">>,
      optional |-> f.req = "T_OPTIONAL"]

\* The struct that was read for definition i.
StructOf(i) ==
  LET objects == SelectSeq(structs, LAMBDA s : s.kind \in ObjectKinds)
  IN objects[Cardinality({j \in 1..i : doc[j].k \in ObjectKinds})]

Item(i) ==
  LET def == doc[i]
  IN CASE def.k = "enum" ->
            [k |-> "enum", name |-> Capital[def.name],
             values |-> [j \in DOMAIN def.values |->
                [name |-> Capital[def.values[j].name],
                 value |-> types_[def.name].values[j].value]]]
       [] def.k = "const" ->
            [k |-> "const", name |-> def.name,
             value |-> Rendered(constants_[NULL, def.name].value,
                                constants_[NULL, def.name].type)]
       [] OTHER ->
            [k |-> def.k, name |-> Capital[def.name],
             fields |-> [j \in DOMAIN StructOf(i).members |->
                           FieldDefn(i, StructOf(i).members[j])]]

\* What an item has to render, in the order it is written.
Parts(item) ==
  CASE item.k = "enum" -> <<>>
    [] item.k = "const" -> <<item.value>>
    [] OTHER -> FlattenSeq([j \in DOMAIN item.fields |->
                              <<item.fields[j].default, item.fields[j].data>>])
Errors(item) == SelectSeq(Parts(item), LAMBDA r : r[1] = "broken")

Generating == status = "generate" /\ Len(files) < Len(Generated)
NextItem == Item(Generated[Len(files) + 1])

Generate ==
  /\ Generating /\ Errors(NextItem) = <<>>
  /\ files' = Append(files, NextItem)
  /\ UNCHANGED <<parser, doc, ruby, loaded>>

\* A type that is not defined exits, wherever it is met.
FailToGenerate ==
  /\ Generating /\ Errors(NextItem) # <<>>
  /\ LET how == Errors(NextItem)[1][2]
     IN Ends(IF how = "throw" THEN "error printed" ELSE OnThrow(how))

FinishGeneration ==
  /\ status = "generate" /\ Len(files) = Len(Generated)
  /\ Ends("load")

-----------------------------------------------------------------------------
(****************************************************************************)
(* Ruby evaluates the file from top to bottom.                               *)
(****************************************************************************)
Super(k) ==
  CASE k = "union" -> "::Sparsam::Union"
    [] k = "exception" -> "::Sparsam::ApplicationException"
    [] OTHER -> "::Sparsam::Struct"

\* What a definition of FIELDS refers to.
RECURSIVE ConstantsIn(_)
ConstantsIn(data) ==
  CASE data[1] \in {"class", "enum_class"} -> {data[2]}
    [] data[1] \in {"list", "set"} -> ConstantsIn(data[2])
    [] data[1] = "map" -> ConstantsIn(data[2]) \cup ConstantsIn(data[3])
    [] OTHER -> {}

\* Class.new({...}): the class must have been initialized, and a union takes
\* one field.
RECURSIVE Evaluates(_)
Evaluates(r) ==
  CASE r[1] = "new" ->
         LET class == Capital[r[2]]
         IN /\ class \in DOMAIN ruby
            /\ \A pair \in r[3] :
                 /\ \E f \in ToSet(ruby[class].fields) : f.name = pair[1][2]
                 /\ Evaluates(pair[2])
            /\ ruby[class].super = "::Sparsam::Union" => Cardinality(r[3]) <= 1
    [] r[1] = "hash" -> \A pair \in r[2] : Evaluates(pair[1]) /\ Evaluates(pair[2])
    [] r[1] = "list" -> \A i \in DOMAIN r[2] : Evaluates(r[2][i])
    [] r[1] = "set" -> \A x \in r[2] : Evaluates(x)
    [] OTHER -> TRUE

\* CreateFieldInfoMap: an int16_t is the key, and what comes later overwrites.
Cast16(key) == ((key + Int16 \div 2) % Int16) - Int16 \div 2
FieldInfoMap(fields) ==
  [key \in {Cast16(fields[i].key) : i \in DOMAIN fields} |->
     LET same == SelectSeq(fields, LAMBDA f : Cast16(f.key) = key)
         f == same[Len(same)]
     IN [name |-> f.name, data |-> f.data, optional |-> f.optional]]

\* The constants of an enum's module, and its hash from values to names.
LastOf(values, Test(_)) == LET s == SelectSeq(values, Test) IN s[Len(s)]

\* Mutant: the values are taken for an unbroken range.
EnumModuleOfRange(item) ==
  LET constants == [name \in {v.name : v \in ToSet(item.values)} |->
                      LastOf(item.values, LAMBDA v : v.name = name).value]
  IN [super |-> "module", constants |-> constants,
      value_map |-> [value \in {v.value : v \in ToSet(item.values)} |->
                       LastOf(item.values, LAMBDA v : v.value = value).name],
      valid_values |-> item.values[1].value..item.values[Len(item.values)].value]

EnumModule(item) ==
  LET constants == [name \in {v.name : v \in ToSet(item.values)} |->
                      LastOf(item.values, LAMBDA v : v.name = name).value]
  IN [super |-> "module", constants |-> constants,
      value_map |-> [value \in {v.value : v \in ToSet(item.values)} |->
                       LastOf(item.values, LAMBDA v : v.value = value).name],
      valid_values |-> {constants[name] : name \in DOMAIN constants}]

NextLoaded == files[loaded + 1]
Loading == status = "load" /\ loaded < Len(files)
Defined(name) == name \in DOMAIN ruby

\* "superclass mismatch", "is not a module", and constants that do not exist yet.
LoadFails(item) ==
  CASE item.k = "enum" -> FALSE
    [] item.k = "const" -> ~Evaluates(item.value)
    [] OTHER ->
         \/ Defined(item.name) /\ ruby[item.name].super # Super(item.k)
         \/ \E i \in DOMAIN item.fields :
              \/ ~(ConstantsIn(item.fields[i].data) \subseteq DOMAIN ruby \cup {item.name})
              \/ ~Evaluates(item.fields[i].default)

LoadEnum ==
  /\ Loading /\ NextLoaded.k = "enum"
  /\ ruby' = (NextLoaded.name :> EnumModule(NextLoaded)) @@ ruby
  /\ loaded' = loaded + 1
  /\ UNCHANGED <<parser, doc, files>>

\* The class is defined or opened again, FIELDS is set, and init_thrift_struct
\* runs: FindOrCreateFieldInfoMap keeps the map it has.
LoadClass ==
  /\ Loading /\ NextLoaded.k \in ObjectKinds /\ ~LoadFails(NextLoaded)
  /\ ruby' = (NextLoaded.name :>
       [super |-> Super(NextLoaded.k), fields |-> NextLoaded.fields,
        cache |-> IF Defined(NextLoaded.name) THEN ruby[NextLoaded.name].cache
                  ELSE FieldInfoMap(NextLoaded.fields)]) @@ ruby
  /\ loaded' = loaded + 1
  /\ UNCHANGED <<parser, doc, files>>

LoadConst ==
  /\ Loading /\ NextLoaded.k = "const" /\ ~LoadFails(NextLoaded)
  /\ loaded' = loaded + 1
  /\ UNCHANGED <<parser, doc, files, ruby>>

FinishLoad ==
  /\ status = "load"
  /\ IF Loading THEN LoadFails(NextLoaded) /\ Ends("load error") ELSE Ends("loaded")

-----------------------------------------------------------------------------
Stop == status \in Finals /\ UNCHANGED vars

Parse ==
  \/ OpenFieldList \/ ParseField \/ OpenAttributes \/ CloseAttributes
  \/ FinishField \/ RefuseField \/ CloseFieldList \/ RefuseList
  \/ DefineType \/ RefuseType \/ DefineConst \/ RefuseConst
  \/ StartService \/ DefineService \/ RefuseService \/ FinishParse
Load == LoadEnum \/ LoadClass \/ LoadConst \/ FinishLoad

Next == Parse \/ Generate \/ FailToGenerate \/ FinishGeneration \/ Load \/ Stop

Spec == Init /\ [][Next]_vars

=============================================================================
