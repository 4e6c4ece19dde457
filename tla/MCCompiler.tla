----------------------------- MODULE MCCompiler -----------------------------
(****************************************************************************)
(* Thrift files for model checking the compiler: a family for each part of   *)
(* the language, each with what goes wrong in that part.                     *)
(****************************************************************************)
EXTENDS CompilerProperties

MCInt32 == 32
MCDigits == 100
MCEscaped == [line |-> "line with backslashes"]
MCInt16 == 8
Names == {"A", "B", "E", "F", "L", "S", "T", "U", "X",
          "a", "b", "c", "f", "g", "i", "k", "s"}
RubyNames ==
  [name \in Names |-> CASE name = "s" -> "S" [] name = "a" -> "A" [] name = "b" -> "B"
                        [] OTHER -> name]
MCCapital == RubyNames

\* Types, values, declarations and definitions.
Base(b) == [k |-> "base", of |-> b]
i32 == Base("i32")
The(name) == [k |-> "name", of |-> name]
ListOf(t) == [k |-> "list", of |-> t]
SetOf(t) == [k |-> "set", of |-> t]
MapOf(t, u) == [k |-> "map", key |-> t, val |-> u]

Double(x) == [cv |-> "double", v |-> x]
Text(s) == [cv |-> "string", v |-> s]
Id(name) == [cv |-> "identifier", v |-> <<NULL, name>>, enum_ |-> NULL]
In(enum, name) == [cv |-> "identifier", v |-> <<enum, name>>, enum_ |-> NULL]
CList(s) == [cv |-> "list", v |-> s]
CMap(s) == [cv |-> "map", v |-> s]

Field(id, name, type) ==
  [id |-> id, name |-> name, type |-> type, req |-> "T_OPT_IN_REQ_OUT",
   value |-> NULL, attrs |-> NULL]
Object(kind, name, fields) == [k |-> kind, name |-> name, fields |-> fields]
Struct(name, fields) == Object("struct", name, fields)
Typedef(name, type) == [k |-> "typedef", name |-> name, type |-> type]
Enum(name, values) == [k |-> "enum", name |-> name, values |-> values]
Value(name, value) == [name |-> name, value |-> value]
Const(name, type, value) == [k |-> "const", name |-> name, type |-> type, value |-> value]
Service(name, extends, functions) ==
  [k |-> "service", name |-> name, extends |-> extends, functions |-> functions]
Function(name, oneway, args, throws) ==
  [name |-> name, oneway |-> oneway, args |-> args, throws |-> throws]

\* Two fields: implicit, nonpositive and positive ids, and two that are id 1 in
\* 32 or in 16 bits; a third implicit one after a list of attributes.
Ids == {NULL, -16, -1, 0, 1, 9, 33}
TwoFields ==
  {<<[Field(i, "a", i32) EXCEPT !.req = r], Field(j, name, i32)>> :
     i, j \in Ids, name \in {"a", "b"}, r \in {"T_REQUIRED", "T_OPTIONAL"}}
Nested ==
  {<<Field(i, "a", i32),
     [Field(j, "b", i32) EXCEPT !.attrs = <<Field(k, "c", i32)>>],
     Field(NULL, "c", i32)>> : i, j, k \in {NULL, -1, 1}}
FieldFiles ==
  {<<Object(kind, "S", fields)>> : kind \in ObjectKinds, fields \in TwoFields}
    \cup {<<Struct("S", fields)>> : fields \in Nested}

UnionFiles ==
  {<<Object("union", "U", <<[Field(1, "a", i32) EXCEPT !.value = u],
                            [Field(2, "b", i32) EXCEPT !.value = v]>>)>> :
     u, v \in {NULL, Int64(1), Text("x")}}

\* A constant or a default of every type, given every value.
Preamble ==
  <<Enum("E", <<Value("A", 2), Value("B", NULL)>>),
    Enum("F", <<Value("A", 5)>>),
    Typedef("L", ListOf(The("E"))), Typedef("T", The("E")), Typedef("k", i32),
    Struct("S", <<Field(1, "a", The("E")), Field(2, "b", ListOf(i32))>>),
    Object("exception", "X", <<Field(1, "a", The("E"))>>),
    Object("union", "U", <<Field(1, "a", i32), Field(2, "b", Base("string"))>>),
    Const("i", i32, Int64(1)), Const("g", Base("double"), Int64(1)),
    Const("s", Base("string"), Text("x")), Const("f", ListOf(i32), CList(<<Int64(1)>>))>>
Types ==
  {i32, Base("bool"), Base("double"), Base("string"),
   ListOf(i32), SetOf(The("E")), MapOf(The("E"), i32)}
    \cup {The(name) : name \in {"E", "L", "T", "k", "S", "X", "U"}}
Scalars == {Int64(1), Int64(2), Double(15), Double(123), Text("x"), Text("line"), Id("i"), Id("g"), Id("s"), Id("f"),
            Id("c"), In("E", "A"), In("F", "A"), In("F", "B")}
SomeValues ==
  Scalars \cup {CList(<<x>>) : x \in {Int64(2), Id("i"), In("E", "A")}}
    \cup {CMap(<<>>)}
    \cup {CMap(<<<<Text("a"), x>>>>) : x \in {Int64(2), Text("x"), In("E", "B")}}
    \cup {CMap(<<<<Text("a"), Int64(2)>>, <<Text("b"), x>>>>) :
            x \in {CList(<<Int64(1)>>), Id("f"), Text("x")}}
    \cup {CMap(<<<<x, Int64(1)>>>>) : x \in {In("E", "A"), Int64(3), Text("c")}}
ConstantFiles ==
  {Preamble \o <<Const("c", type, value)>> : type \in Types, value \in SomeValues}
DefaultFiles ==
  {Preamble \o <<Struct("a", <<[Field(1, "c", type) EXCEPT !.value = value]>>)>> :
     type \in Types, value \in SomeValues}

\* Names used before they are defined, after, or never, in cycles of typedefs
\* or of structs.
Either == {i32, The("S"), The("T"), The("L")}
ForwardFiles ==
  LET S(type, default) == Struct("S", <<[Field(1, "a", type) EXCEPT !.value = default]>>)
  IN UNION {{<<S(t, c), Typedef("T", u), Typedef("L", v)>>,
             <<Typedef("T", u), S(t, c), Typedef("L", v)>>,
             <<Typedef("T", u), Typedef("L", v), S(ListOf(t), NULL)>>,
             <<S(t, c), Typedef("T", u), Struct("L", <<Field(1, "a", The("S"))>>)>>} :
            t, u, v \in Either, c \in {NULL, CMap(<<>>)}}

\* Enums: values given or not, at the limit, twice, with one Ruby name.
EnumFiles ==
  LET names == {<<"a", "b">>, <<"a", "A">>, <<"a", "a">>}
  IN {<<Enum("E", <<Value(s[1], u), Value(s[2], v)>>)>> :
        s \in names, u, v \in {NULL, -1, 0, 1, 15, 16}}

\* Two definitions whose names are the same, or are the same in Ruby.
NameFiles ==
  LET Called(name) ==
        {Struct(name, <<Field(1, "a", i32)>>), Struct(name, <<Field(2, "b", The(name))>>),
         Object("union", name, <<Field(1, "a", i32)>>), Enum(name, <<Value("A", 1)>>),
         Typedef(name, i32), [k |-> "senum", name |-> name], Service(name, NULL, <<>>),
         Const(name, i32, Int64(1))}
  IN {<<x, y>> : x \in Called("s"), y \in Called("s") \cup Called("S")}

\* Services: arguments, exceptions, oneway functions, what they extend, and a struct
\* after one, with an optional field.
ServiceFiles ==
  LET exception == Object("exception", "X", <<>>)
      args_ == {<<>>, <<[Field(1, "a", i32) EXCEPT !.req = "T_OPTIONAL"]>>,
                <<Field(1, "a", The("X"))>>, <<Field(NULL, "a", The("T"))>>,
                <<Field(1, "a", i32), Field(1, "b", i32)>>}
      Functions == {<<Function("f", oneway, args, throws)>> :
                      oneway \in BOOLEAN, args, throws \in args_}
  IN {<<exception, Typedef("T", t), Service("F", NULL, fs), Service("S", extends, fs \o more)>> :
        t \in {The("X"), The("L")}, extends \in {NULL, "F", "L"}, fs \in Functions,
        more \in {<<>>, <<Function("f", FALSE, <<>>, <<>>)>>,
                  <<Function("g", FALSE, <<Field(1, "b", i32)>>, <<>>)>>}}
     \cup {<<Service("F", NULL, <<Function("f", FALSE, args, <<>>)>>),
             Struct("S", <<[Field(1, "a", i32) EXCEPT !.req = "T_OPTIONAL"]>>)>> : args \in args_}

MCDocuments ==
  FieldFiles \cup UnionFiles \cup ConstantFiles \cup DefaultFiles \cup ForwardFiles
    \cup EnumFiles \cup NameFiles \cup ServiceFiles

\* The declarations of fields in those files.
RECURSIVE DeclsIn(_)
DeclsIn(fields) ==
  ToSet(fields) \cup UNION {DeclsIn(f.attrs) : f \in {g \in ToSet(fields) : g.attrs # NULL}}
AllDecls ==
  UNION {UNION {DeclsIn(list.fields) : list \in ToSet(ListsOf(document[i]))} :
           <<document, i>> \in {<<x, j>> \in MCDocuments \X (1..20) : j \in DOMAIN x}}

MCDecls == AllDecls

MCJunks == {0, 2}
=============================================================================
