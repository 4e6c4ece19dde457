------------------------------ MODULE MCAudit ------------------------------
(****************************************************************************)
(* Instances of Audit: families of pairs of versions, each of which varies   *)
(* one kind of definition.                                                   *)
(****************************************************************************)
EXTENDS Audit

CONSTANTS a, b, c,        \* names
          one, two, str   \* values

(* i32, i64 and a struct S; Int, a typedef of either; containers of them. *)
Leaf(name, means) == [name |-> name, kind |-> "leaf", parts |-> <<>>, means |-> means]
Container(kind, parts) == [name |-> "", kind |-> kind, parts |-> parts, means |-> NULL]
I32 == Leaf("i32", "i32")
I64 == Leaf("i64", "i64")
Int32 == Leaf("Int", "i32")
Int64 == Leaf("Int", "i64")
Simple == {I32, I64, Int32, Int64}
Flat == {Container(k, <<t>>) : k \in {"list", "set"}, t \in {I32, I64}}
          \cup {Container("map", <<I32, t>>) : t \in {I32, I64}} \cup {Container("map", <<I64, I32>>)}
MCTypes == Simple \cup Flat
             \cup {Container("list", <<t>>) : t \in {Container("set", <<I32>>), Container("list", <<I32>>)}}

Num(n) == [cv |-> "integer", v |-> n]
Two(cv, v, w) == [cv |-> cv, v |-> <<v, w>>]
MCValues ==
  {Num(one), Num(two), [cv |-> "string", v |-> str], Two("list", Num(one), Num(two)), Two("list", Num(two), Num(one)),
   [cv |-> "list", v |-> <<Num(one)>>], [cv |-> "map", v |-> <<<<Num(one), Num(one)>>>>],
   Two("map", <<Num(one), Num(one)>>, <<Num(two), Num(one)>>),
   Two("map", <<Num(two), Num(one)>>, <<Num(one), Num(one)>>)}

MCNames == {a, b, c, "i32", "i64", "Int"}

Field(key, name, type, req, value) ==
  [key |-> key, name |-> name, type |-> type, req |-> req, value |-> value]
Plain(key, req) == Field(key, a, I32, req, NULL)

\* Structs whose ids are those in `keys', each a field of one of the variants.
RECURSIVE MembersOf(_, _)
MembersOf(keys, variants) ==
  IF keys = <<>> THEN {<<>>}
  ELSE LET rest == MembersOf(Tail(keys), variants) IN
       rest \cup {<<[v EXCEPT !.key = Head(keys)]>> \o ms : v \in variants, ms \in rest}

\* Which ids there are, and which are required.
Sparse == MembersOf(<<-1, 1, 2, 5>>, {Plain(0, "T_REQUIRED"), Plain(0, "T_OPTIONAL")})
\* Everything else about two fields.
Dense == MembersOf(<<1, 2>>,
  {Plain(0, "T_REQUIRED"), Plain(0, "T_OPTIONAL"), Plain(0, "T_OPT_IN_REQ_OUT"),
   Field(0, b, I32, "T_OPTIONAL", NULL), Field(0, a, Int64, "T_OPTIONAL", NULL),
   Field(0, a, I32, "T_OPTIONAL", Num(one)), Field(0, a, I32, "T_REQUIRED", Num(one))})
OfTypes == {<<Field(1, a, t, "T_OPTIONAL", NULL)>> : t \in MCTypes}
OfValues == {<<Field(1, a, I32, "T_OPTIONAL", v)>> : v \in MCValues \cup {NULL}}

Empty == [namespaces |-> <<>>, services |-> <<>>, enums |-> <<>>, structs |-> <<>>,
          xceptions |-> <<>>, consts |-> <<>>]
StructOf(name, ms) == [name |-> name, members |-> ms]
Versions(programs) == [new : programs, old : programs]

StructVersions(members) == Versions({[Empty EXCEPT !.structs = <<StructOf(a, ms)>>] : ms \in members})

Lists(S) == {<<>>} \cup {<<x>> : x \in S} \cup {q \in S \X S : q[1].name # q[2].name}
OneField == {<<>>, <<Plain(1, "T_REQUIRED")>>, <<Plain(1, "T_OPTIONAL")>>}
Many == Lists([name : {a, b}, members : OneField])
Enums2 == Lists([name : {a, b, c}, value : {0, 1}])
Functions2 == [name : {a, b}, oneway : BOOLEAN, returns : {I32, I64}, args : {<<>>, <<Plain(1, "T_REQUIRED")>>},
               throws : {<<>>, <<Plain(1, "T_OPTIONAL")>>}]
FewFunctions == {f \in Functions2 : f.oneway => f.throws = <<>>}
ServiceLists == {<<>>} \cup {<<[name |-> s, extends |-> e, functions |-> f]>> :
                   s \in {a}, e \in {NULL, b, c}, f \in {<<>>} \cup {<<g>> : g \in FewFunctions}}
\* A default of an argument.
Arguments == {<<[name |-> a, extends |-> NULL,
                 functions |-> <<[name |-> a, oneway |-> FALSE, returns |-> I32, args |-> ms, throws |-> <<>>]>>]>> :
                ms \in OfValues}
Constants == Lists([name : {a, b}, type : {I32, I64}, value : {Num(one), Num(two)}])
               \cup {<<[name |-> a, type |-> I32, value |-> v]>> : v \in MCValues}

\* A bit of everything, and a change to each.
Whole ==
  [namespaces |-> [l \in {"rb"} |-> a], structs |-> <<StructOf(a, <<Plain(1, "T_REQUIRED")>>), StructOf(b, <<>>)>>,
   xceptions |-> <<StructOf(c, <<Plain(1, "T_OPTIONAL"), Plain(3, "T_OPTIONAL")>>)>>,
   enums |-> <<[name |-> a, values |-> <<[name |-> a, value |-> 0], [name |-> b, value |-> 0]>>]>>,
   services |-> <<[name |-> a, extends |-> b,
                   functions |-> <<[name |-> a, oneway |-> FALSE, returns |-> I32,
                                    args |-> <<Plain(1, "T_OPT_IN_REQ_OUT")>>, throws |-> <<>>]>>]>>,
   consts |-> <<[name |-> a, type |-> I32, value |-> Num(one)]>>]
Wholes ==
  {Whole, Empty} \cup {[Whole EXCEPT !.structs = Tail(@)], [Whole EXCEPT !.xceptions[1].members = Tail(@)],
   [Whole EXCEPT !.enums[1].values = Tail(@)], [Whole EXCEPT !.services[1].extends = NULL],
   [Whole EXCEPT !.services[1].functions[1].throws = <<Plain(1, "T_OPTIONAL")>>],
   [Whole EXCEPT !.services[1].functions[1].args = <<>>], [Whole EXCEPT !.consts[1].value = Num(two)]}

MCAudits ==
  Versions(Wholes) \cup
  StructVersions(Sparse) \cup StructVersions(Dense) \cup StructVersions(OfTypes)
    \cup StructVersions(OfValues)
    \cup Versions({[Empty EXCEPT !.structs = ms] : ms \in Many})
    \cup Versions({[Empty EXCEPT !.xceptions = ms] : ms \in Many})
    \cup Versions({[Empty EXCEPT !.enums = <<[name |-> n, values |-> vs]>>] : n \in {a, b}, vs \in Enums2})
    \cup Versions({[Empty EXCEPT !.services = ss] : ss \in ServiceLists \cup Arguments})
    \cup Versions({[Empty EXCEPT !.consts = cs] : cs \in Constants})
    \cup Versions({[Empty EXCEPT !.namespaces = n] : n \in UNION {[L -> {a, b}] : L \in SUBSET {"rb", "cpp"}}})
=============================================================================
