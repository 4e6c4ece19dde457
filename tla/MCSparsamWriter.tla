--------------------------- MODULE MCSparsamWriter ---------------------------
(****************************************************************************)
(* Instances of SparsamWriter.  The schema has one struct, one union and     *)
(* every kind of container; it is recursive through the containers and       *)
(* through the union:                                                        *)
(*                                                                          *)
(*   union  U { 1: i64 num,  2: S child }                                    *)
(*   struct S { 1: required i32 id, 3: optional list<S> kids,                *)
(*              20: optional map<byte, U> opts, 21: optional set<double> d,  *)
(*              22: optional string s, 23: optional bool b }                 *)
(****************************************************************************)
EXTENDS SparsamWriter, MCSchema

CONSTANTS S, U,                                     \* Klasses
          int8, int32, int64, big, txt, flt, yes,   \* scalar VALUEs
          s1, s2, u1, arr, hsh, set                 \* objects

MCKlasses == {S, U}
MCUnions == {U}
MCNames == {"id", "kids", "opts", "d", "s", "b", "num", "child"}
MCVALUE == {nil, int8, int32, int64, big, txt, flt, yes, s1, s2, u1, arr, hsh, set}

MCFieldInfo ==
  [ id    |-> Required(Field("I32", "id")),
    kids  |-> SequenceField("LIST", "kid", "kids"),
    kid   |-> StructField(S, NULL),
    opts  |-> MapField("key", "opt", "opts"),
    key   |-> Field("BYTE", NULL),
    opt   |-> StructField(U, NULL),
    d     |-> SequenceField("SET", "dd", "d"),
    dd    |-> Field("DOUBLE", NULL),
    s     |-> Field("STRING", "s"),
    b     |-> Field("BOOL", "b"),
    num   |-> Field("I64", "num"),
    child |-> StructField(S, "child") ]
MCInfos == DOMAIN MCFieldInfo

MCFieldInfoMap ==
  S :> (1 :> "id" @@ 3 :> "kids" @@ 20 :> "opts" @@ 21 :> "d" @@ 22 :> "s" @@ 23 :> "b")
  @@ U :> (1 :> "num" @@ 2 :> "child")

(****************************************************************************)
(* Heaps.  The scalars are fixed; the fields of the two structs and of the   *)
(* union, and the elements of the three collections, vary.                   *)
(****************************************************************************)
Scalars ==
  nil :> Ruby("nil") @@ txt :> Ruby("string") @@ flt :> Ruby("float") @@ yes :> Ruby("true")
  @@ int8 :> Integer(8) @@ int32 :> Integer(32) @@ int64 :> Integer(64) @@ big :> Integer(65)

HeapOf(c) ==
  Scalars
  @@ s1 :> Instance(S, ("id" :> c.id1 @@ "kids" :> c.kids @@ "opts" :> c.opts
                        @@ "d" :> c.d @@ "s" :> txt @@ "b" :> c.b))
  @@ s2 :> Instance(S, ("id" :> c.id2 @@ "kids" :> c.kids2))
  @@ u1 :> Instance(U, ("num" :> c.num @@ "child" :> c.child))
  @@ arr :> Collection("array", c.arr)
  @@ hsh :> Collection("hash", c.hsh)
  @@ set :> SetOf(c.set)

\* A graph in good order ...
Good ==
  [ id1 |-> int8, kids |-> arr, opts |-> hsh, d |-> set, b |-> yes,
    id2 |-> int32, kids2 |-> nil, num |-> int64, child |-> nil,
    arr |-> <<s2>>, hsh |-> <<int8, u1>>, set |-> <<flt>> ]

\* ... and what may differ from it: missing fields, wrong types and classes,
\* integers out of range, shared objects, and objects that contain themselves.
Other ==
  [ id1 |-> {nil, txt, int64}, kids |-> {nil, txt}, opts |-> {arr}, d |-> {nil, arr},
    b |-> {int8}, id2 |-> {nil, int64}, kids2 |-> {arr}, num |-> {nil, big, flt},
    child |-> {s2, s1, txt}, arr |-> {<<>>, <<s2, s2>>, <<s2, u1>>},
    hsh |-> {<<>>, <<int32, u1>>, <<int8, u1, big, u1>>}, set |-> {<<>>, <<int8>>} ]

Changes == UNION {{[c |-> f :> v] : v \in Other[f]} : f \in DOMAIN Other}
Shapes(n) == IF n = 1 THEN {x.c @@ Good : x \in Changes}
             ELSE {x.c @@ (y.c @@ Good) : x, y \in Changes}
MCHeaps == {HeapOf(c) : c \in Shapes(2)}
FewHeaps == {HeapOf(c) : c \in Shapes(1)}

Method(fn, k, d, m) == [fn |-> fn, klass |-> k, data |-> d, mode |-> m]
MCCalls == {Method("serialize", NULL, s1, NULL)}
AllCalls == MCCalls \cup {Method("serialize", NULL, u1, NULL),
                          Method("Serializer#serialize", S, u1, NULL)}

\* Room for every activation of the schema over these objects, and then some.
MCMaxDepth == 24
=============================================================================
