-------------------------- MODULE MCSparsamRoundTrip --------------------------
(****************************************************************************)
(* Instances of SparsamRoundTrip.  What is written is an S; it is read as    *)
(* one version of it or another.                                             *)
(*                                                                          *)
(*   union  U     { 1: i64 num,  2: P part }                                 *)
(*   struct P     { 1: i32 id = two }                                        *)
(*   struct S     { 1: required i32 id, 2: list<U> alts, 18: map<byte, U>    *)
(*                  opts, 19: set<i64> nums, 20: P part, 21: i32 last }      *)
(*   struct Empty { }                                                        *)
(*   struct Older { 1: i32 id, 20: Empty part, 21: i32 last }                *)
(*   struct P2    { 1: i32 id = two, 2: i32 extra = two }                    *)
(*   struct Newer { 1: i32 id, 2: list<U> alts, 18: map<byte, U> opts,       *)
(*                  20: P2 part, 21: i32 last, 22: i32 extra = two }         *)
(*   union  V     { 1: i64 num }              (U before variant 2 was added) *)
(*   struct OldU  { 1: i32 id, 2: list<V> alts, 18: map<byte, V> opts,       *)
(*                  21: i32 last }                                           *)
(*   struct X     { 1: i32 id, 18: map<byte, i64> opts, 21: i32 last }       *)
(*   struct Y     { 1: i32 id, 2: list<i64> alts, 21: string last }          *)
(****************************************************************************)
EXTENDS SparsamExpected, MCSchema

CONSTANTS S, P, U, Older, Empty, Newer, P2, OldU, V, X, Y,  \* Klasses
          one, two,                                    \* integers
          s1, p1, u1, u2, arr, hsh, set                \* objects

MCKlasses == {S, P, U, Older, Empty, Newer, P2, OldU, V, X, Y}
MCUnions == {U, V}
MCNames == {"id", "alts", "opts", "nums", "part", "last", "num", "extra"}
MCVALUE == {nil, one, two, s1, p1, u1, u2, arr, hsh, set}

MCFieldInfo ==
  [ id     |-> Field("I32", "id"),
    reqId  |-> Required(Field("I32", "id")),
    alts   |-> SequenceField("LIST", "u", "alts"),
    altsV  |-> SequenceField("LIST", "v", "alts"),
    altsN  |-> SequenceField("LIST", "i64", "alts"),
    u      |-> StructField(U, NULL),
    v      |-> StructField(V, NULL),
    opts   |-> MapField("byte", "u", "opts"),
    optsN  |-> MapField("byte", "i64", "opts"),
    optsV  |-> MapField("byte", "v", "opts"),
    byte   |-> Field("BYTE", NULL),
    nums   |-> SequenceField("SET", "i64", "nums"),
    i64    |-> Field("I64", NULL),
    part   |-> StructField(P, "part"),
    part0  |-> StructField(Empty, "part"),
    part2  |-> StructField(P2, "part"),
    lastS  |-> Field("STRING", "last"),
    last   |-> Field("I32", "last"),
    extra  |-> Field("I32", "extra"),
    num    |-> Field("I64", "num") ]
MCInfos == DOMAIN MCFieldInfo

MCFieldInfoMap ==
  S :> (1 :> "reqId" @@ 2 :> "alts" @@ 18 :> "opts" @@ 19 :> "nums" @@ 20 :> "part"
        @@ 21 :> "last")
  @@ P :> (1 :> "id")
  @@ U :> (1 :> "num" @@ 2 :> "part")
  @@ Older :> (1 :> "id" @@ 20 :> "part0" @@ 21 :> "last")
  @@ Empty :> <<>>
  @@ Newer :> (1 :> "id" @@ 2 :> "alts" @@ 18 :> "opts" @@ 20 :> "part2" @@ 21 :> "last"
             @@ 22 :> "extra")
  @@ P2 :> (1 :> "id" @@ 2 :> "extra")
  \* the union without its second variant, and the struct that uses it
  @@ V :> (1 :> "num")
  @@ OldU :> (1 :> "id" @@ 2 :> "altsV" @@ 18 :> "optsV" @@ 21 :> "last")
  \* other types: the values of the map; a field
  @@ X :> (1 :> "id" @@ 18 :> "optsN" @@ 21 :> "last")
  @@ Y :> (1 :> "id" @@ 2 :> "altsN" @@ 21 :> "lastS")

MCDefaults == [k \in MCKlasses |->
  CASE k = P -> [NoIvars EXCEPT !["id"] = two]
    [] k = P2 -> [NoIvars EXCEPT !["id"] = two, !["extra"] = two]
    [] k = Newer -> [NoIvars EXCEPT !["extra"] = two]
    [] OTHER -> NoIvars]

HeapOf(c) ==
  nil :> Ruby("nil") @@ one :> Integer(8) @@ two :> Integer(8)
  @@ s1 :> Instance(S, "id" :> one @@ "alts" :> c.alts @@ "opts" :> c.opts
                       @@ "nums" :> c.nums @@ "part" :> c.part @@ "last" :> one)
  @@ p1 :> Instance(P, "id" :> c.pid)
  @@ u1 :> Instance(U, c.u1)
  @@ u2 :> Instance(U, "num" :> two)
  @@ arr :> Collection("array", c.arr)
  @@ hsh :> Collection("hash", c.hsh)
  @@ set :> SetOf(c.set)

\* The last one has two fields, as two threads that set one each can leave it.
UnionIvars == {<<>>, "num" :> one, "part" :> p1, "num" :> one @@ "part" :> p1}

Contents ==
  [ alts : {nil, arr}, opts : {nil, hsh}, nums : {nil, set}, part : {nil, p1},
    pid : {nil, one}, u1 : UnionIvars, arr : {<<>>, <<u1, u2>>},
    hsh : {<<>>, <<one, u1, two, u1>>}, set : {<<one, two>>} ]

\* What no one can reach is not varied.
MCHeaps == {HeapOf(c) : c \in {d \in Contents :
  /\ d.alts = nil => d.arr = <<>>
  /\ d.opts = nil => d.hsh = <<>>
  /\ d.arr = <<>> /\ d.hsh = <<>> => d.u1 = <<>>
  /\ d.part = nil /\ "part" \notin DOMAIN d.u1 => d.pid = nil }}

\* Everything is set; only the variant differs.
FewHeaps == {HeapOf(c) : c \in {d \in Contents :
  nil \notin {d.alts, d.opts, d.nums, d.part, d.pid} /\ d.hsh # <<>>}}

MCCalls == {[fn |-> "serialize", klass |-> NULL, data |-> s1, mode |-> NULL]}
MCMaxDepth == 12
\* What is written is an S; the other classes are there to read as.
ReadersOf(S_readers) == [k \in MCKlasses |-> IF k = S THEN S_readers
                                            ELSE IF k = P THEN {P, P2, Empty} ELSE {k}]
MCReaders == ReadersOf({S, Older, Newer, Empty})
VariantReaders == ReadersOf({OldU})
RetypedReaders == ReadersOf({X})
AllReaders == ReadersOf({S, Older, Newer, Empty, OldU, X, Y})
\* The fields of the versions of a class read each other's values.
MCInfoReaders == [w \in MCInfos |->
  {r \in MCInfos :
     LET f == MCFieldInfo[w]
         g == MCFieldInfo[r]
     IN /\ g.ftype = f.ftype
        /\ f.ftype = "STRUCT" => g.klass \in MCReaders[f.klass]
        /\ g.elementType = f.elementType /\ g.keyType = f.keyType}]
ASSUME ReadersFit == Fits(MCReaders, MCInfoReaders)

BothProtocols == {"compact", "binary"}
=============================================================================
