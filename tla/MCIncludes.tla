----------------------------- MODULE MCIncludes -----------------------------
(****************************************************************************)
(* Projects for the compiler's driver.  Files are numbered, the first is the *)
(* one given to the compiler.                                                *)
(****************************************************************************)
EXTENDS Includes

FiveFiles == 1..5

Type(n, refs) == [kind |-> "type", name |-> n, refs |-> refs]
Const(n, refs) == [kind |-> "const", name |-> n, refs |-> refs]

\* Lists of at most two of the files in S, and what the first n files may include.
Lists(S) == {<<>>} \cup {<<f>> : f \in S} \cup {<<f, g>> : f, g \in S}
Extended(lists) == [f \in Files |-> IF f \in DOMAIN lists THEN lists[f] ELSE <<>>]
Includings(n) == [1..n -> {list \in Lists(1..n) : IsInjective(list)}]

Project(old, includes, base, namespace, defs) ==
  [root |-> [old |-> old, new |-> 1], includes |-> includes, base |-> base,
   namespace |-> namespace, defs |-> defs]
Numbers == [f \in Files |-> f]

\* A file refers to its own definitions, types before they come, and to those of
\* the files it includes, or it has no definitions that refer to anything.
Referring(f, list) ==
  LET Qualified(n) == {<<g, n>> : g \in Range(list)} IN
  <<Type("T", Qualified("T") \cup {<<NULL, "T">>, <<NULL, "U">>}),
    Type("U", {<<NULL, "T">>}),
    Const("K", Qualified("K")),
    Const("L", {<<NULL, "K">>})>>
Plain == <<Type("T", {}), Const("K", {})>>

Ordinary(old, includes) ==
  {Project(old, [s \in Sides |-> includes], Numbers, Numbers, defs) :
     defs \in {[f \in Files |-> Referring(f, includes[f])], [f \in Files |-> Plain]}}

\* Four files include files with a higher number; an audit is of the first against
\* itself or against the second.
IsAcyclic(includes) == \A f \in DOMAIN includes : \A i \in DOMAIN includes[f] : includes[f][i] > f
Acyclic ==
  UNION {Ordinary(old, Extended(includes)) :
           old \in {1, 2}, includes \in {i \in Includings(4) : IsAcyclic(i)}}

\* Any of three files includes any, itself among them.
Cyclic3 == UNION {Ordinary(2, Extended(includes)) : includes \in Includings(3)}

\* The first file includes files over and over, the second the third, which may have
\* the same base name; they define names twice, or refer to what does not exist.
Contents ==
  {<<>>, <<Type("T", {})>>, <<Type("T", {}), Type("T", {})>>, <<Const("K", {})>>,
   <<Const("K", {}), Const("K", {})>>, <<Const("L", {<<NULL, "K">>}), Const("K", {})>>,
   <<Type("U", {<<2, "T">>, <<NULL, "U">>}), Const("L", {<<2, "K">>})>>}
Clashing ==
  {Project(1, [s \in Sides |-> Extended(<<first, second>>)],
           [Numbers EXCEPT ![3] = base], namespace, Extended(defs)) :
     first \in Lists({2, 3}), second \in {<<>>, <<3>>}, base \in {2, 3},
     namespace \in {Numbers, [f \in Files |-> 1]}, defs \in [1..3 -> Contents]}

\* For the include directives of the first file, of the second, its old version, and
\* of the third, -Iold and -Inew have different files; with -Inew, these may include
\* each other.  The definitions refer to what one of the two finds.
SearchPaths ==
  LET found(first, second, third) == Extended(<<first, second, third>>)
      one == {<<3>>, <<4>>, <<5>>}
  IN {Project(2, [old |-> old, new |-> new], Numbers, Numbers, defs) :
        old \in {found(first, second, <<4>>) : first \in one, second \in {<<>>, <<5>>, <<3, 4>>}},
        new \in {found(first, <<4>>, third) : first \in one, third \in {<<5>>, <<1>>}},
        defs \in {[f \in Files |-> Plain],
                  [f \in Files |-> Referring(f, IF f = 3 THEN <<4>> ELSE <<>>)],
                  [f \in Files |-> Referring(f, IF f = 1 THEN <<3>> ELSE <<>>)]}}

AllProjects == Acyclic \cup Cyclic3 \cup Clashing \cup SearchPaths
=============================================================================
