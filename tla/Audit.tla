------------------------------- MODULE Audit -------------------------------
(****************************************************************************)
(* The compiler's -audit (compiler/src/audit/t_audit.cpp): what a new        *)
(* version of a thrift file changes that programs built with the old one     *)
(* would notice.  Parsing the two is in module Includes.                     *)
(****************************************************************************)
EXTENDS Integers, SequencesExt

CONSTANTS
  Names, Types, Values,
  Audits,   \* pairs of a new and an old version
  NULL

(****************************************************************************)
(* A type that has a name is known to the audit by that name; what it stands *)
(* for, its target if it is a typedef, is in `means'.  A container has no    *)
(* name but parts.  A value is a t_const_value; a map is a sequence of pairs *)
(* here, as written.                                                         *)
(****************************************************************************)
Containers == {"list", "set", "map"}
IsType(t) ==
  IF t.name # "" THEN t.name \in Names
  ELSE t.kind \in Containers /\ t.parts \in [1..(IF t.kind = "map" THEN 2 ELSE 1) -> Types]
IsValue(v) ==
  CASE v.cv = "list" -> v.v \in Seq(Values)
    [] v.cv = "map" -> v.v \in Seq(Values \X Values)
    [] OTHER -> v.cv \in {"integer", "double", "string", "identifier"}
TypeParts(t) == IF t.name = "" THEN Range(t.parts) ELSE {}
ValueParts(v) ==
  CASE v.cv = "list" -> Range(v.v)
    [] v.cv = "map" -> UNION {{e[1], e[2]} : e \in Range(v.v)}
    [] OTHER -> {}

Reqs == {"T_REQUIRED", "T_OPTIONAL", "T_OPT_IN_REQ_OUT"}
Fields == [key : Int, name : Names, type : Types, req : Reqs, value : Values \cup {NULL}]

\* get_sorted_members: t_struct::append keeps them in the order of their ids.
Members == {ms \in Seq(Fields) : \A i, j \in DOMAIN ms : i < j => ms[i].key < ms[j].key}
Structs == [name : Names, members : Members]
Functions == [name : Names, oneway : BOOLEAN, returns : Types, args : Members, throws : Members]
Services == [name : Names, extends : Names \cup {NULL}, functions : Seq(Functions)]
Enums == [name : Names, values : Seq([name : Names, value : Int])]
Consts == [name : Names, type : Types, value : Values]

\* t_program::is_unique_typename, t_service::add_function and t_scope::add_constant
\* refuse a file that gives a name twice.
DistinctlyNamed(defns) == \A i, j \in DOMAIN defns : defns[i].name = defns[j].name => i = j
IsProgram(p) ==
  /\ p.services \in Seq(Services) /\ p.enums \in Seq(Enums) /\ p.consts \in Seq(Consts)
  /\ p.structs \in Seq(Structs) /\ p.xceptions \in Seq(Structs)
  /\ DistinctlyNamed(p.services) /\ DistinctlyNamed(p.enums) /\ DistinctlyNamed(p.consts)
  /\ DistinctlyNamed(p.structs) /\ DistinctlyNamed(p.xceptions)
  /\ \A s \in Range(p.services) : DistinctlyNamed(s.functions)

\* The parser builds a container after its parts: none is part of itself.
ASSUME TypesAssumption ==
  /\ \A t \in Types : IsType(t)
  /\ \A S \in SUBSET Types : S # {} => \E t \in S : TypeParts(t) \cap S = {}
ASSUME ValuesAssumption ==
  /\ \A v \in Values : IsValue(v)
  /\ \A S \in SUBSET Values : S # {} => \E v \in S : ValueParts(v) \cap S = {}
ASSUME ProgramsAssumption == \A a \in Audits : IsProgram(a.new) /\ IsProgram(a.old)

VARIABLES
  new, old,          \* the versions
  g_warn,            \* 0 with -nowarn
  todo,              \* the comparisons still to be made, in their order
  printed,           \* the kinds of messages printed
  g_return_failure   \* the compiler's exit status

vars == <<new, old, g_warn, todo, printed, g_return_failure>>

-----------------------------------------------------------------------------
(****************************************************************************)
(* Comparing types and values                                                *)
(****************************************************************************)

compare_type[pair \in Types \X Types] ==
  LET n == pair[1]
      o == pair[2]
  IN IF n.name = "" /\ o.name = ""
     THEN n.kind = o.kind /\ \A i \in DOMAIN n.parts : compare_type[<<n.parts[i], o.parts[i]>>]
     ELSE n.name = o.name

\* What comparing all parts of two values may say, given what comparing each may.
Every(outcomes) ==
  {b \in BOOLEAN : IF b THEN \A i \in DOMAIN outcomes : TRUE \in outcomes[i]
                        ELSE \E i \in DOMAIN outcomes : FALSE \in outcomes[i]}

\* Whether two values are the same may depend on where their nodes are in memory:
\* the entries of maps are paired in the order of their addresses.
Defaults == Values \cup {NULL}
compare_defaults[pair \in Defaults \X Defaults] ==
  LET n == pair[1]
      o == pair[2]
      Both(x, y) == compare_defaults[<<x, y>>]
  IN IF n = NULL \/ o = NULL THEN {n = o}
     ELSE IF n.cv # o.cv THEN {FALSE}
     ELSE IF n.cv \notin {"list", "map"} THEN {n.v = o.v}
     ELSE IF Len(n.v) # Len(o.v) THEN {FALSE}
     ELSE IF n.cv = "list" THEN Every([i \in DOMAIN n.v |-> Both(n.v[i], o.v[i])])
     ELSE UNION {Every([i \in DOMAIN n.v |->
                   Every(<<Both(n.v[i][1], o.v[p[i]][1]), Both(n.v[i][2], o.v[p[i]][2])>>)])
                 : p \in Bijection(DOMAIN n.v, DOMAIN o.v)}

-----------------------------------------------------------------------------
(****************************************************************************)
(* What is still to be done is a sequence of comparisons, each of an old     *)
(* definition with the new ones it may be among, or of the members of two    *)
(* structs, under way: the iterators i into the new ones and j into the old. *)
(****************************************************************************)
MergeFailures == {"removed", "required_added", "middle", "type", "requiredness"}
MergeWarnings == {"default", "field_name"}
MergeMessages == MergeFailures \cup MergeWarnings
Failures == MergeFailures \cup {"struct", "service", "extends", "function", "oneway", "return", "enum_value"}
Warnings == MergeWarnings \cup {"language", "enum", "enum_name", "const", "const_type", "const_value"}

Compare(kind, news, olds) == [k \in DOMAIN olds |-> [kind |-> kind, news |-> news, old |-> olds[k]]]
CompareMembers(news, olds) ==
  [kind |-> "members", news |-> news, olds |-> olds, i |-> 1, j |-> 1,
   said |-> [w \in MergeMessages |-> {}]]

Init ==
  /\ \E a \in Audits : new = a.new /\ old = a.old
  /\ g_warn \in {0, 1}
  /\ todo = <<[kind |-> "namespaces", news |-> new.namespaces, old |-> old.namespaces]>>
              \o Compare("service", new.services, old.services)
              \o Compare("enum", new.enums, old.enums)
              \o Compare("struct", new.structs, old.structs)
              \o Compare("struct", new.xceptions, old.xceptions)
              \o Compare("const", new.consts, old.consts)
  /\ printed = {} /\ g_return_failure = FALSE

Done == todo = <<>>
Item == Head(todo)
Doing(kind) == ~Done /\ Item.kind = kind
Then(items) == todo' = items \o Tail(todo)

\* thrift_audit_warning and thrift_audit_failure
Report(messages) ==
  /\ printed' = printed \cup {w \in messages : w \in Failures \/ g_warn >= 1}
  /\ g_return_failure' = (g_return_failure \/ messages \cap Failures # {})
  /\ UNCHANGED <<new, old, g_warn>>

\* The maps from names: a name given twice is the last one's.
Found == \E k \in DOMAIN Item.news : Item.news[k].name = Item.old.name
Counterpart ==
  Item.news[CHOOSE k \in DOMAIN Item.news :
              /\ Item.news[k].name = Item.old.name
              /\ \A l \in DOMAIN Item.news : Item.news[l].name = Item.old.name => l <= k]

compare_namespace ==
  /\ Doing("namespaces")
  /\ Report({"language" : l \in {l \in DOMAIN Item.old :
              l \notin DOMAIN Item.news \/ Item.news[l] # Item.old[l]}})
  /\ Then(<<>>)

Missing(kind) ==
  /\ Doing(kind) /\ ~Found
  /\ Report({kind})
  /\ Then(<<>>)

\* It is fine to add extends.
compare_services ==
  /\ Doing("service") /\ Found
  /\ Report({"extends" : x \in {Item.old.extends} \ {NULL, Counterpart.extends}})
  /\ Then(Compare("function", Counterpart.functions, Item.old.functions))

compare_single_function ==
  /\ Doing("function") /\ Found
  /\ LET n == Counterpart
         o == Item.old
     IN /\ Report({w \in {"oneway", "return"} :
                    IF w = "oneway" THEN n.oneway # o.oneway
                                    ELSE ~ compare_type[<<n.returns, o.returns>>]})
        /\ Then(<<CompareMembers(n.args, o.args), CompareMembers(n.throws, o.throws)>>)

\* get_constant_by_value gives the first name of a value.
NameOf(enum, v) ==
  LET Has(k) == enum.values[k].value = v IN
  enum.values[CHOOSE k \in DOMAIN enum.values : Has(k) /\ \A l \in 1..k - 1 : ~Has(l)].name
compare_enum_values ==
  /\ Doing("enum") /\ Found
  /\ LET present == {v.value : v \in Range(Counterpart.values)}
         olds == Range(Item.old.values)
     IN Report({"enum_value" : v \in {v \in olds : v.value \notin present}}
                \cup {"enum_name" : v \in {v \in olds : v.value \in present
                                             /\ NameOf(Counterpart, v.value) # v.name}})
  /\ Then(<<>>)

compare_structs ==
  /\ Doing("struct") /\ Found
  /\ Report({})
  /\ Then(<<CompareMembers(Counterpart.members, Item.old.members)>>)

compare_consts ==
  /\ Doing("const") /\ Found
  /\ IF ~ compare_type[<<Counterpart.type, Item.old.type>>] THEN Report({"const_type"})
     ELSE \E same \in compare_defaults[<<Counterpart.value, Item.old.value>>] :
            Report(IF same THEN {} ELSE {"const_value"})
  /\ Then(<<>>)

-----------------------------------------------------------------------------
(****************************************************************************)
(* compare_single_struct                                                     *)
(****************************************************************************)
AtNew == Item.i \in DOMAIN Item.news   \* not at the end
AtOld == Item.j \in DOMAIN Item.olds
NewField == Item.news[Item.i]
OldField == Item.olds[Item.j]
Required(f) == f.req = "T_REQUIRED"

Say(messages, key) ==
  [w \in MergeMessages |-> IF w \in messages THEN Item.said[w] \cup {key} ELSE Item.said[w]]

\* One turn of the loop: the messages, the id they are about and how far the
\* iterators move.
Turn(messages, key, di, dj) ==
  /\ Report(messages)
  /\ Then(<<[Item EXCEPT !.i = @ + di, !.j = @ + dj, !.said = Say(messages, key)]>>)

\* Mutant: the other list moves on as well.
FieldRemovedFromBoth ==
  /\ Doing("members") /\ AtOld
  /\ AtNew => NewField.key > OldField.key
  /\ Turn({"removed"}, OldField.key, IF AtNew THEN 1 ELSE 0, 1)

FieldRemoved ==
  /\ Doing("members") /\ AtOld
  /\ AtNew => NewField.key > OldField.key
  /\ Turn({"removed"}, OldField.key, 0, 1)

FieldAddedAtEnd ==
  /\ Doing("members") /\ AtNew /\ ~AtOld
  /\ Turn({"required_added" : f \in {f \in {NewField} : Required(f)}}, NewField.key, 1, 0)

\* Mutant: <= for <.
FieldAddedInMiddleOrSame ==
  /\ Doing("members") /\ AtNew /\ AtOld /\ NewField.key <= OldField.key
  /\ Turn({"middle"}, NewField.key, 1, 0)

FieldAddedInMiddle ==
  /\ Doing("members") /\ AtNew /\ AtOld /\ NewField.key < OldField.key
  /\ Turn({"middle"}, NewField.key, 1, 0)

\* Mutant: only a field that becomes required is noticed.
compare_struct_field_oneway ==
  /\ Doing("members") /\ AtNew /\ AtOld /\ NewField.key = OldField.key
  /\ Turn({w \in MergeMessages :
             \/ w = "type" /\ ~ compare_type[<<NewField.type, OldField.type>>]
             \/ w = "requiredness" /\ Required(NewField) /\ ~ Required(OldField)
             \/ w = "field_name" /\ NewField.name # OldField.name}, NewField.key, 1, 1)

\* A default does not matter where the field is required in both.
compare_struct_field ==
  /\ Doing("members") /\ AtNew /\ AtOld /\ NewField.key = OldField.key
  /\ \E same \in BOOLEAN :
       /\ same \in compare_defaults[<<NewField.value, OldField.value>>]
       /\ Turn({w \in MergeMessages :
                 \/ w = "type" /\ ~ compare_type[<<NewField.type, OldField.type>>]
                 \/ w = "requiredness" /\ ~ (Required(NewField) <=> Required(OldField))
                 \/ w = "default" /\ ~ same /\ ~ (Required(NewField) /\ Required(OldField))
                 \/ w = "field_name" /\ NewField.name # OldField.name}, NewField.key, 1, 1)

MembersCompared ==
  /\ Doing("members") /\ ~AtNew /\ ~AtOld
  /\ Report({}) /\ Then(<<>>)

Next ==
  \/ compare_namespace
  \/ \E kind \in {"service", "function", "enum", "struct", "const"} : Missing(kind)
  \/ compare_services \/ compare_single_function \/ compare_enum_values
  \/ compare_structs \/ compare_consts
  \/ FieldRemoved \/ FieldAddedAtEnd \/ FieldAddedInMiddle \/ compare_struct_field
  \/ MembersCompared

Spec == Init /\ [][Next]_vars

-----------------------------------------------------------------------------
(****************************************************************************)
(* What the audit promises                                                   *)
(****************************************************************************)
Keys(ms) == {ms[k].key : k \in DOMAIN ms}
At(ms, key) == ms[CHOOSE k \in DOMAIN ms : ms[k].key = key]

\* Walking two sorted lists at once (t_audit.cpp:263-302) says of every id just
\* what is true of it: which were removed, which were added, at the end as
\* required or in the middle, and which differ in type, requiredness, name or
\* default.
MembersExact(news, olds, said) ==
  LET added == Keys(news) \ Keys(olds)
      common == Keys(news) \cap Keys(olds)
      IsRequired(ms, k) == Required(At(ms, k))
      Sames(k) == compare_defaults[<<At(news, k).value, At(olds, k).value>>]
  IN /\ said["removed"] = Keys(olds) \ Keys(news)
     /\ said["middle"] = {k \in added : \E o \in Keys(olds) : k < o}
     /\ said["required_added"] = {k \in added : IsRequired(news, k) /\ \A o \in Keys(olds) : o < k}
     /\ said["type"] = {k \in common : ~ compare_type[<<At(news, k).type, At(olds, k).type>>]}
     /\ said["requiredness"] = {k \in common : ~ (IsRequired(news, k) <=> IsRequired(olds, k))}
     /\ said["field_name"] = {k \in common : At(news, k).name # At(olds, k).name}
     /\ \A k \in common : k \in said["default"] =>
          FALSE \in Sames(k) /\ ~ (IsRequired(news, k) /\ IsRequired(olds, k))
     /\ \A k \in common \ said["default"] :
          (IsRequired(news, k) /\ IsRequired(olds, k)) \/ TRUE \in Sames(k)

MergeIsExact ==
  Doing("members") /\ ~AtNew /\ ~AtOld => MembersExact(Item.news, Item.olds, Item.said)

\* What a reader built from `news' makes of data written from `olds', and the
\* other way round: the same ids hold the same things, the same fields have to be
\* there, and what is new may be missing.
Compatible(Same(_, _), news, olds) ==
  /\ \A o \in Range(olds) : \E n \in Range(news) :
       n.key = o.key /\ Same(n.type, o.type) /\ (Required(n) <=> Required(o))
  /\ \A n \in Range(news) :
       \/ n.key \in Keys(olds)
       \/ ~ Required(n) /\ \A k \in Keys(olds) : k < n.key

\* The pairs of struct definitions a program has for the same purpose.
Namesakes(news, olds) == {q \in Range(news) \X Range(olds) : q[1].name = q[2].name}
PairsIn(news, olds) == {<<q[1].members, q[2].members>> : q \in Namesakes(news, olds)}
FunctionPairs(news, olds) ==
  UNION {{<<q[1].args, q[2].args>>, <<q[1].throws, q[2].throws>>} : q \in Namesakes(news, olds)}
Pairs ==
  PairsIn(new.structs, old.structs) \cup PairsIn(new.xceptions, old.xceptions)
    \cup UNION {FunctionPairs(q[1].functions, q[2].functions) :
                  q \in Namesakes(new.services, old.services)}
NamesOf(defns) == {d.name : d \in Range(defns)}

\* On the wire a type is what its name stands for, down to its parts.
SameWire[pair \in Types \X Types] ==
  LET n == pair[1]
      o == pair[2]
  IN IF n.name # "" /\ o.name # "" THEN n.means = o.means
     ELSE /\ n.name = "" /\ o.name = "" /\ n.kind = o.kind
          /\ \A i \in DOMAIN n.parts : SameWire[<<n.parts[i], o.parts[i]>>]
Leaves[t \in Types] ==
  IF t.name # "" THEN {t} ELSE UNION {Leaves[t.parts[i]] : i \in DOMAIN t.parts}
NamesMeanTheSame ==
  \A pair \in Pairs : \A n \in Range(pair[1]), o \in Range(pair[2]) :
    \A a \in Leaves[n.type], b \in Leaves[o.type] : a.name = b.name => a.means = b.means
SameOnWire(n, o) == SameWire[<<n, o>>]

\* If the audit passes, programs of the two versions understand each other: no
\* struct, exception, service or function is gone, and every struct, argument list
\* and list of exceptions is compatible, as long as names stand for the same types
\* in both.
PassKeepsWire ==
  Done /\ ~g_return_failure /\ NamesMeanTheSame =>
    /\ NamesOf(old.structs) \subseteq NamesOf(new.structs)
    /\ NamesOf(old.xceptions) \subseteq NamesOf(new.xceptions)
    /\ \A o \in Range(old.services) : \E n \in Range(new.services) :
         n.name = o.name /\ NamesOf(o.functions) \subseteq NamesOf(n.functions)
    /\ \A pair \in Pairs : Compatible(SameOnWire, pair[1], pair[2])

Unordered[v \in Values] ==
  (v.cv = "map" /\ Len(v.v) >= 2) \/ \E w \in ValueParts(v) : Unordered[w]
MembersIn(p) ==
  {d.members : d \in Range(p.structs) \cup Range(p.xceptions)}
    \cup UNION {UNION {{f.args, f.throws} : f \in Range(s.functions)} : s \in Range(p.services)}
ValuesOf(p) ==
  {x.value : x \in Range(p.consts)}
    \cup ({f.value : f \in UNION {Range(ms) : ms \in MembersIn(p)}} \ {NULL})

\* The audit of a file against itself finds nothing, but for the second name of an
\* enum value and the entries of maps, which it pairs by their addresses.
SelfAuditIsSilent ==
  new = old =>
    /\ ~g_return_failure
    /\ "enum_name" \in printed => \E e \in Range(new.enums) : \E v, w \in Range(e.values) :
                                    v # w /\ v.value = w.value
    /\ printed \subseteq {"enum_name", "default", "const_value"}
    /\ printed \cap {"default", "const_value"} # {} => \E v \in ValuesOf(new) : Unordered[v]
=============================================================================
