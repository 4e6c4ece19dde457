----------------------------- MODULE FieldLists -----------------------------
(****************************************************************************)
(* The lists of fields of a thrift file: the grammar's actions for FieldList, *)
(* Field, FieldIdentifier and FieldRequiredness (compiler/src/thrifty.yy) and *)
(* the t_struct they fill (compiler/src/parse/t_struct.h).  Lists nest: a     *)
(* field may have a list of XML attributes.                                  *)
(****************************************************************************)
EXTENDS Integers, Sequences, FiniteSets

CONSTANTS
  Decls,   \* the declarations of fields that may be met
  Int32,   \* how many values an int32_t has, 2^32
  NULL

Reqs == {"T_REQUIRED", "T_OPTIONAL", "T_OPT_IN_REQ_OUT"}
Kinds == {"struct", "union", "exception", "args", "throws"}

ASSUME DeclsAssumption ==
  \A decl \in Decls : /\ decl.id \in Int \cup {NULL}
                      /\ decl.req \in Reqs
ASSUME Int32Assumption == Int32 \in Nat /\ Int32 > 1
ASSUME NullAssumption == NULL \notin Int

VARIABLES
  g_allow_neg_field_keys, g_strict,   \* options
  g_arglist,      \* whether the fields are arguments or exceptions of a function
  y_field_val,    \* the next id to be given
  lists,          \* the field lists being read, the innermost first
  structs,        \* those that are complete
  status          \* "parse" until the compiler gives up or has read everything

options == <<g_allow_neg_field_keys, g_strict>>
listVars == <<options, g_arglist, y_field_val, lists, structs, status>>

\* static_cast<int32_t>, for an int32_t of that many values.
Cast(n) == ((n + Int32 \div 2) % Int32) - Int32 \div 2

Top == lists[1]
Pending == Top.pending
SetTop(list) == lists' = <<list>> \o Tail(lists)

\* The values y_field_val and g_arglist have before any list is read.
ListInit ==
  /\ g_allow_neg_field_keys \in BOOLEAN /\ g_strict \in BOOLEAN
  /\ g_arglist = FALSE
  /\ y_field_val = -1
  /\ lists = <<>> /\ structs = <<>>
  /\ status = "parse"

-----------------------------------------------------------------------------
(****************************************************************************)
(* The fields of a service's functions are those between FlagArgs and         *)
(* UnflagArgs.                                                               *)
(****************************************************************************)
FlagArgs ==
  /\ status = "parse" /\ lists = <<>>
  /\ g_arglist' = TRUE
  /\ UNCHANGED <<options, y_field_val, lists, structs, status>>

UnflagArgs ==
  /\ status = "parse" /\ lists = <<>>
  /\ g_arglist' = FALSE
  /\ UNCHANGED <<options, y_field_val, lists, structs, status>>

\* The empty FieldList, of a definition or of a field's XML attributes.  A field
\* is pending from its identifier on until the rest of it has been read.
OpenList ==
  /\ status = "parse"
  /\ lists # <<>> => Pending # NULL /\ ~Pending.attrs
  /\ y_field_val' = -1
  /\ LET outer == IF lists = <<>> THEN lists
                  ELSE <<[Top EXCEPT !.pending.attrs = TRUE]>> \o Tail(lists)
     IN lists' = <<[members |-> <<>>, members_in_id_order |-> <<>>,
                    pending |-> NULL]>> \o outer
  /\ UNCHANGED <<options, g_arglist, structs, status>>

\* FieldIdentifier: ids the user gives count, nonpositive ones if allowed.
IsExplicit(decl) == decl.id # NULL /\ (decl.id > 0 \/ g_allow_neg_field_keys)
Key(decl) == IF IsExplicit(decl) THEN Cast(decl.id) ELSE y_field_val

\* Mutant: the next implicit id is the same.
NextFieldValStays(decl) ==
  IF ~IsExplicit(decl) \/ decl.id > 0 THEN y_field_val ELSE Cast(decl.id - 1)

NextFieldVal(decl) ==
  IF ~IsExplicit(decl) THEN Cast(y_field_val - 1)
  ELSE IF decl.id > 0 THEN y_field_val ELSE Cast(decl.id - 1)

\* FieldRequiredness: no argument is optional.
Requiredness(decl) ==
  IF g_arglist /\ decl.req = "T_OPTIONAL" THEN "T_OPT_IN_REQ_OUT" ELSE decl.req

ReadIdentifier(decl) ==
  /\ status = "parse" /\ lists # <<>> /\ Pending = NULL
  /\ SetTop([Top EXCEPT !.pending =
       [key |-> Key(decl), req |-> Requiredness(decl), decl |-> decl, attrs |-> FALSE]])
  /\ y_field_val' = NextFieldVal(decl)
  /\ UNCHANGED <<options, g_arglist, structs, status>>

-----------------------------------------------------------------------------
(****************************************************************************)
(* t_struct::append.  The members are kept in the order they were read, and  *)
(* in the order of their ids by a binary search that relies on that order.   *)
(****************************************************************************)
SameName(f, g) == f.decl.name = g.decl.name

\* Mutant: the list is not searched.
UpperBoundAtEnd(s, key) == Len(s) + 1

\* The end of std::equal_range: where the first greater key is.
UpperBound(s, key) ==
  CHOOSE i \in 1..(Len(s) + 1) :
    /\ \A j \in 1..(i - 1) : s[j].key <= key
    /\ i <= Len(s) => s[i].key > key

\* The id or the name "has already been used".
Clashes(list, f) ==
  LET sorted == list.members_in_id_order
      bound == UpperBound(sorted, f.key)
  IN \/ bound > 1 /\ sorted[bound - 1].key = f.key
     \/ \E i \in 1..Len(sorted) : SameName(sorted[i], f)

Insert(s, i, f) ==
  [j \in 1..(Len(s) + 1) |-> IF j < i THEN s[j] ELSE IF j = i THEN f ELSE s[j - 1]]

IsDeprecated(f) == g_strict /\ ~IsExplicit(f.decl)

AppendField ==
  /\ status = "parse" /\ lists # <<>> /\ Pending # NULL
  /\ ~IsDeprecated(Pending) /\ ~Clashes(Top, Pending)
  /\ LET sorted == Top.members_in_id_order
     IN SetTop([members |-> Append(Top.members, Pending), pending |-> NULL,
                members_in_id_order |->
                  Insert(sorted, UpperBound(sorted, Pending.key), Pending)])
  /\ UNCHANGED <<options, g_arglist, y_field_val, structs, status>>

\* The end of a list of attributes.
CloseList ==
  /\ status = "parse" /\ lists # <<>> /\ Pending = NULL /\ Len(lists) > 1
  /\ lists' = Tail(lists)
  /\ UNCHANGED <<options, g_arglist, y_field_val, structs, status>>

\* Mutant: a required member stays required.
ValidateNothing(f) == f

\* set_union, then set_name: validate_union_member of every member.
ValidateUnionMember(f) ==
  [key |-> f.key, decl |-> f.decl, attrs |-> f.attrs,
   req |-> IF f.req = "T_REQUIRED" THEN "T_OPTIONAL" ELSE f.req]

AsMember(kind, f) == IF kind = "union" THEN ValidateUnionMember(f) ELSE f
Members(kind, s) == [i \in 1..Len(s) |-> AsMember(kind, s[i])]
MembersWithValue(list) ==
  {i \in 1..Len(list.members) : list.members[i].decl.value # NULL}

\* The end of the list of a struct, a union, an exception or a function.
CloseStruct(kind) ==
  /\ status = "parse" /\ Len(lists) = 1 /\ Pending = NULL
  /\ kind = "union" => Cardinality(MembersWithValue(Top)) <= 1
  /\ structs' = Append(structs,
       [kind |-> kind, members |-> Members(kind, Top.members),
        members_in_id_order |-> Members(kind, Top.members_in_id_order)])
  /\ lists' = <<>>
  /\ UNCHANGED <<options, g_arglist, y_field_val, status>>

\* The parser gives up or has read the file; what follows is not its business.
EndParse(outcome) ==
  /\ status' = outcome
  /\ UNCHANGED <<options, g_arglist, y_field_val, lists, structs>>

Finals == {"failure", "loops", "crash", "error printed", "load error", "loaded"}
Outcomes == Finals \cup {"generate", "load"}

ListNext ==
  \/ FlagArgs
  \/ UnflagArgs
  \/ OpenList
  \/ \E decl \in Decls : ReadIdentifier(decl)
  \/ AppendField
  \/ CloseList
  \/ \E kind \in Kinds : CloseStruct(kind)
  \/ \E outcome \in Outcomes : EndParse(outcome)

ListSpec == ListInit /\ [][ListNext]_listVars

-----------------------------------------------------------------------------
InIdOrder(s) ==
  \A i, j \in 1..Len(s) : i < j => s[i].key < s[j].key
Elements(s) == {s[i] : i \in 1..Len(s)}
IsConsistent(list) ==
  /\ InIdOrder(list.members_in_id_order)
  /\ Elements(list.members_in_id_order) = Elements(list.members)
  /\ \A i, j \in 1..Len(list.members) : i # j =>
       /\ list.members[i].key # list.members[j].key
       /\ ~SameName(list.members[i], list.members[j])

\* t_struct::append's search assumes that members_in_id_order_ is in id order,
\* which implicit ids count down from and explicit ones jump about in; were it
\* not, an id could be used twice unnoticed.  In every list, being read or
\* complete, nested or not, both orders have the same members, and no two
\* members share an id or a name.
ListsAreConsistent ==
  /\ \A n \in 1..Len(lists) : IsConsistent(lists[n])
  /\ \A n \in 1..Len(structs) : IsConsistent(structs[n])

=============================================================================
