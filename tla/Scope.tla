-------------------------------- MODULE Scope --------------------------------
(****************************************************************************)
(* What the names of a thrift file stand for (compiler/src/parse/t_scope.h), *)
(* and what becomes of its constants: resolve_const_value, the validation of *)
(* main.cc and render_const_value of the Ruby generator.                     *)
(*                                                                          *)
(* A type is [k |-> "base", of |-> name], a "list" or "set" of a type, a     *)
(* "map" with a key and a val, or a name: a "ref" to a definition read       *)
(* before it, or "forward", a typedef that is looked up when it is used.     *)
(* A t_const_value is [cv |-> its valType_, v |-> what it holds]; a map is a *)
(* sequence of pairs, an identifier a pair <<what is before the dot, name>>  *)
(* and has an enum_ too.                                                     *)
(****************************************************************************)
EXTENDS FieldLists, SequencesExt

CONSTANTS
  Escaped,   \* string with a newline, return or tab |-> what Ruby reads of it
  Digits     \* 10^6 in the code, see Shown

VARIABLES
  types_,       \* name |-> its definition
  constants_,   \* <<what is before the dot, name>> |-> [type, value]
  services_,    \* the names of services
  junk          \* what an int, a double or a pointer holds that nobody has set

scopeVars == <<types_, constants_, services_, junk>>

ScopeInit ==
  /\ types_ = [name \in {} |-> NULL]
  /\ constants_ = [id \in {} |-> NULL]
  /\ services_ = {}

\* FieldType: the definition, or a forward typedef.
RECURSIVE FieldType(_)
FieldType(expr) ==
  CASE expr.k = "base" -> expr
    [] expr.k = "name" ->
         [k |-> IF expr.of \in DOMAIN types_ THEN "ref" ELSE "forward", of |-> expr.of]
    [] expr.k \in {"list", "set"} -> [k |-> expr.k, of |-> FieldType(expr.of)]
    [] expr.k = "map" ->
         [k |-> "map", key |-> FieldType(expr.key), val |-> FieldType(expr.val)]

\* t_type::is_typedef, is_enum, is_struct ...
Kind(type) ==
  CASE type.k = "ref" -> types_[type.of].k
    [] type.k = "forward" -> "typedef"
    [] OTHER -> type.k

\* get_true_type.  t_typedef::get_type exits for a name that is not defined; a
\* chain of typedefs with more steps than there are definitions is a cycle.
RECURSIVE Unalias(_, _)
Unalias(type, steps) ==
  IF Kind(type) # "typedef" THEN type
  ELSE IF type.k = "forward" /\ type.of \notin DOMAIN types_
    THEN [k |-> "stuck", of |-> "exit"]
  ELSE IF steps = 0 THEN [k |-> "stuck", of |-> "loops"]
  ELSE Unalias(IF type.k = "forward" THEN [k |-> "ref", of |-> type.of]
               ELSE types_[type.of].type, steps - 1)

\* Mutant: a typedef of a typedef is taken for a cycle.
TrueTypeOfTypedef(type) == Unalias(type, 2)

TrueType(type) == Unalias(type, 2 * Cardinality(DOMAIN types_))

Integral == {"bool", "byte", "i16", "i32", "i64"}
Objects == {"struct", "union", "exception"}

Fields(type) == types_[type.of].fields
Named(type, name) == SelectSeq(Fields(type), LAMBDA f : f.name = name)
HasField(type, name) == Named(type, name) # <<>>
FieldTypeOf(type, name) == Named(type, name)[1].type
Enumerators(type) == types_[type.of].values

-----------------------------------------------------------------------------
(****************************************************************************)
(* The getters of t_const_value.  Its slots are initialized to nothing or    *)
(* not at all, and a getter does not ask which one is in use.                *)
(****************************************************************************)
Int64(n) == [cv |-> "int", v |-> n]
Broken(how) == [cv |-> "broken", v |-> how]   \* "throw", "exit", "crash", "loops"
IsBroken(c) == c.cv = "broken"

get_string(c) == IF c.cv = "string" THEN c.v ELSE ""
get_list(c) == IF c.cv = "list" THEN c.v ELSE <<>>
get_map(c) == IF c.cv = "map" THEN c.v ELSE <<>>
get_double(c) == IF c.cv = "double" THEN c.v ELSE junk
get_integer(c) ==
  CASE c.cv = "int" -> c
    [] c.cv = "identifier" ->
         IF c.enum_ = NULL
         THEN Broken(IF junk = 0 THEN "throw" ELSE "crash")
         ELSE LET same == SelectSeq(types_[c.enum_].values, LAMBDA e : e.name = c.v[2])
              IN IF same = <<>> THEN Broken("throw") ELSE Int64(same[1].value)
    [] OTHER -> Int64(junk)

\* c with these parts, unless one of them could not be made.
With(c, parts, made) ==
  LET bad == SelectSeq(parts, IsBroken) IN IF bad # <<>> THEN bad[1] ELSE made

\* The value of the constant an identifier names, by the type of the constant.
\* A constant that is an enum, a set or an object is left alone.
Copied(c, constant) ==
  LET type == TrueType(constant.type)
      value == constant.value
  IN CASE type.k = "stuck" -> Broken(type.of)
       [] type.k = "base" ->
            IF type.of \in Integral THEN get_integer(value)
            ELSE IF type.of = "double" THEN [cv |-> "double", v |-> get_double(value)]
            ELSE [cv |-> "string", v |-> get_string(value)]
       [] type.k = "map" -> [cv |-> "map", v |-> get_map(value)]
       [] type.k = "list" -> [cv |-> "list", v |-> get_list(value)]
       [] OTHER -> c

\* t_scope::resolve_const_value, by the declared type and not its true type.
RECURSIVE Resolved(_, _)
Resolved(c, type) ==
  LET kind == Kind(type)
      Pairs(OnKey(_), OnVal(_, _)) ==
        LET pairs == [i \in DOMAIN get_map(c) |->
                        <<OnKey(c.v[i][1]), OnVal(c.v[i][1], c.v[i][2])>>]
        IN With(c, FlattenSeq(pairs), IF c.cv = "map" THEN [c EXCEPT !.v = pairs] ELSE c)
      Items(Item(_)) ==
        LET items == [i \in DOMAIN get_list(c) |-> Item(c.v[i])]
        IN With(c, items, IF c.cv = "list" THEN [c EXCEPT !.v = items] ELSE c)
  IN CASE kind = "map" ->
            Pairs(LAMBDA k : Resolved(k, type.key), LAMBDA k, v : Resolved(v, type.val))
       [] kind \in {"list", "set"} -> Items(LAMBDA item : Resolved(item, type.of))
       [] kind \in {"struct", "union"} ->
            Pairs(LAMBDA k : k,
                  LAMBDA k, v : IF HasField(type, get_string(k))
                                THEN Resolved(v, FieldTypeOf(type, get_string(k)))
                                ELSE Broken("throw"))
       [] c.cv = "identifier" /\ kind = "enum" -> [c EXCEPT !.enum_ = type.of]
       [] c.cv = "identifier" /\ kind # "enum" ->
            IF c.v \in DOMAIN constants_ THEN Copied(c, constants_[c.v])
            ELSE Broken("throw")
       [] c.cv # "identifier" /\ kind = "enum" ->
            LET n == get_integer(c)
                same == SelectSeq(Enumerators(type), LAMBDA e : e.value = n.v)
            IN IF same = <<>> THEN Broken("throw")
               ELSE [cv |-> "identifier", v |-> <<type.of, same[1].name>>, enum_ |-> type.of]
       [] OTHER -> c

\* validate_const_rec, by the declared type too.
RECURSIVE IsValid(_, _)
IsValid(c, type) ==
  LET kind == Kind(type) IN
  CASE kind = "base" ->
         c.cv \in IF type.of \in Integral THEN {"int"}
                  ELSE IF type.of = "double" THEN {"int", "double"} ELSE {"string"}
    [] kind = "enum" ->
         /\ c.cv = "identifier" /\ c.v[1] # NULL
         /\ \E i \in DOMAIN Enumerators(type) : Enumerators(type)[i].name = c.v[2]
    [] kind \in Objects ->
         /\ c.cv = "map"
         /\ \A i \in DOMAIN c.v :
              /\ c.v[i][1].cv = "string"
              /\ HasField(type, c.v[i][1].v)
              /\ IsValid(c.v[i][2], FieldTypeOf(type, c.v[i][1].v))
    [] kind = "map" ->
         \A i \in DOMAIN get_map(c) :
           IsValid(c.v[i][1], type.key) /\ IsValid(c.v[i][2], type.val)
    [] kind \in {"list", "set"} ->
         \A i \in DOMAIN get_list(c) : IsValid(c.v[i], type.of)
    [] OTHER -> TRUE

\* A constant or a default as it is kept, or how the compiler ends instead.
Checked(c, type) ==
  LET r == Resolved(c, type)
  IN IF IsBroken(r) \/ IsValid(r, type) THEN r ELSE Broken("throw")

-----------------------------------------------------------------------------
(****************************************************************************)
(* render_const_value: Ruby's value, as a pair of what it is and its content, *)
(* by the true type.  An error is a pair too, <<"broken", how>>.             *)
(****************************************************************************)
Rendered1(parts, made) ==
  LET bad == SelectSeq(parts, LAMBDA r : r[1] = "broken")
  IN IF bad # <<>> THEN bad[1] ELSE made
RenderedInt(c, Made(_)) ==
  LET n == get_integer(c) IN IF IsBroken(n) THEN <<"broken", n.v>> ELSE Made(n.v)

\* get_escaped_string between %q"...", where Ruby keeps the backslash of "\n".
Quoted(str) == IF str \in DOMAIN Escaped THEN Escaped[str] ELSE str

\* A double, in tenths, as operator<< prints it: six digits, and no point if
\* there is nothing after it, which makes it an Integer in Ruby.
Shown(x) ==
  LET r == IF x < Digits THEN x ELSE 10 * ((x + 5) \div 10)
  IN IF r % 10 = 0 THEN <<"int", r \div 10>> ELSE <<"double", r>>

RECURSIVE Rendered(_, _)
Rendered(c, declared) ==
  LET type == TrueType(declared)
      kind == Kind(type)
      items == [i \in DOMAIN get_list(c) |-> Rendered(c.v[i], type.of)]
  IN CASE kind = "stuck" -> <<"broken", type.of>>
       [] kind = "base" ->
            CASE type.of = "bool" -> RenderedInt(c, LAMBDA n : <<"bool", n > 0>>)
              [] type.of \in Integral \ {"bool"} -> RenderedInt(c, LAMBDA n : <<"int", n>>)
              [] type.of = "double" /\ c.cv = "int" -> <<"int", c.v>>
              [] type.of = "double" /\ c.cv # "int" -> Shown(get_double(c))
              [] OTHER -> <<"string", Quoted(get_string(c))>>
       [] kind = "enum" -> RenderedInt(c, LAMBDA n : <<"int", n>>)
       [] kind \in Objects ->
            LET pairs == [i \in DOMAIN get_map(c) |->
                  LET name == get_string(c.v[i][1])
                  IN <<<<"string", name>>,
                       IF HasField(type, name) THEN Rendered(c.v[i][2], FieldTypeOf(type, name))
                       ELSE <<"broken", "throw">> >>]
            IN Rendered1(FlattenSeq(pairs), <<"new", type.of, ToSet(pairs)>>)
       [] kind = "map" ->
            LET pairs == [i \in DOMAIN get_map(c) |->
                  <<Rendered(c.v[i][1], type.key), Rendered(c.v[i][2], type.val)>>]
            IN Rendered1(FlattenSeq(pairs), <<"hash", ToSet(pairs)>>)
       [] kind = "list" -> Rendered1(items, <<"list", items>>)
       [] kind = "set" -> Rendered1(items, <<"set", ToSet(items)>>)

=============================================================================
