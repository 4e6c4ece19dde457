---------------------------- MODULE SparsamSchema ----------------------------
(****************************************************************************)
(* The two data structures the native serializer walks side by side:        *)
(*   - the FieldInfo graph that CreateFieldInfoMap builds from a generated   *)
(*     class's FIELDS constant (ext/serializer.h, struct FieldInfo), and     *)
(*   - the Ruby object graph the caller hands in.                            *)
(* A Ruby VALUE is opaque here, as it is in C; what the extension can ask    *)
(* about it (its built-in type, its class, its instance variables, its       *)
(* elements) is the record the heap associates with it.                      *)
(****************************************************************************)
EXTENDS Integers, Sequences, FiniteSets

CONSTANTS
  Klasses,       \* generated classes: structs, exceptions and unions
  Unions,        \* those that inherit Sparsam::Union
  Names,         \* field names (symName; the ivar is "@" followed by it)
  Infos,         \* FieldInfo nodes (pointers)
  FieldInfo,     \* what each node holds
  FieldInfoMap,  \* klass |-> (field id |-> node)
  VALUE,         \* Ruby values
  SetClass,      \* Ruby's Set
  nil,           \* Qnil
  NULL           \* a C null pointer, or "no such thing"

ScalarTypes == {"BOOL", "BYTE", "DOUBLE", "I16", "I32", "I64", "STRING"}
SequenceTypes == {"LIST", "SET"}
TType == ScalarTypes \cup SequenceTypes \cup {"MAP", "STRUCT"}

FieldInfoRecord ==
  [ ftype       : TType,
    klass       : Klasses \cup {NULL},
    symName     : Names \cup {NULL},
    isOptional  : BOOLEAN,
    elementType : Infos \cup {NULL},
    keyType     : Infos \cup {NULL} ]

\* CreateFieldInfo fills in exactly the pointers its ftype calls for, or raises.
WellFormedInfo(i) ==
  LET f == FieldInfo[i] IN
  /\ f \in FieldInfoRecord
  /\ f.ftype \in SequenceTypes \cup {"MAP"} <=> f.elementType \in Infos
  /\ f.ftype = "MAP" <=> f.keyType \in Infos
  /\ f.ftype = "STRUCT" <=> f.klass \in Klasses

ASSUME SchemaAssumption ==
  /\ Unions \subseteq Klasses
  /\ nil \in VALUE
  /\ NULL \notin Klasses \cup Names \cup Infos
  /\ SetClass \notin Klasses
  /\ \A i \in Infos : WellFormedInfo(i)
  /\ DOMAIN FieldInfoMap = Klasses
  /\ \A k \in Klasses :
       /\ DOMAIN FieldInfoMap[k] \subseteq Int
       /\ IsFiniteSet(DOMAIN FieldInfoMap[k])
       /\ \A fid \in DOMAIN FieldInfoMap[k] :
            /\ FieldInfoMap[k][fid] \in Infos
            /\ FieldInfo[FieldInfoMap[k][fid]].symName \in Names

Fids(k) == DOMAIN FieldInfoMap[k]
InfoOf(k, fid) == FieldInfoMap[k][fid]

(****************************************************************************)
(* What the extension can see of a Ruby value.  "bits" is the number of bits *)
(* the two's complement representation of an Integer needs: a Fixnum needs   *)
(* at most 63 of them, anything wider is a Bignum.  The elements of a Hash   *)
(* are its keys and values, alternating, in insertion order.                 *)
(****************************************************************************)
RubyType == {"nil", "true", "false", "fixnum", "bignum", "float", "string",
             "array", "hash", "object"}

HeapRecord ==
  [ type  : RubyType,
    klass : Klasses \cup {SetClass, NULL},   \* rb_class_real(CLASS_OF(v))
    bits  : Nat,
    items : Seq(VALUE),
    ivars : [Names -> VALUE] ]

IsHeap(h) ==
  /\ h \in [VALUE -> HeapRecord]
  /\ h[nil].type = "nil"
  /\ \A v \in VALUE : /\ h[v].type = "hash" => Len(h[v].items) % 2 = 0
                      /\ h[v].type = "fixnum" => h[v].bits <= 63
                      /\ h[v].type = "bignum" => h[v].bits > 63

\* rb_ivar_get: an unset instance variable reads as nil.
IvarGet(h, data, info) == h[data].ivars[FieldInfo[info].symName]
=============================================================================
