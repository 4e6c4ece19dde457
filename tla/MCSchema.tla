------------------------------- MODULE MCSchema -------------------------------
(****************************************************************************)
(* Shorthands for the schemas and heaps of the MC modules.                   *)
(****************************************************************************)
EXTENDS SparsamSchema, TLC

\* An optional field, or an element (of no name).
Field(type, name) ==
  [ftype |-> type, klass |-> NULL, symName |-> name, isOptional |-> TRUE,
   elementType |-> NULL, keyType |-> NULL]
Required(f) == [f EXCEPT !.isOptional = FALSE]
StructField(k, name) == [Field("STRUCT", name) EXCEPT !.klass = k]
SequenceField(type, elem, name) == [Field(type, name) EXCEPT !.elementType = elem]
MapField(key, elem, name) ==
  [Field("MAP", name) EXCEPT !.keyType = key, !.elementType = elem]

NoIvars == [n \in Names |-> nil]
Ruby(type) == [type |-> type, klass |-> NULL, bits |-> 0, items |-> <<>>, ivars |-> NoIvars]
Instance(k, ivars) == [Ruby("object") EXCEPT !.klass = k, !.ivars = ivars @@ NoIvars]
Collection(type, items) == [Ruby(type) EXCEPT !.items = items]
SetOf(items) == [Collection("object", items) EXCEPT !.klass = SetClass]
Integer(bits) == [Ruby(IF bits <= 63 THEN "fixnum" ELSE "bignum") EXCEPT !.bits = bits]
=============================================================================
