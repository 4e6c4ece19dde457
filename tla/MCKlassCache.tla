---------------------------- MODULE MCKlassCache ----------------------------
(****************************************************************************)
(* A union, a struct that refers to it and to itself and has a default, and  *)
(* a program's own subclass of the union.                                    *)
(****************************************************************************)
EXTENDS KlassCache, TLC

CONSTANTS U, S, Sub, f, g

Sym == Permutations(Klass) \cup Permutations(Address)
Of(c) == [class |-> c, default |-> FALSE]
Defaulted == [class |-> NULL, default |-> TRUE]

MCVersions ==
  U :> {[super |-> "Union", fields |-> f :> Of(U)]}
  @@ S :> {[super |-> "Struct", fields |-> f :> Of(U) @@ g :> Defaulted],
           [super |-> "Struct", fields |-> f :> Of(S)]}
  @@ Sub :> {[super |-> U, fields |-> NULL], [super |-> S, fields |-> NULL]}
=============================================================================
