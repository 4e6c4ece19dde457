---------------------------- MODULE UnionRegister ----------------------------
(****************************************************************************)
(* What a Sparsam::Union promises its caller: it holds at most one field and *)
(* its value.  Setting a field replaces the one it held; reading any other   *)
(* raises UnionException (spec/sparsam_spec.rb:300-314).                     *)
(****************************************************************************)
CONSTANTS Fields, Values, Threads, Nil, NULL

VARIABLES
  held,  \* NULL, or the field that is set and its value
  got    \* thread |-> what its last operation returned or raised

vars == <<held, got>>

Held == [field : Fields, value : Values]

\* new: empty, or with the field given to it.
Init ==
  /\ held \in {NULL} \cup Held
  /\ got = [t \in Threads |-> NULL]

Set(f, v) == held' = [field |-> f, value |-> v] /\ UNCHANGED got

\* union.f
Get(t, f) ==
  /\ got' = [got EXCEPT ![t] = IF held # NULL /\ held.field = f THEN held.value
                                                               ELSE "UnionException"]
  /\ UNCHANGED held

\* union.get_value
GetValue(t) ==
  /\ got' = [got EXCEPT ![t] = IF held # NULL THEN held.value ELSE Nil]
  /\ UNCHANGED held

Next ==
  \/ \E f \in Fields, v \in Values : Set(f, v)
  \/ \E t \in Threads : GetValue(t) \/ \E f \in Fields : Get(t, f)

Spec == Init /\ [][Next]_vars
=============================================================================
