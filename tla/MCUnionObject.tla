---------------------------- MODULE MCUnionObject ----------------------------
(****************************************************************************)
(* Unions that three threads share.                                          *)
(****************************************************************************)
EXTENDS UnionObject, TLC

\* No field and no thread is special.
Symmetry == Permutations(Fields) \cup Permutations(Threads)
=============================================================================
