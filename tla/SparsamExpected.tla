---------------------------- MODULE SparsamExpected ----------------------------
(****************************************************************************)
(* What reading should give, computed from the writer's data and the two     *)
(* schemas alone.  A tree forgets identities: two references to one object   *)
(* are written, and read back, as two objects.                               *)
(****************************************************************************)
EXTENDS SparsamRoundTrip

Leaf(v) == [leaf |-> v]
Node(type, items) == [type |-> type, items |-> items]

\* nil, and a container whose elements have another type on the wire, leave the
\* default of the reader's class in place.
OrDefault(t, k, name) ==
  IF t = Leaf(nil) /\ k \notin Unions THEN Leaf(Defaults[k][name]) ELSE t

RECURSIVE Expected(_, _, _)

\* The value v, written as class wk, read as class rk.
ExpectedObject(wk, rk, v) ==
  LET Known(name) == {fid \in Fids(rk) \cap Present(heap, wk, v) :
                        FieldInfo[InfoOf(rk, fid)].symName = name}
      Value(name) ==
        IF Known(name) = {} THEN Leaf(nil)
        ELSE LET fid == CHOOSE i \in Known(name) : TRUE
                 w == InfoOf(wk, fid)
             IN Expected(w, InfoOf(rk, fid), IvarGet(heap, v, w))
  IN [klass |-> rk, fields |-> [n \in Names |-> OrDefault(Value(n), rk, n)]]

\* The value v, written by FieldInfo w, read by FieldInfo r.
Expected(w, r, v) ==
  LET wf == FieldInfo[w]
      rf == FieldInfo[r]
      items == heap[v].items
      Items == [i \in DOMAIN items |-> Expected(ItemInfo(w, i), ItemInfo(r, i), items[i])]
  IN CASE wf.ftype \in ScalarTypes -> Leaf(v)
       [] wf.ftype = "STRUCT" -> ExpectedObject(wf.klass, rf.klass, v)
       [] wf.ftype = "MAP" -> Node("MAP", Items)
       [] wf.ftype \in SequenceTypes ->
            IF FieldInfo[wf.elementType].ftype = FieldInfo[rf.elementType].ftype
            THEN Node(wf.ftype, Items) ELSE Leaf(nil)

\* What was read.
RECURSIVE Got(_)
Got(v) ==
  IF v \in VALUE THEN Leaf(v)
  ELSE LET o == mem[v] IN
       IF o.type = "object"
       THEN [klass |-> o.klass, fields |-> [n \in Names |-> Got(o.ivars[n])]]
       ELSE Node(o.type, [i \in DOMAIN o.items |-> Got(o.items[i])])

-----------------------------------------------------------------------------
\* What comes out is what went in, seen through the reader's class: fields it
\* knows have the value written, others their default, unknown ones are gone,
\* at every depth (spec/sparsam_spec.rb:30-89 and 286-298).
ReadsWhatWasWritten ==
  rres.st = "ok" /\ Understood => Got(ret[1]) = ExpectedObject(Klass, readerKlass, call.data)
=============================================================================
