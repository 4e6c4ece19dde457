---------------------------- MODULE SparsamWriter ----------------------------
(****************************************************************************)
(* ThriftSerializer::writeStruct / writeAny and their entry points           *)
(* (ext/serializer.cpp): one serialization of one Ruby object, as the        *)
(* machine whose stack is the C++ call stack.                                *)
(*                                                                          *)
(* The code keeps no memory of the objects it has visited, so the recursion  *)
(* is as deep as the object graph; MaxDepth is the C stack.                  *)
(****************************************************************************)
EXTENDS SparsamSchema

CONSTANTS
  Heaps,     \* the object graphs a caller may present
  Calls,     \* the calls it may make
  MaxDepth   \* frames that fit on the C stack

\* Serializer#serialize(klass, data), data.serialize, and
\* Sparsam.validate(klass, data, strictness).
Modes == {"NORMAL", "STRICT", "RECURSIVE"}
Call == [fn : {"Serializer#serialize", "serialize", "validate"},
         klass : Klasses \cup {NULL}, data : VALUE, mode : Modes \cup {NULL}]

ASSUME WriterAssumption ==
  /\ MaxDepth \in Nat
  /\ \A h \in Heaps : IsHeap(h)
  /\ Calls \subseteq Call
  /\ \A c \in Calls, h \in Heaps :
       IF c.fn = "Serializer#serialize" THEN c.klass \in Klasses
                                        ELSE h[c.data].klass \in Klasses

VARIABLES
  heap,     \* the caller's objects; serialization only reads them
  call,     \* the call being served
  stack,    \* the C++ call stack, innermost frame last
  out,      \* what was written to the TMemoryBuffer, as protocol events
  res,      \* how the call ended, or that it has not
  visited   \* history: the writeAny/writeStruct activations that passed their
            \* checks

vars == <<heap, call, stack, out, res, visited>>

(****************************************************************************)
(* An activation is a writeAny(info->ftype, info, val) or a                  *)
(* writeStruct(klass, val); the two are told apart by which of info and      *)
(* klass is NULL.                                                            *)
(****************************************************************************)
AnyOf(info, val) == [info |-> info, klass |-> NULL, val |-> val]
StructOf(klass, val) == [info |-> NULL, klass |-> klass, val |-> val]

Activation == [info : Infos, klass : {NULL}, val : VALUE]
              \cup [info : {NULL}, klass : Klasses, val : VALUE]

\* The fields writeStruct writes: those whose instance variable is not nil.
Present(h, k, data) == {fid \in Fids(k) : IvarGet(h, data, InfoOf(k, fid)) # nil}

\* The fields checkRequiredFields complains of.
Missing(h, k, data) ==
  {fid \in Fids(k) : ~FieldInfo[InfoOf(k, fid)].isOptional} \ Present(h, k, data)

\* A std::map is walked in ascending key order, an array from its first element.
IsFirst(i, S) == i \in S /\ \A j \in S : i <= j

(****************************************************************************)
(* The conversions of writeAny: CONVERT_FIXNUM, CONVERT_I64, CONVERT_FLOAT,  *)
(* convertBool, byte_convert, SPARSAM_CHECK_TYPE and the two class checks.   *)
(* A Bignum is out of range for every width but 64, where rb_big2ll decides. *)
(****************************************************************************)
Width == [BYTE |-> 8, I16 |-> 16, I32 |-> 32, I64 |-> 64]

Convert(h, info, val) ==
  LET f == FieldInfo[info]
      v == h[val]
      Expect(ok) == IF ok THEN "ok" ELSE "TypeMismatch"
  IN CASE f.ftype \in DOMAIN Width ->
            IF v.type \notin {"fixnum", "bignum"} THEN "TypeMismatch"
            ELSE IF v.bits <= Width[f.ftype] THEN "ok" ELSE "RangeError"
       [] f.ftype = "BOOL"   -> Expect(v.type \in {"true", "false"})
       [] f.ftype = "DOUBLE" -> Expect(v.type = "float")
       [] f.ftype = "STRING" -> Expect(v.type = "string")
       [] f.ftype = "LIST"   -> Expect(v.type = "array")
       [] f.ftype = "MAP"    -> Expect(v.type = "hash")
       [] f.ftype = "SET"    -> Expect(v.klass = SetClass)
       [] f.ftype = "STRUCT" -> Expect(v.klass = f.klass)

\* What an activation checks before it writes anything of its value.
Verdict(h, a) ==
  IF a.klass = NULL THEN Convert(h, a.info, a.val)
  ELSE IF Missing(h, a.klass, a.val) = {} THEN "ok" ELSE "MissingMandatory"

(****************************************************************************)
(* The activations an activation makes, one per slot: writeStruct's slots    *)
(* are its present fields, a container's are the positions of its elements,  *)
(* and writeAny on a struct makes the one call of writeStruct.               *)
(****************************************************************************)
TheStruct == 0

Slots(h, a) ==
  IF a.klass # NULL THEN Present(h, a.klass, a.val)
  ELSE IF FieldInfo[a.info].ftype \in ScalarTypes THEN {}
  ELSE IF FieldInfo[a.info].ftype = "STRUCT" THEN {TheStruct}
  ELSE DOMAIN h[a.val].items

\* Mutant: every container is taken for a map.
ItemInfoAlternates(info, i) ==
  IF i % 2 = 1 THEN FieldInfo[info].keyType ELSE FieldInfo[info].elementType

\* Keys sit at the odd positions of a hash's items, values at the even ones.
ItemInfo(info, i) ==
  IF FieldInfo[info].ftype = "MAP" /\ i % 2 = 1
  THEN FieldInfo[info].keyType ELSE FieldInfo[info].elementType

Callee(h, a, i) ==
  IF a.klass # NULL
  THEN AnyOf(InfoOf(a.klass, i), IvarGet(h, a.val, InfoOf(a.klass, i)))
  ELSE IF FieldInfo[a.info].ftype = "STRUCT"
  THEN StructOf(FieldInfo[a.info].klass, a.val)
  ELSE AnyOf(ItemInfo(a.info, i), h[a.val].items[i])

Callees(h, a) == {Callee(h, a, i) : i \in Slots(h, a)}

(****************************************************************************)
(* Stack frames.  A frame is "called" until it has made its checks and then  *)
(* "looping" over the slots in rest; at is the slot it is busy with (0       *)
(* before the first).  outer and sym are writeAny's outer_struct and         *)
(* field_sym, which only go into the message of an exception.                *)
(****************************************************************************)
Frame == [pc : {"called", "looping"}, act : Activation, rest : SUBSET Int,
          at : Int, outer : VALUE, sym : Names \cup {NULL}]

\* Mutant: field_sym is not handed down.
NewFrameWithoutSym(a, outer, sym) ==
  [pc |-> "called", act |-> a, rest |-> {}, at |-> 0, outer |-> outer, sym |-> NULL]

NewFrame(a, outer, sym) ==
  [pc |-> "called", act |-> a, rest |-> {}, at |-> 0, outer |-> outer, sym |-> sym]

Top == stack[Len(stack)]
Pop == SubSeq(stack, 1, Len(stack) - 1)
WithTop(f) == [stack EXCEPT ![Len(stack)] = f]

(****************************************************************************)
(* Protocol events.  A field header carries its id and, when the compact     *)
(* protocol would write the short form, the distance to the previous id of   *)
(* the same struct; delta = 0 is the long form.                              *)
(****************************************************************************)
FieldBegin(info, fid, previous) ==
  [ev |-> "field", type |-> FieldInfo[info].ftype, fid |-> fid,
   delta |-> IF fid - previous \in 1..15 THEN fid - previous ELSE 0]
FieldStop == [ev |-> "stop"]
ListBegin(info, size) ==
  [ev |-> "list", elem |-> FieldInfo[FieldInfo[info].elementType].ftype, size |-> size]
MapBegin(info, size) ==
  [ev |-> "map", key |-> FieldInfo[FieldInfo[info].keyType].ftype,
   elem |-> FieldInfo[FieldInfo[info].elementType].ftype, size |-> size]
Scalar(info, val) == [ev |-> "scalar", type |-> FieldInfo[info].ftype, val |-> val]

WireEvent ==
       [ev : {"field"}, type : TType, fid : Int, delta : 0..15]
  \cup [ev : {"stop"}]
  \cup [ev : {"list"}, elem : TType, size : Nat]
  \cup [ev : {"map"}, key : TType, elem : TType, size : Nat]
  \cup [ev : {"scalar"}, type : ScalarTypes, val : VALUE]

\* What an activation writes before its slots.  A set is written as a list.
Header(h, a) ==
  IF a.klass # NULL \/ FieldInfo[a.info].ftype = "STRUCT" THEN <<>>
  ELSE LET size == Len(h[a.val].items) IN
       CASE FieldInfo[a.info].ftype \in ScalarTypes -> <<Scalar(a.info, a.val)>>
         [] FieldInfo[a.info].ftype \in SequenceTypes -> <<ListBegin(a.info, size)>>
         [] FieldInfo[a.info].ftype = "MAP" -> <<MapBegin(a.info, size \div 2)>>

\* What it writes before a slot, and after the last one.
SlotHeader(f, i) ==
  IF f.act.klass = NULL THEN <<>>
  ELSE <<FieldBegin(InfoOf(f.act.klass, i), i, f.at)>>
Trailer(a) == IF a.klass = NULL THEN <<>> ELSE <<FieldStop>>

(****************************************************************************)
(* How a call ends.  struct and field are the attributes of the exception;   *)
(* culprit is history: the activation whose check failed.                    *)
(****************************************************************************)
Outcome == {"called", "running", "ok", "raised", "StackOverflow"}
Exceptions == {"TypeMismatch", "MissingMandatory", "RangeError"}

ASSUME NullIsNoException == NULL \notin Exceptions

Result == [st : Outcome, exc : Exceptions \cup {NULL},
           struct : Klasses \cup {SetClass, NULL}, field : Names \cup {NULL},
           culprit : Activation \cup {NULL}]

Pending == [st |-> "called", exc |-> NULL, struct |-> NULL, field |-> NULL,
            culprit |-> NULL]
Raised(exc, struct, field, culprit) ==
  [st |-> "raised", exc |-> exc, struct |-> struct, field |-> field,
   culprit |-> culprit]

\* serializer_writeStruct's klass: BaseType#serialize passes the object's own
\* class, and so does Sparsam.validate, whose klass and mode go unused.
Klass == IF call.fn = "Serializer#serialize" THEN call.klass
                                             ELSE heap[call.data].klass
Root == StructOf(Klass, call.data)

-----------------------------------------------------------------------------
Init ==
  /\ heap \in Heaps
  /\ call \in Calls
  /\ stack = <<>>
  /\ out = <<>>
  /\ res = Pending
  /\ visited = {}

\* serializer_writeStruct up to its call of writeStruct.
SerializeBegin ==
  /\ res.st = "called"
  /\ IF heap[call.data].klass = Klass
     THEN /\ res' = [res EXCEPT !.st = "running"]
          /\ stack' = <<NewFrame(Root, call.data, NULL)>>
     ELSE /\ res' = Raised("TypeMismatch", heap[call.data].klass, NULL, Root)
          /\ UNCHANGED stack
  /\ UNCHANGED <<heap, call, out, visited>>

\* Mutant: only the top-level struct has its required fields checked, as before
\* CHANGELOG 0.1.5.
EnterUncheckedBelow ==
  /\ res.st = "running" /\ stack # <<>> /\ Top.pc = "called"
  /\ Verdict(heap, Top.act) = "ok" \/ (Top.act.klass # NULL /\ Len(stack) > 1)
  /\ stack' = WithTop([Top EXCEPT !.pc = "looping", !.rest = Slots(heap, Top.act)])
  /\ out' = out \o Header(heap, Top.act)
  /\ visited' = visited \cup {Top.act}
  /\ UNCHANGED <<heap, call, res>>

\* writeAny or writeStruct makes its checks, passes them, and writes its header.
Enter ==
  /\ res.st = "running" /\ stack # <<>> /\ Top.pc = "called"
  /\ Verdict(heap, Top.act) = "ok"
  /\ stack' = WithTop([Top EXCEPT !.pc = "looping", !.rest = Slots(heap, Top.act)])
  /\ out' = out \o Header(heap, Top.act)
  /\ visited' = visited \cup {Top.act}
  /\ UNCHANGED <<heap, call, res>>

\* Mutant: an optional field that is unset is complained of as well.
RaiseOptionalToo ==
  /\ res.st = "running" /\ stack # <<>> /\ Top.pc = "called"
  /\ Top.act.klass # NULL
  /\ \E fid \in Fids(Top.act.klass) \ Present(heap, Top.act.klass, Top.act.val) :
       res' = Raised("MissingMandatory", Top.act.klass,
                     FieldInfo[InfoOf(Top.act.klass, fid)].symName, Top.act)
  /\ UNCHANGED <<heap, call, stack, out, visited>>

\* It fails them: rb_raise unwinds to the caller.  Only the Sparsam exceptions
\* say where; for a missing field that is the first one in field id order.
Raise ==
  /\ res.st = "running" /\ stack # <<>> /\ Top.pc = "called"
  /\ LET a == Top.act
         v == Verdict(heap, a)
     IN \/ /\ v = "TypeMismatch"
           /\ res' = Raised(v, heap[Top.outer].klass, Top.sym, a)
        \/ /\ v = "MissingMandatory"
           /\ \E fid \in Fids(a.klass) :
                /\ IsFirst(fid, Missing(heap, a.klass, a.val))
                /\ res' = Raised(v, a.klass, FieldInfo[InfoOf(a.klass, fid)].symName, a)
        \/ /\ v = "RangeError"
           /\ res' = Raised(v, NULL, NULL, a)
  /\ UNCHANGED <<heap, call, stack, out, visited>>

\* The loop of writeStruct, or of a container, goes on to its next slot.
CallNext ==
  /\ res.st = "running" /\ stack # <<>> /\ Top.pc = "looping"
  /\ Len(stack) < MaxDepth
  /\ \E i \in Top.rest :
       /\ IsFirst(i, Top.rest)
       /\ LET c == Callee(heap, Top.act, i)
              callee == IF Top.act.klass = NULL
                        THEN NewFrame(c, Top.outer, Top.sym)
                        ELSE NewFrame(c, Top.act.val, FieldInfo[c.info].symName)
          IN stack' = Append(WithTop([Top EXCEPT !.rest = @ \ {i}, !.at = i]), callee)
       /\ out' = out \o SlotHeader(Top, i)
  /\ UNCHANGED <<heap, call, res, visited>>

\* Mutants: the limit on the depth is far too low; the exhausted stack ends the
\* call as if it had returned.
OverflowTooEarly ==
  /\ res.st = "running" /\ stack # <<>> /\ Top.pc = "looping" /\ Top.rest # {}
  /\ Len(stack) >= 3
  /\ res' = [res EXCEPT !.st = "StackOverflow"]
  /\ UNCHANGED <<heap, call, stack, out, visited>>

\* The same call, with no room left on the stack.
Overflow ==
  /\ res.st = "running" /\ stack # <<>> /\ Top.pc = "looping" /\ Top.rest # {}
  /\ Len(stack) >= MaxDepth
  /\ res' = [res EXCEPT !.st = "StackOverflow"]
  /\ UNCHANGED <<heap, call, stack, out, visited>>

\* Mutant: a loop that tests at its end does not get out of an empty container.
LeaveAfterOne ==
  /\ res.st = "running" /\ stack # <<>> /\ Top.pc = "looping" /\ Top.rest = {}
  /\ Header(heap, Top.act) # <<>> => Slots(heap, Top.act) # {}
  /\ out' = out \o Trailer(Top.act)
  /\ stack' = Pop
  /\ UNCHANGED <<heap, call, res, visited>>

\* It is done: a struct is closed with a stop field, and the frame returns.
Leave ==
  /\ res.st = "running" /\ stack # <<>> /\ Top.pc = "looping" /\ Top.rest = {}
  /\ out' = out \o Trailer(Top.act)
  /\ stack' = Pop
  /\ UNCHANGED <<heap, call, res, visited>>

\* serializer_writeStruct returns the buffer.
SerializeEnd ==
  /\ res.st = "running" /\ stack = <<>>
  /\ res' = [res EXCEPT !.st = "ok"]
  /\ UNCHANGED <<heap, call, stack, out, visited>>

Done == res.st \notin {"called", "running"}

Next == SerializeBegin \/ Enter \/ Raise \/ CallNext \/ Overflow \/ Leave \/ SerializeEnd

Spec == Init /\ [][Next]_vars

\* The call runs on the caller's thread until it returns or raises.
FairSpec == Spec /\ WF_vars(Next)

-----------------------------------------------------------------------------
\* The shape of the state: what the fields of serializer.cpp's locals can hold.
TypeOK ==
  /\ IsHeap(heap)
  /\ call \in Calls /\ Klass \in Klasses
  /\ stack \in Seq(Frame)
  /\ res \in Result
  /\ visited \subseteq Activation

\* A serialization that returns bytes has checked the whole of the object graph
\* below its argument: classes, scalar types and widths, and the required fields
\* of every struct, however deep and behind whichever container (CHANGELOG 0.2.0
\* and 0.1.5: validation is part of writeStruct/writeAny, nested structs included).
AcceptedIsValid ==
  res.st = "ok" =>
    /\ heap[call.data].klass = Klass
    /\ Root \in visited
    /\ \A a \in visited : /\ Verdict(heap, a) = "ok"
                          /\ Callees(heap, a) \subseteq visited

\* An exception is never raised about data that is in order: what it complains
\* of is the root, or is called for by an activation that passed its own checks,
\* and fails a check of that very kind.
RejectedHasCulprit ==
  res.st = "raised" =>
    LET c == res.culprit IN
    \/ c = Root /\ heap[call.data].klass # Klass
    \/ /\ c = Root \/ \E a \in visited : c \in Callees(heap, a)
       /\ Verdict(heap, c) = res.exc /\ res.exc # "ok"

\* The struct_name and field_name of an exception lead the caller to the fault.
\* A TypeMismatch names the innermost struct being written and the field of it
\* that writeStruct was busy with, only containers in between (outer_struct and
\* field_sym as writeAny hands them down).  A MissingMandatory names the struct
\* that was refused and the first of its fields, in field id order, that is
\* required and unset.
BlameNamesTheField ==
  /\ res.exc = "TypeMismatch" /\ stack # <<>> =>
       \E j \in 1..Len(stack) - 1 :
         LET f == stack[j] IN
         /\ f.act.klass = res.struct
         /\ f.at \in Fids(f.act.klass)
         /\ FieldInfo[InfoOf(f.act.klass, f.at)].symName = res.field
         /\ \A m \in j + 1 .. Len(stack) - 1 :
              /\ stack[m].act.klass = NULL
              /\ FieldInfo[stack[m].act.info].ftype \in SequenceTypes \cup {"MAP"}
  /\ res.exc = "MissingMandatory" =>
       LET Unset(fid) == /\ ~FieldInfo[InfoOf(res.struct, fid)].isOptional
                         /\ IvarGet(heap, res.culprit.val, InfoOf(res.struct, fid)) = nil
       IN /\ res.struct = res.culprit.klass
          /\ \E fid \in Fids(res.struct) :
               /\ Unset(fid)
               /\ FieldInfo[InfoOf(res.struct, fid)].symName = res.field
               /\ \A other \in Fids(res.struct) : other < fid => ~Unset(other)

\* Two activations of the same call on the stack: an object that contains itself.
Cyclic == \E i, j \in 1..Len(stack) : i < j /\ stack[i].act = stack[j].act

\* Only an object that contains itself exhausts the stack, on a stack with room
\* for every activation the schema and the object graph allow.
OverflowIsCyclic == res.st = "StackOverflow" => Cyclic

\* Every call returns, raises or overflows; nothing detects an object that contains
\* itself, and once inside it the call ends no other way.
Terminates == <>Done /\ (Cyclic ~> res.st = "StackOverflow")
=============================================================================
