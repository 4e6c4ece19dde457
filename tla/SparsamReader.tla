---------------------------- MODULE SparsamReader ----------------------------
(****************************************************************************)
(* ThriftSerializer::readStruct / readUnion / readAny and their entry points *)
(* (ext/serializer.cpp, lib/sparsam/deserializer.rb): one deserialization,   *)
(* as the machine whose stack is the C++ call stack.                         *)
(*                                                                          *)
(* The input is a sequence of the protocol events of SparsamWriter.  Reading *)
(* an event as something it is not would reinterpret its bytes; such a step  *)
(* ends the behaviour as "garbled".                                          *)
(****************************************************************************)
EXTENDS SparsamSchema

CONSTANTS
  Defaults   \* klass |-> (field name |-> default), nil where there is none

VARIABLES
  protocol,  \* "compact" or "binary"
  klass,     \* the class to deserialize as
  input,     \* the TMemoryBuffer's contents
  pos,       \* the next event to read
  mem,       \* the objects allocated so far; a reference is an index into it
  stack,     \* the C++ call stack, innermost frame last
  ret,       \* <<v>> when the frame on top has a returned value to take up
  res        \* how the call ended, or that it has not

vars == <<protocol, klass, input, pos, mem, stack, ret, res>>

(****************************************************************************)
(* Objects.  new is klass.new: a struct starts from its defaults, a union    *)
(* has none (ext/ruby_hooks.c, lib/sparsam/union.rb).                        *)
(****************************************************************************)
Object(type, k, items, ivars) ==
  [type |-> type, klass |-> k, items |-> items, ivars |-> ivars, setfield |-> NULL]

Unset == [n \in Names |-> nil]

\* Mutant: klass.allocate, which leaves initialize and its defaults out.
Allocate(k) == Object("object", k, <<>>, Unset)

New(k) == Object("object", k, <<>>, IF k \in Unions THEN Unset ELSE Defaults[k])

\* rb_hash_aset on a flattened hash: an equal key has its value replaced.
HashAset(items, k, v) ==
  IF \E i \in DOMAIN items : i % 2 = 1 /\ items[i] = k
  THEN [i \in DOMAIN items |-> IF i % 2 = 0 /\ items[i - 1] = k THEN v ELSE items[i]]
  ELSE items \o <<k, v>>

\* The hash readAny fills, pair by pair.
HashOf(got) ==
  LET hash[n \in 0..Len(got) \div 2] ==
        IF n = 0 THEN <<>> ELSE HashAset(hash[n - 1], got[2 * n - 1], got[2 * n])
  IN hash[Len(got) \div 2]

\* Set.new(ary): equal elements are merged.
SetAdd(items, v) == IF \E i \in DOMAIN items : items[i] = v THEN items ELSE Append(items, v)

SetOfArray(got) ==
  LET upto[n \in 0..Len(got)] == IF n = 0 THEN <<>> ELSE SetAdd(upto[n - 1], got[n])
  IN upto[Len(got)]

(****************************************************************************)
(* Frames.                                                                   *)
(*   any    readAny(type, info) about to be carried out                      *)
(*   struct readStruct in its loop; info is the field being read             *)
(*   union  readUnion: pc tells where                                        *)
(*   items  the loop of a container: left elements to come, got so far       *)
(*   skip   TProtocol::skip, left values to come; value is what the readAny  *)
(*          that skips returns, if anything does                             *)
(****************************************************************************)
AnyFrame(type, info) == [fn |-> "any", type |-> type, info |-> info]
StructFrame(k, obj) ==
  [fn |-> IF k \in Unions THEN "union" ELSE "struct", pc |-> "first", klass |-> k,
   obj |-> obj, info |-> NULL, last |-> 0]
ItemsFrame(type, info, types, left) ==
  [fn |-> "items", type |-> type, info |-> info, types |-> types, left |-> left,
   got |-> <<>>]
SkipFrame(left, value) == [fn |-> "skip", left |-> left, value |-> value]

Top == stack[Len(stack)]
Pop == SubSeq(stack, 1, Len(stack) - 1)
WithTop(f) == [stack EXCEPT ![Len(stack)] = f]

Reading(fn) == res.st = "running" /\ stack # <<>> /\ Top.fn = fn

(****************************************************************************)
(* Events.  Expecting(kinds) guards a read: there must be an event, and of   *)
(* one of these kinds.  The compact protocol writes an empty map as a single *)
(* zero byte, which carries no types.                                        *)
(****************************************************************************)
Event == input[pos]
Headers == {"field", "stop"}
Expecting(kinds) == pos <= Len(input) /\ Event.ev \in kinds

\* A short header is relative to the last id of the struct being read.
FieldId(last) == IF protocol = "compact" /\ Event.delta # 0 THEN last + Event.delta
                                                            ELSE Event.fid
MapTypes == IF protocol = "compact" /\ Event.size = 0 THEN <<"STOP", "STOP">>
                                                      ELSE <<Event.key, Event.elem>>

Running == [st |-> "running", exc |-> NULL, struct |-> NULL, field |-> NULL]
End(st, exc) == [Running EXCEPT !.st = st, !.exc = exc]

-----------------------------------------------------------------------------
Init ==
  /\ pos = 1
  /\ mem = <<>>
  /\ stack = <<>>
  /\ ret = <<>>
  /\ res = [Running EXCEPT !.st = "called"]

\* Deserializer.deserialize: deserializeUnion for a union class, deserialize
\* for any other.
Deserialize ==
  /\ res.st = "called"
  /\ res' = Running
  /\ mem' = <<New(klass)>>
  /\ stack' = <<StructFrame(klass, 1)>>
  /\ UNCHANGED <<protocol, klass, input, pos, ret>>

\* The innermost call returns v to the one below it.
Return(v) == stack' = Pop /\ ret' = <<v>>

\* Mutant: any type will do.
AnyTypeWillDo(info, type) == TRUE

\* readStruct's check of the type on the wire.
TypesMatch(info, type) == FieldInfo[info].ftype = type

\* readStruct reads a field header.
ReadField ==
  /\ Reading("struct") /\ ret = <<>> /\ Expecting(Headers)
  /\ IF Event.ev = "stop"
     THEN /\ Return(Top.obj)
          /\ UNCHANGED res
     ELSE LET fid == FieldId(Top.last)
              f == [Top EXCEPT !.last = fid]
          IN IF fid \notin Fids(Top.klass)
             THEN /\ stack' = Append(WithTop(f), SkipFrame(1, <<>>))
                  /\ UNCHANGED <<ret, res>>
             ELSE LET info == InfoOf(Top.klass, fid) IN
                  IF TypesMatch(info, Event.type)
                  THEN /\ stack' = Append(WithTop([f EXCEPT !.info = info]),
                                          AnyFrame(Event.type, info))
                       /\ UNCHANGED <<ret, res>>
                  ELSE \* the message has the two types the other way round
                       /\ res' = [End("raised", "TypeMismatch") EXCEPT
                                    !.struct = Top.klass, !.field = FieldInfo[info].symName]
                       /\ UNCHANGED <<stack, ret>>
  /\ pos' = pos + 1
  /\ UNCHANGED <<protocol, klass, input, mem>>

\* readStruct stores the field it has read; nil leaves the default in place.
StoreField ==
  /\ Reading("struct") /\ ret # <<>>
  /\ mem' = IF ret[1] = nil THEN mem
            ELSE [mem EXCEPT ![Top.obj].ivars[FieldInfo[Top.info].symName] = ret[1]]
  /\ ret' = <<>>
  /\ UNCHANGED <<protocol, klass, input, pos, stack, res>>

\* readUnion reads its first field header.  There is no type check.
ReadUnionField ==
  /\ Reading("union") /\ Top.pc = "first" /\ Expecting(Headers)
  /\ LET fid == FieldId(Top.last) IN
     IF Event.ev = "stop" THEN Return(Top.obj)
     ELSE IF fid \notin Fids(Top.klass)
     THEN \* return ret, past readFieldEnd but not past the union's stop field
          /\ stack' = Append(WithTop([Top EXCEPT !.pc = "leaving"]), SkipFrame(1, <<>>))
          /\ UNCHANGED ret
     ELSE LET info == InfoOf(Top.klass, fid) IN
          /\ stack' = Append(WithTop([Top EXCEPT !.pc = "value", !.info = info,
                                                 !.last = fid]),
                             AnyFrame(Event.type, info))
          /\ UNCHANGED ret
  /\ pos' = pos + 1
  /\ UNCHANGED <<protocol, klass, input, mem, res>>

\* Mutant: @setfield is not set.
StoreUnionFieldOnly ==
  /\ Reading("union") /\ Top.pc = "value" /\ ret # <<>>
  /\ mem' = [mem EXCEPT ![Top.obj].ivars[FieldInfo[Top.info].symName] = ret[1]]
  /\ stack' = WithTop([Top EXCEPT !.pc = "second"])
  /\ ret' = <<>>
  /\ UNCHANGED <<protocol, klass, input, pos, res>>

\* Mutant: it has all it wants, and leaves the stop field to its caller.
StoreUnionFieldReturns ==
  /\ Reading("union") /\ Top.pc = "value" /\ ret # <<>>
  /\ LET name == FieldInfo[Top.info].symName IN
     mem' = IF ret[1] = nil THEN mem
            ELSE [mem EXCEPT ![Top.obj].setfield = name, ![Top.obj].ivars[name] = ret[1]]
  /\ Return(Top.obj)
  /\ UNCHANGED <<protocol, klass, input, pos, res>>

\* It stores the field, unless it is nil.
StoreUnionField ==
  /\ Reading("union") /\ Top.pc = "value" /\ ret # <<>>
  /\ LET name == FieldInfo[Top.info].symName IN
     mem' = IF ret[1] = nil THEN mem
            ELSE [mem EXCEPT ![Top.obj].setfield = name, ![Top.obj].ivars[name] = ret[1]]
  /\ stack' = WithTop([Top EXCEPT !.pc = "second"])
  /\ ret' = <<>>
  /\ UNCHANGED <<protocol, klass, input, pos, res>>

\* It reads the header that must be the stop field.
ReadUnionStop ==
  /\ Reading("union") /\ Top.pc = "second" /\ Expecting(Headers)
  /\ IF Event.ev = "stop"
     THEN /\ Return(Top.obj)
          /\ UNCHANGED res
     ELSE /\ res' = End("raised", "UnionException")
          /\ UNCHANGED <<stack, ret>>
  /\ pos' = pos + 1
  /\ UNCHANGED <<protocol, klass, input, mem>>

\* It returns after an unknown field.
LeaveUnion ==
  /\ Reading("union") /\ Top.pc = "leaving"
  /\ Return(Top.obj)
  /\ UNCHANGED <<protocol, klass, input, pos, mem, res>>

\* readAny on a scalar.
ReadScalar ==
  /\ Reading("any") /\ Top.type \in ScalarTypes /\ Expecting({"scalar"})
  /\ Return(Event.val)
  /\ pos' = pos + 1
  /\ UNCHANGED <<protocol, klass, input, mem, res>>

\* readAny on a list or a set: the elements are read if their type is the one
\* the definition has, else skipped, and the whole list reads as nil.
ReadSequence ==
  /\ Reading("any") /\ Top.type \in SequenceTypes /\ Expecting({"list"})
  /\ LET elem == FieldInfo[Top.info].elementType IN
     stack' = IF elem = NULL \/ Event.elem # FieldInfo[elem].ftype
              THEN WithTop(SkipFrame(Event.size, <<nil>>))
              ELSE WithTop(ItemsFrame(Top.type, Top.info, <<Event.elem>>, Event.size))
  /\ pos' = pos + 1
  /\ UNCHANGED <<protocol, klass, input, mem, ret, res>>

\* readAny on a map: "no type check to be consistent".
ReadMap ==
  /\ Reading("any") /\ Top.type = "MAP" /\ Expecting({"map"})
  /\ LET f == FieldInfo[Top.info] IN
     stack' = IF f.keyType = NULL \/ f.elementType = NULL
              THEN WithTop(SkipFrame(2 * Event.size, <<nil>>))
              ELSE WithTop(ItemsFrame("MAP", Top.info, MapTypes, 2 * Event.size))
  /\ pos' = pos + 1
  /\ UNCHANGED <<protocol, klass, input, mem, ret, res>>

\* readAny on a struct or union.  Without a type check on the way here, info
\* may be one that has no class, and klass.new is called on a null VALUE.
ReadStructOrUnion ==
  /\ Reading("any") /\ Top.type = "STRUCT"
  /\ LET k == FieldInfo[Top.info].klass IN
     IF k = NULL
     THEN /\ res' = End("crash", NULL)
          /\ UNCHANGED <<stack, mem>>
     ELSE /\ mem' = Append(mem, New(k))
          /\ stack' = WithTop(StructFrame(k, Len(mem) + 1))
          /\ UNCHANGED res
  /\ UNCHANGED <<protocol, klass, input, pos, ret>>

\* The loop of a container calls readAny for the next element, with the type
\* on the wire ...
Alternate(f, key, elem) == IF f.type = "MAP" /\ Len(f.got) % 2 = 0 THEN key ELSE elem

NextItem ==
  /\ Reading("items") /\ ret = <<>> /\ Top.left > 0
  /\ LET f == FieldInfo[Top.info] IN
     stack' = Append(WithTop([Top EXCEPT !.left = @ - 1]),
                     AnyFrame(Alternate(Top, Top.types[1], Top.types[Len(Top.types)]),
                              Alternate(Top, f.keyType, f.elementType)))
  /\ UNCHANGED <<protocol, klass, input, pos, mem, ret, res>>

\* ... takes up what it returns ...
StoreItem ==
  /\ Reading("items") /\ ret # <<>>
  /\ stack' = WithTop([Top EXCEPT !.got = Append(@, ret[1])])
  /\ ret' = <<>>
  /\ UNCHANGED <<protocol, klass, input, pos, mem, res>>

\* ... and returns the container, built by Set.new or one rb_hash_aset per pair.
Built(f) ==
  CASE f.type = "LIST" -> f.got
    [] f.type = "SET"  -> SetOfArray(f.got)
    [] f.type = "MAP"  -> HashOf(f.got)

ReturnItems ==
  /\ Reading("items") /\ ret = <<>> /\ Top.left = 0
  /\ mem' = Append(mem, Object(Top.type, NULL, Built(Top), Unset))
  /\ Return(Len(mem) + 1)
  /\ UNCHANGED <<protocol, klass, input, pos, res>>

\* TProtocol::skip reads one event after another.  A field is a value followed
\* by the rest of its struct, which is skipped like a value of its own.
Weight(e) == CASE e.ev = "scalar" -> 0
               [] e.ev = "list"   -> e.size
               [] e.ev = "map"    -> 2 * e.size
               [] e.ev = "field"  -> 2
               [] e.ev = "stop"   -> 0

Skip ==
  /\ Reading("skip") /\ Top.left > 0 /\ pos <= Len(input)
  /\ stack' = WithTop([Top EXCEPT !.left = @ - 1 + Weight(Event)])
  /\ pos' = pos + 1
  /\ UNCHANGED <<protocol, klass, input, mem, ret, res>>

Skipped ==
  /\ Reading("skip") /\ Top.left = 0
  /\ stack' = Pop
  /\ ret' = Top.value
  /\ UNCHANGED <<protocol, klass, input, pos, mem, res>>

\* What the frame on top would read next, and the events it can make sense of.
Begins(type) == CASE type \in ScalarTypes   -> {"scalar"}
                  [] type \in SequenceTypes -> {"list"}
                  [] type = "MAP"           -> {"map"}
                  [] type = "STRUCT"        -> {}

Wants ==
  CASE Top.fn = "struct" /\ ret = <<>>                 -> Headers
    [] Top.fn = "union" /\ Top.pc \in {"first", "second"} -> Headers
    [] Top.fn = "any"                                  -> Begins(Top.type)
    [] Top.fn = "skip" /\ Top.left > 0 -> Headers \cup {"scalar", "list", "map"}
    [] OTHER -> {}

\* Mutants: what has been read so far is returned; only field headers notice.
EndOfFileReturns ==
  /\ res.st = "running" /\ stack # <<>> /\ Wants # {} /\ pos > Len(input)
  /\ res' = End("ok", NULL)
  /\ ret' = <<1>>
  /\ UNCHANGED <<protocol, klass, input, pos, mem, stack>>

EndOfFileInHeader ==
  /\ res.st = "running" /\ stack # <<>> /\ Wants = Headers /\ pos > Len(input)
  /\ res' = End("raised", "NativeError")
  /\ UNCHANGED <<protocol, klass, input, pos, mem, stack, ret>>

\* The buffer is exhausted: TTransportException, re-raised as Sparsam::Exception.
EndOfFile ==
  /\ res.st = "running" /\ stack # <<>> /\ Wants # {} /\ pos > Len(input)
  /\ res' = End("raised", "NativeError")
  /\ UNCHANGED <<protocol, klass, input, pos, mem, stack, ret>>

\* The next bytes are not what the frame on top takes them for.
Garble ==
  /\ res.st = "running" /\ stack # <<>> /\ Wants # {}
  /\ pos <= Len(input) /\ Event.ev \notin Wants
  /\ res' = End("garbled", NULL)
  /\ UNCHANGED <<protocol, klass, input, pos, mem, stack, ret>>

\* serializer_readStruct / serializer_readUnion return the object.
DeserializeEnd ==
  /\ res.st = "running" /\ stack = <<>>
  /\ res' = End("ok", NULL)
  /\ UNCHANGED <<protocol, klass, input, pos, mem, stack, ret>>

Done == res.st \notin {"called", "running"}

Next ==
  \/ Deserialize \/ ReadField \/ StoreField
  \/ ReadUnionField \/ StoreUnionField \/ ReadUnionStop \/ LeaveUnion
  \/ ReadScalar \/ ReadSequence \/ ReadMap \/ ReadStructOrUnion
  \/ NextItem \/ StoreItem \/ ReturnItems
  \/ Skip \/ Skipped \/ EndOfFile \/ Garble \/ DeserializeEnd

=============================================================================
