-------------------------- MODULE SparsamWriterProofs --------------------------
(****************************************************************************)
(* What serialization promises, for every schema, every object graph (cyclic *)
(* ones included) and every stack size: the shape of its state, that it      *)
(* returns bytes only for data that conforms to the schema and raises only   *)
(* for data that does not, that an exception names the field at fault, and   *)
(* that only cycles exhaust the stack.                                       *)
(****************************************************************************)
EXTENDS SparsamWriter, SequenceTheorems, FiniteSetTheorems, TLAPS

(****************************************************************************)
(* Lemmas on the stack operations.                                           *)
(****************************************************************************)

\* The innermost frame is a frame.
LEMMA TopIsFrame ==
  ASSUME stack \in Seq(Frame), stack # <<>>
  PROVE  Len(stack) \in Nat \ {0} /\ Len(stack) \in 1..Len(stack) /\ Top \in Frame
<1>1. Len(stack) \in Nat \ {0}
  BY EmptySeq
<1>2. Len(stack) \in 1..Len(stack)
  BY <1>1
<1> QED BY <1>1, <1>2, ElementOfSeq DEF Top

\* Replacing the innermost frame leaves the others alone.
LEMMA WithTopFacts ==
  ASSUME stack \in Seq(Frame), stack # <<>>, NEW f \in Frame
  PROVE  /\ WithTop(f) \in Seq(Frame)
         /\ Len(WithTop(f)) = Len(stack)
         /\ \A n \in 1..Len(stack) :
              WithTop(f)[n] = IF n = Len(stack) THEN f ELSE stack[n]
BY TopIsFrame, ExceptSeq DEF WithTop

\* All but the last element of a sequence.
LEMMA AllButLast ==
  ASSUME NEW S, NEW s \in Seq(S), s # <<>>
  PROVE  /\ SubSeq(s, 1, Len(s) - 1) \in Seq(S)
         /\ Len(SubSeq(s, 1, Len(s) - 1)) = Len(s) - 1
         /\ \A n \in 1..Len(s) - 1 : SubSeq(s, 1, Len(s) - 1)[n] = s[n]
<1>1. Len(s) \in Nat \ {0}
  BY EmptySeq
<1>2. SubSeq(s, 1, Len(s) - 1) \in Seq(S)
  OBVIOUS
<1>3. Len(SubSeq(s, 1, Len(s) - 1)) = Len(s) - 1
  <2>1. CASE Len(s) = 1
    BY <1>1, <2>1, EmptySeq
  <2>2. CASE Len(s) > 1
    BY <1>1, <2>2
  <2> QED BY <1>1, <2>1, <2>2
<1>4. \A n \in 1..Len(s) - 1 : SubSeq(s, 1, Len(s) - 1)[n] = s[n]
  OBVIOUS
<1> QED BY <1>2, <1>3, <1>4

\* Returning from the innermost frame leaves the others alone.
LEMMA PopFacts ==
  ASSUME stack \in Seq(Frame), stack # <<>>
  PROVE  /\ Pop \in Seq(Frame)
         /\ Len(Pop) = Len(stack) - 1
         /\ \A n \in 1..Len(stack) - 1 : Pop[n] = stack[n]
BY AllButLast DEF Pop

(****************************************************************************)
(* Lemmas on activations.                                                    *)
(****************************************************************************)

\* The slots of an activation are integers: field ids or positions.
LEMMA SlotsAreIntegers ==
  ASSUME NEW h, IsHeap(h), NEW a \in Activation
  PROVE  Slots(h, a) \subseteq Int
<1>1. CASE a.klass # NULL
  <2>1. a.klass \in Klasses
    BY <1>1 DEF Activation
  <2> QED BY <1>1, <2>1, SchemaAssumption DEF Slots, Present, Fids
<1>2. CASE a.klass = NULL
  <2>1. a.val \in VALUE
    BY DEF Activation
  <2>2. h[a.val].items \in Seq(VALUE)
    BY <2>1 DEF IsHeap, HeapRecord
  <2>3. DOMAIN h[a.val].items \subseteq Int
    BY <2>2, LenProperties
  <2> QED BY <1>2, <2>3 DEF Slots, TheStruct
<1> QED BY <1>1, <1>2

\* What an activation calls for at a slot is an activation.
LEMMA CalleeIsActivation ==
  ASSUME NEW h, IsHeap(h), NEW a \in Activation, NEW i \in Slots(h, a)
  PROVE  /\ Callee(h, a, i) \in Activation
         /\ a.klass # NULL => FieldInfo[Callee(h, a, i).info].symName \in Names
<1>0. a.val \in VALUE
  BY DEF Activation
<1>1. CASE a.klass # NULL
  <2>1. a.klass \in Klasses
    BY <1>1 DEF Activation
  <2>2. i \in Fids(a.klass)
    BY <1>1 DEF Slots, Present
  <2>3. InfoOf(a.klass, i) \in Infos /\ FieldInfo[InfoOf(a.klass, i)].symName \in Names
    BY <2>1, <2>2, SchemaAssumption DEF Fids, InfoOf
  <2>4. h[a.val].ivars \in [Names -> VALUE]
    BY <1>0 DEF IsHeap, HeapRecord
  <2>5. IvarGet(h, a.val, InfoOf(a.klass, i)) \in VALUE
    BY <2>3, <2>4 DEF IvarGet
  <2> QED BY <1>1, <2>3, <2>5 DEF Callee, AnyOf, Activation
<1>2. CASE a.klass = NULL
  <2>1. a.info \in Infos /\ WellFormedInfo(a.info)
    BY <1>2, SchemaAssumption DEF Activation
  <2>2. CASE FieldInfo[a.info].ftype = "STRUCT"
    BY <1>0, <1>2, <2>1, <2>2 DEF Callee, StructOf, Activation, WellFormedInfo
  <2>3. CASE FieldInfo[a.info].ftype # "STRUCT"
    <3>1. FieldInfo[a.info].ftype \notin ScalarTypes /\ i \in DOMAIN h[a.val].items
      BY <1>2, <2>3 DEF Slots
    <3>2. FieldInfo[a.info].ftype \in SequenceTypes \cup {"MAP"}
      BY <2>1, <2>3, <3>1 DEF WellFormedInfo, FieldInfoRecord, TType
    <3>3. ItemInfo(a.info, i) \in Infos
      BY <2>1, <3>2 DEF WellFormedInfo, ItemInfo
    <3>4. h[a.val].items \in Seq(VALUE)
      BY <1>0 DEF IsHeap, HeapRecord
    <3>5. h[a.val].items[i] \in VALUE
      BY <3>1, <3>4, LenProperties, ElementOfSeq
    <3> QED BY <1>2, <2>3, <3>3, <3>5 DEF Callee, AnyOf, Activation
  <2> QED BY <1>2, <2>2, <2>3
<1> QED BY <1>1, <1>2

(****************************************************************************)
(* The inductive invariant.  It says of every moment of the traversal what   *)
(* AcceptedIsValid says of its end: whatever an accepted activation calls    *)
(* for has been accepted, or is still owed by a frame on the stack.          *)
(****************************************************************************)

\* The activations a frame has yet to make.
Owes(f) == IF f.pc = "called" THEN {f.act}
           ELSE {Callee(heap, f.act, i) : i \in f.rest}
Owed == UNION {Owes(stack[n]) : n \in 1..Len(stack)}

\* A loop only runs over slots of its activation.
LoopsOverSlots ==
  \A n \in 1..Len(stack) :
    stack[n].pc = "looping" => stack[n].rest \subseteq Slots(heap, stack[n].act)

ShapeInv == TypeOK /\ LoopsOverSlots

\* The root is never forgotten, and the end is reached with an empty stack.
RootInv ==
  /\ res.st = "called" => stack = <<>> /\ visited = {}
  /\ res.st \in {"running", "ok"} =>
       heap[call.data].klass = Klass /\ Root \in visited \cup Owed
  /\ res.st = "ok" => stack = <<>>

ClosedInv ==
  \A a \in visited : /\ Verdict(heap, a) = "ok"
                     /\ Callees(heap, a) \subseteq visited \cup Owed

\* Nothing is owed that was not called for.
CalledFor(a) == a = Root \/ \E b \in visited : a \in Callees(heap, b)
JustifiedInv == \A a \in visited \cup Owed : CalledFor(a)

IInv == ShapeInv /\ RootInv /\ ClosedInv /\ JustifiedInv /\ RejectedHasCulprit

(****************************************************************************)
(* The shape of the state.                                                   *)
(****************************************************************************)

\* The root activation is one.
LEMMA RootIsActivation ==
  ASSUME TypeOK
  PROVE  Root \in Activation
BY WriterAssumption DEF TypeOK, Root, StructOf, Activation, Call

\* A new frame is a frame.
LEMMA NewFrameIsFrame ==
  ASSUME NEW a \in Activation, NEW outer \in VALUE, NEW sym \in Names \cup {NULL}
  PROVE  NewFrame(a, outer, sym) \in Frame
BY DEF NewFrame, Frame

\* Every initial state has the shape.
LEMMA InitShape == Init => ShapeInv
<1> SUFFICES ASSUME Init PROVE ShapeInv
  OBVIOUS
<1>1. IsHeap(heap) /\ Klass \in Klasses
  BY WriterAssumption DEF Init, Klass
<1>2. stack \in Seq(Frame) /\ Len(stack) = 0
  BY EmptySeq DEF Init
<1>3. res \in Result
  BY DEF Init, Pending, Outcome, Result
<1> QED BY <1>1, <1>2, <1>3 DEF Init, ShapeInv, TypeOK, LoopsOverSlots

\* Entering an activation sets the loop over its slots up.
LEMMA EnterShape == ShapeInv /\ Enter => ShapeInv'
<1> SUFFICES ASSUME ShapeInv, Enter PROVE ShapeInv'
  OBVIOUS
<1> DEFINE f == [Top EXCEPT !.pc = "looping", !.rest = Slots(heap, Top.act)]
<1>1. stack \in Seq(Frame) /\ stack # <<>> /\ IsHeap(heap)
  BY DEF ShapeInv, TypeOK, Enter
<1>2. Top \in Frame /\ Top.act \in Activation
  BY <1>1, TopIsFrame DEF Frame
<1>3. Slots(heap, Top.act) \subseteq Int
  BY <1>1, <1>2, SlotsAreIntegers
<1>4. f \in Frame /\ f.pc = "looping" /\ f.rest = Slots(heap, Top.act) /\ f.act = Top.act
  BY <1>2, <1>3 DEF Frame
<1>5. stack' = WithTop(f)
  BY DEF Enter
<1> HIDE DEF f
<1>6. /\ stack' \in Seq(Frame)
      /\ Len(stack') = Len(stack)
      /\ \A n \in 1..Len(stack) : stack'[n] = IF n = Len(stack) THEN f ELSE stack[n]
  BY <1>1, <1>4, <1>5, WithTopFacts
<1>7. TypeOK'
  BY <1>2, <1>6 DEF ShapeInv, TypeOK, Enter, Klass
<1>8. LoopsOverSlots'
  BY <1>4, <1>6 DEF ShapeInv, LoopsOverSlots, Enter
<1> QED BY <1>7, <1>8 DEF ShapeInv

\* The frames of a call: the caller, one slot further, and the callee.
LEMMA CallNextFrames ==
  ASSUME ShapeInv, CallNext
  PROVE  \E i \in Top.rest, f \in Frame, g \in Frame :
           /\ i \in Slots(heap, Top.act) /\ IsFirst(i, Top.rest)
           /\ out' = out \o SlotHeader(Top, i)
           /\ f.pc = "looping" /\ f.act = Top.act /\ f.rest = Top.rest \ {i} /\ f.at = i
           /\ f.outer = Top.outer /\ f.sym = Top.sym
           /\ g.pc = "called" /\ g.act = Callee(heap, Top.act, i) /\ g.at = 0
           /\ IF Top.act.klass = NULL
              THEN g.outer = Top.outer /\ g.sym = Top.sym
              ELSE g.outer = Top.act.val /\ g.sym = FieldInfo[g.act.info].symName
           /\ stack' \in Seq(Frame)
           /\ Len(stack') = Len(stack) + 1
           /\ \A n \in 1..Len(stack) : stack'[n] = IF n = Len(stack) THEN f ELSE stack[n]
           /\ stack'[Len(stack) + 1] = g
<1>1. stack \in Seq(Frame) /\ stack # <<>> /\ IsHeap(heap) /\ Top.pc = "looping"
  BY DEF ShapeInv, TypeOK, CallNext
<1>2. Top \in Frame /\ Top.act \in Activation /\ Len(stack) \in 1..Len(stack)
  BY <1>1, TopIsFrame DEF Frame
<1>3. Top.rest \subseteq Slots(heap, Top.act)
  BY <1>1, <1>2 DEF ShapeInv, LoopsOverSlots, Top
<1>4. PICK i \in Top.rest :
        /\ IsFirst(i, Top.rest) /\ out' = out \o SlotHeader(Top, i)
        /\ stack' = LET c == Callee(heap, Top.act, i)
                        g == IF Top.act.klass = NULL
                             THEN NewFrame(c, Top.outer, Top.sym)
                             ELSE NewFrame(c, Top.act.val, FieldInfo[c.info].symName)
                    IN Append(WithTop([Top EXCEPT !.rest = @ \ {i}, !.at = i]), g)
  BY DEF CallNext
<1> DEFINE c == Callee(heap, Top.act, i)
           f == [Top EXCEPT !.rest = @ \ {i}, !.at = i]
           g == IF Top.act.klass = NULL
                THEN NewFrame(c, Top.outer, Top.sym)
                ELSE NewFrame(c, Top.act.val, FieldInfo[c.info].symName)
<1>5. i \in Slots(heap, Top.act) /\ i \in Int
  BY <1>1, <1>2, <1>3, SlotsAreIntegers
<1>6. /\ f \in Frame /\ f.pc = "looping" /\ f.act = Top.act /\ f.rest = Top.rest \ {i} /\ f.at = i
      /\ f.outer = Top.outer /\ f.sym = Top.sym
  BY <1>1, <1>2, <1>5 DEF Frame
<1>7. /\ c \in Activation
      /\ Top.act.klass # NULL => FieldInfo[c.info].symName \in Names
  BY <1>1, <1>2, <1>5, CalleeIsActivation
<1>8. stack' = Append(WithTop(f), g)
  BY <1>4
<1> HIDE DEF f, c
<1>9. g \in Frame
  <2>1. Top.outer \in VALUE /\ Top.sym \in Names \cup {NULL} /\ Top.act.val \in VALUE
    BY <1>2 DEF Frame, Activation
  <2> QED BY <1>7, <2>1, NewFrameIsFrame
<1>10. /\ g.pc = "called" /\ g.act = c /\ g.at = 0
       /\ IF Top.act.klass = NULL
          THEN g.outer = Top.outer /\ g.sym = Top.sym
          ELSE g.outer = Top.act.val /\ g.sym = FieldInfo[c.info].symName
  BY DEF NewFrame
<1> HIDE DEF g
<1>11. /\ stack' \in Seq(Frame)
       /\ Len(stack') = Len(stack) + 1
       /\ \A n \in 1..Len(stack) : stack'[n] = IF n = Len(stack) THEN f ELSE stack[n]
       /\ stack'[Len(stack) + 1] = g
  <2>1. /\ WithTop(f) \in Seq(Frame)
        /\ Len(WithTop(f)) = Len(stack)
        /\ \A n \in 1..Len(stack) :
             WithTop(f)[n] = IF n = Len(stack) THEN f ELSE stack[n]
    BY <1>1, <1>6, WithTopFacts
  <2> QED BY <1>8, <1>9, <2>1, AppendProperties
<1>12. g.act = Callee(heap, Top.act, i)
  BY <1>10 DEF c
<1> QED BY ZenonT(40), <1>4, <1>5, <1>6, <1>9, <1>10, <1>11, <1>12

\* Calling for the next slot keeps the shape.
LEMMA CallNextShape == ShapeInv /\ CallNext => ShapeInv'
<1> SUFFICES ASSUME ShapeInv, CallNext PROVE ShapeInv'
  OBVIOUS
<1>1. PICK i \in Top.rest, f \in Frame, g \in Frame :
           /\ i \in Slots(heap, Top.act) /\ IsFirst(i, Top.rest)
           /\ out' = out \o SlotHeader(Top, i)
           /\ f.pc = "looping" /\ f.act = Top.act /\ f.rest = Top.rest \ {i} /\ f.at = i
           /\ f.outer = Top.outer /\ f.sym = Top.sym
           /\ g.pc = "called" /\ g.act = Callee(heap, Top.act, i) /\ g.at = 0
           /\ IF Top.act.klass = NULL
              THEN g.outer = Top.outer /\ g.sym = Top.sym
              ELSE g.outer = Top.act.val /\ g.sym = FieldInfo[g.act.info].symName
           /\ stack' \in Seq(Frame)
           /\ Len(stack') = Len(stack) + 1
           /\ \A n \in 1..Len(stack) : stack'[n] = IF n = Len(stack) THEN f ELSE stack[n]
           /\ stack'[Len(stack) + 1] = g
  BY CallNextFrames
<1>2. stack \in Seq(Frame) /\ stack # <<>> /\ Top.pc = "looping" /\ UNCHANGED <<heap, call, res, visited>>
  BY DEF ShapeInv, TypeOK, CallNext
<1>3. Len(stack) \in Nat /\ Len(stack) \in 1..Len(stack)
  BY <1>2, TopIsFrame
<1>4. TypeOK'
  BY <1>1, <1>2 DEF ShapeInv, TypeOK, Klass
<1>5. ASSUME NEW n \in 1..Len(stack'), stack'[n].pc = "looping"
      PROVE  stack'[n].rest \subseteq Slots(heap, stack'[n].act)
  <2>1. CASE n = Len(stack) + 1
    BY <1>1, <1>5, <2>1
  <2>2. CASE n = Len(stack)
    BY <1>1, <1>2, <1>3, <2>2 DEF ShapeInv, LoopsOverSlots, Top
  <2>3. CASE n \in 1..Len(stack) /\ n # Len(stack)
    BY <1>1, <1>5, <2>3 DEF ShapeInv, LoopsOverSlots
  <2> QED BY <1>1, <1>3, <2>1, <2>2, <2>3
<1>6. LoopsOverSlots'
  BY <1>2, <1>5 DEF LoopsOverSlots
<1> QED BY <1>4, <1>6 DEF ShapeInv

\* writeAny never complains of a missing field.
LEMMA VerdictOfWriteAny ==
  ASSUME NEW h, NEW a \in Activation, a.klass = NULL
  PROVE  Verdict(h, a) \in {"ok", "TypeMismatch", "RangeError"}
<1>1. a.info \in Infos
  BY SchemaAssumption DEF Activation
<1>2. FieldInfo[a.info].ftype \in TType
  BY <1>1, SchemaAssumption DEF WellFormedInfo, FieldInfoRecord
<1>3. DOMAIN Width = {"BYTE", "I16", "I32", "I64"}
  BY DEF Width
<1> QED BY <1>2, <1>3 DEF Verdict, Convert, TType, ScalarTypes, SequenceTypes

\* What an exception carries has the types of its attributes.
LEMMA RaiseResult ==
  ASSUME TypeOK, Raise
  PROVE  /\ res' \in Result
         /\ res'.st = "raised" /\ res'.culprit = Top.act
         /\ res'.exc = Verdict(heap, Top.act)
<1>1. stack \in Seq(Frame) /\ stack # <<>> /\ IsHeap(heap)
  BY DEF TypeOK, Raise
<1>2. Top \in Frame /\ Top.act \in Activation
  BY <1>1, TopIsFrame DEF Frame
<1>3. Top.outer \in VALUE /\ Top.sym \in Names \cup {NULL}
  BY <1>2 DEF Frame
<1>4. heap[Top.outer].klass \in Klasses \cup {SetClass, NULL}
  BY <1>1, <1>3 DEF IsHeap, HeapRecord
<1>5. CASE Verdict(heap, Top.act) = "TypeMismatch"
  BY <1>2, <1>3, <1>4, <1>5 DEF Raise, Raised, Result, Outcome, Exceptions
<1>6. CASE Verdict(heap, Top.act) = "RangeError"
  BY <1>2, <1>6 DEF Raise, Raised, Result, Outcome, Exceptions
<1>7. CASE Verdict(heap, Top.act) = "MissingMandatory"
  <2>1. PICK fid \in Fids(Top.act.klass) :
          res' = Raised("MissingMandatory", Top.act.klass,
                        FieldInfo[InfoOf(Top.act.klass, fid)].symName, Top.act)
    BY <1>7 DEF Raise
  <2>2. Top.act.klass \in Klasses
    BY <1>2, <1>7, VerdictOfWriteAny DEF Activation
  <2>3. FieldInfo[InfoOf(Top.act.klass, fid)].symName \in Names
    BY <2>2, SchemaAssumption DEF Fids, InfoOf
  <2> QED BY <1>2, <1>7, <2>1, <2>2, <2>3 DEF Raised, Result, Outcome, Exceptions
<1> QED BY <1>5, <1>6, <1>7 DEF Raise

\* Every step keeps the shape.
LEMMA NextShape == ShapeInv /\ [Next]_vars => ShapeInv'
<1> SUFFICES ASSUME ShapeInv, [Next]_vars PROVE ShapeInv'
  OBVIOUS
<1>0. stack \in Seq(Frame)
  BY DEF ShapeInv, TypeOK
<1>1. CASE SerializeBegin
  <2>1. CASE heap[call.data].klass = Klass
    <3>1. call.data \in VALUE
      BY WriterAssumption DEF ShapeInv, TypeOK, Call
    <3>2. NewFrame(Root, call.data, NULL) \in Frame
      BY <3>1, RootIsActivation, NewFrameIsFrame DEF ShapeInv
    <3>3. stack' = <<NewFrame(Root, call.data, NULL)>>
      BY <1>1, <2>1 DEF SerializeBegin
    <3>4. NewFrame(Root, call.data, NULL).pc = "called"
      BY DEF NewFrame
    <3>6. stack' \in Seq(Frame) /\ Len(stack') = 1 /\ stack'[1].pc = "called"
      BY <3>2, <3>3, <3>4
    <3>5. res' \in Result
      BY <1>1, <2>1 DEF SerializeBegin, ShapeInv, TypeOK, Outcome, Result
    <3> QED BY <1>1, <3>5, <3>6 DEF SerializeBegin, ShapeInv, TypeOK, LoopsOverSlots, Klass
  <2>2. CASE heap[call.data].klass # Klass
    <3>1. heap[call.data].klass \in Klasses \cup {SetClass, NULL}
      BY WriterAssumption DEF ShapeInv, TypeOK, IsHeap, HeapRecord, Call
    <3>2. Root \in Activation
      BY RootIsActivation DEF ShapeInv
    <3>3. res' \in Result
      BY <1>1, <2>2, <3>1, <3>2 DEF SerializeBegin, Raised, Outcome, Exceptions, Result
    <3> QED BY <1>1, <2>2, <3>3 DEF SerializeBegin, ShapeInv, TypeOK, LoopsOverSlots, Klass
  <2> QED BY <2>1, <2>2
<1>2. CASE Enter
  BY <1>2, EnterShape
<1>3. CASE Raise
  <2>1. res' \in Result
    BY <1>3, RaiseResult DEF ShapeInv
  <2> QED BY <1>3, <2>1 DEF Raise, ShapeInv, TypeOK, LoopsOverSlots, Klass
<1>4. CASE CallNext
  BY <1>4, CallNextShape
<1>5. CASE Overflow
  BY <1>5 DEF Overflow, Outcome, Result, ShapeInv, TypeOK, LoopsOverSlots, Klass
<1>6. CASE Leave
  <2>1. stack' \in Seq(Frame) /\ Len(stack') = Len(stack) - 1
        /\ \A n \in 1..Len(stack) - 1 : stack'[n] = stack[n]
    BY <1>0, <1>6, PopFacts DEF Leave
  <2>2. Len(stack) \in Nat
    BY <1>0, EmptySeq, LenProperties
  <2>3. LoopsOverSlots'
    BY <1>6, <2>1, <2>2 DEF Leave, ShapeInv, LoopsOverSlots
  <2> QED BY <1>6, <2>1, <2>3 DEF Leave, ShapeInv, TypeOK, Klass
<1>7. CASE SerializeEnd
  BY <1>7 DEF SerializeEnd, Outcome, Result, ShapeInv, TypeOK, LoopsOverSlots, Klass
<1>8. CASE UNCHANGED vars
  BY <1>8 DEF vars, ShapeInv, TypeOK, LoopsOverSlots, Klass
<1> QED BY <1>1, <1>2, <1>3, <1>4, <1>5, <1>6, <1>7, <1>8 DEF Next

\* The locals of the serializer keep their types: whatever FieldInfo graph and
\* object graph it walks, each frame pairs a FieldInfo with a value, or a class
\* with an object.
THEOREM TypeCorrect == Spec => []TypeOK
<1>1. ShapeInv => TypeOK
  BY DEF ShapeInv
<1> QED BY <1>1, InitShape, NextShape, PTL DEF Spec

(****************************************************************************)
(* How the steps move what is owed.                                          *)
(****************************************************************************)

\* An activation that is about to be checked is owed.
LEMMA TopIsOwed ==
  ASSUME stack \in Seq(Frame), stack # <<>>, Top.pc = "called"
  PROVE  Top.act \in Owed
BY TopIsFrame DEF Owed, Owes, Top

\* Entering an activation swaps it for its callees.
LEMMA EnterOwed ==
  ASSUME ShapeInv, Enter
  PROVE  /\ Owed \subseteq Owed' \cup {Top.act}
         /\ Owed' \subseteq Owed \cup Callees(heap, Top.act)
         /\ Callees(heap, Top.act) \subseteq Owed'
<1> DEFINE f == [Top EXCEPT !.pc = "looping", !.rest = Slots(heap, Top.act)]
<1>1. stack \in Seq(Frame) /\ stack # <<>> /\ IsHeap(heap) /\ Top.pc = "called" /\ heap' = heap
  BY DEF ShapeInv, TypeOK, Enter
<1>2. Top \in Frame /\ Top.act \in Activation /\ Len(stack) \in Nat \ {0}
  BY <1>1, TopIsFrame DEF Frame
<1>3. f.pc = "looping" /\ f.rest = Slots(heap, Top.act) /\ f.act = Top.act /\ f \in Frame
  BY <1>1, <1>2, SlotsAreIntegers DEF Frame
<1>4. stack' = WithTop(f)
  BY DEF Enter
<1> HIDE DEF f
<1>5. /\ Len(stack') = Len(stack)
      /\ \A n \in 1..Len(stack) : stack'[n] = IF n = Len(stack) THEN f ELSE stack[n]
  BY <1>1, <1>3, <1>4, WithTopFacts
<1>6. Owes(Top) = {Top.act} /\ Owes(f) = Callees(heap, Top.act)
  BY <1>1, <1>3 DEF Owes, Callees
<1>7. \A n \in 1..Len(stack) :
        Owes(stack[n])' = IF n = Len(stack) THEN Owes(f) ELSE Owes(stack[n])
  BY <1>1, <1>5 DEF Owes
<1> QED BY <1>2, <1>5, <1>6, <1>7 DEF Owed, Top

\* Calling for a slot moves what is owed for it from the caller to the callee.
LEMMA CallNextOwed ==
  ASSUME ShapeInv, CallNext
  PROVE  Owed' = Owed
<1>1. PICK i \in Top.rest, f \in Frame, g \in Frame :
           /\ i \in Slots(heap, Top.act) /\ IsFirst(i, Top.rest)
           /\ out' = out \o SlotHeader(Top, i)
           /\ f.pc = "looping" /\ f.act = Top.act /\ f.rest = Top.rest \ {i} /\ f.at = i
           /\ f.outer = Top.outer /\ f.sym = Top.sym
           /\ g.pc = "called" /\ g.act = Callee(heap, Top.act, i) /\ g.at = 0
           /\ IF Top.act.klass = NULL
              THEN g.outer = Top.outer /\ g.sym = Top.sym
              ELSE g.outer = Top.act.val /\ g.sym = FieldInfo[g.act.info].symName
           /\ stack' \in Seq(Frame)
           /\ Len(stack') = Len(stack) + 1
           /\ \A n \in 1..Len(stack) : stack'[n] = IF n = Len(stack) THEN f ELSE stack[n]
           /\ stack'[Len(stack) + 1] = g
  BY CallNextFrames
<1>2. stack \in Seq(Frame) /\ stack # <<>> /\ Top.pc = "looping" /\ heap' = heap
  BY DEF ShapeInv, TypeOK, CallNext
<1>3. Len(stack) \in Nat \ {0}
  BY <1>2, TopIsFrame
<1>4. Owes(Top) = Owes(f) \cup Owes(g)
  BY <1>1, <1>2 DEF Owes
<1>5. /\ \A n \in 1..Len(stack) :
           Owes(stack[n])' = IF n = Len(stack) THEN Owes(f) ELSE Owes(stack[n])
      /\ \A n \in 1..Len(stack') : n = Len(stack) + 1 => Owes(stack[n])' = Owes(g)
  <2>1. /\ \A n \in 1..Len(stack) : stack'[n] = IF n = Len(stack) THEN f ELSE stack[n]
        /\ stack'[Len(stack) + 1] = g
    BY <1>1
  <2> QED BY <1>2, <2>1 DEF Owes
<1>6. Owes(stack[Len(stack)]) = Owes(f) \cup Owes(g)
  BY <1>4 DEF Top
<1> QED
  <2>1. \A x : x \in Owed <=> \E n \in 1..Len(stack) : x \in Owes(stack[n])
    BY DEF Owed
  <2>2. \A x : x \in Owed' <=> \E n \in 1..Len(stack') : x \in Owes(stack[n])'
    BY DEF Owed
  <2>3. /\ 1..Len(stack') = 1..Len(stack) \cup {Len(stack) + 1}
        /\ Len(stack) \in 1..Len(stack) /\ Len(stack) + 1 \notin 1..Len(stack)
    BY <1>1, <1>3
  <2>4. ASSUME NEW x \in Owed PROVE x \in Owed'
    <3>1. PICK n \in 1..Len(stack) : x \in Owes(stack[n])
      BY <2>1
    <3>2. CASE n # Len(stack)
      <4>1. x \in Owes(stack[n])'
        BY <1>5, <3>1, <3>2
      <4> QED BY <2>2, <2>3, <4>1
    <3>3. CASE n = Len(stack) /\ x \in Owes(f)
      <4>1. x \in Owes(stack[n])'
        BY <1>5, <3>3
      <4> QED BY <2>2, <2>3, <4>1
    <3>4. CASE n = Len(stack) /\ x \in Owes(g)
      <4> DEFINE m == n + 1
      <4>1. m \in 1..Len(stack') /\ m = Len(stack) + 1
        BY <2>3, <3>4
      <4> HIDE DEF m
      <4>2. \E k \in 1..Len(stack') : x \in Owes(stack[k])'
        BY <1>5, <3>4, <2>3
      <4> QED BY <2>2, <4>2
    <3> QED BY <1>6, <3>1, <3>2, <3>3, <3>4
  <2>5. ASSUME NEW x \in Owed' PROVE x \in Owed
    <3>1. PICK n \in 1..Len(stack') : x \in Owes(stack[n])'
      BY <2>2
    <3>2. CASE n \in 1..Len(stack) /\ n # Len(stack)
      BY <1>5, <2>1, <3>1, <3>2
    <3>3. CASE n = Len(stack)
      BY <1>5, <1>6, <2>1, <2>3, <3>1, <3>3
    <3>4. CASE n = Len(stack) + 1
      BY <1>5, <1>6, <2>1, <2>3, <3>1, <3>4
    <3> QED BY <2>3, <3>1, <3>2, <3>3, <3>4
  <2> QED BY <2>4, <2>5

\* A frame that returns owed nothing any more.
LEMMA LeaveOwed ==
  ASSUME ShapeInv, Leave
  PROVE  Owed' = Owed
<1>1. stack \in Seq(Frame) /\ stack # <<>> /\ heap' = heap
      /\ Top.pc = "looping" /\ Top.rest = {} /\ stack' = Pop
  BY DEF ShapeInv, TypeOK, Leave
<1>2. Len(stack) \in Nat \ {0}
  BY <1>1, TopIsFrame
<1>3. Owes(stack[Len(stack)]) = {}
  BY <1>1 DEF Owes, Top
<1>4. Len(stack') = Len(stack) - 1 /\ \A n \in 1..Len(stack) - 1 : stack'[n] = stack[n]
  BY <1>1, PopFacts
<1>5. \A n \in 1..Len(stack) - 1 : Owes(stack[n])' = Owes(stack[n])
  BY <1>1, <1>4 DEF Owes
<1>6. \A x : x \in Owed <=> \E n \in 1..Len(stack) : x \in Owes(stack[n])
  BY DEF Owed
<1>7. \A x : x \in Owed' <=> \E n \in 1..Len(stack') : x \in Owes(stack[n])'
  BY DEF Owed
<1>8. 1..Len(stack) = 1..Len(stack') \cup {Len(stack)} /\ 1..Len(stack') = 1..Len(stack) - 1
  BY <1>2, <1>4
<1>9. ASSUME NEW x \in Owed PROVE x \in Owed'
  <2>1. PICK n \in 1..Len(stack) : x \in Owes(stack[n])
    BY <1>6
  <2>2. n # Len(stack)
    BY <1>3, <2>1
  <2>3. n \in 1..Len(stack) - 1 /\ n \in 1..Len(stack')
    BY <1>2, <1>8, <2>2
  <2> QED BY <1>5, <1>7, <2>1, <2>3
<1>10. ASSUME NEW x \in Owed' PROVE x \in Owed
  <2>1. PICK n \in 1..Len(stack') : x \in Owes(stack[n])'
    BY <1>7
  <2>2. n \in 1..Len(stack) - 1 /\ n \in 1..Len(stack)
    BY <1>8
  <2> QED BY <1>5, <1>6, <2>1, <2>2
<1> QED BY <1>9, <1>10

(****************************************************************************)
(* The invariant.                                                            *)
(****************************************************************************)

\* The call, the heap and hence the root activation never change.
LEMMA RootIsConstant ==
  ASSUME [Next]_vars
  PROVE  UNCHANGED <<heap, call, Klass, Root>>
<1>1. UNCHANGED <<heap, call>>
  BY Zenon DEF Next, vars, SerializeBegin, Enter, Raise, CallNext, Overflow, Leave, SerializeEnd
<1> QED BY SMTT(40), <1>1 DEF Klass, Root

\* It holds at the start.
LEMMA InitInv == Init => IInv
<1> SUFFICES ASSUME Init PROVE IInv
  OBVIOUS
<1>1. Owed = {}
  BY DEF Init, Owed
<1>2. res.st = "called" /\ stack = <<>> /\ visited = {}
  BY DEF Init, Pending
<1> QED BY <1>1, <1>2, InitShape
        DEF IInv, RootInv, ClosedInv, JustifiedInv, RejectedHasCulprit

\* serializer_writeStruct puts the root, and nothing else, on the stack.
LEMMA SerializeBeginInv == IInv /\ SerializeBegin => IInv'
<1> SUFFICES ASSUME IInv, SerializeBegin PROVE IInv'
  OBVIOUS
<1>0. UNCHANGED <<heap, call, Klass, Root>> /\ ShapeInv'
  BY RootIsConstant, NextShape DEF Next, IInv
<1>1. res.st = "called" /\ stack = <<>> /\ visited = {} /\ visited' = {} /\ res \in Result
  BY DEF SerializeBegin, IInv, RootInv, ShapeInv, TypeOK
<1>2. CASE heap[call.data].klass = Klass
  <2>1. stack' = <<NewFrame(Root, call.data, NULL)>> /\ res'.st = "running"
    BY <1>1, <1>2 DEF SerializeBegin, Result
  <2>2. Len(stack') = 1 /\ stack'[1].pc = "called" /\ stack'[1].act = Root
    BY <2>1 DEF NewFrame
  <2>3. Owed' = {Root}
    BY <1>0, <2>2 DEF Owed, Owes
  <2> QED BY <1>0, <1>1, <1>2, <2>1, <2>3
          DEF IInv, RootInv, ClosedInv, JustifiedInv, CalledFor, RejectedHasCulprit
<1>3. CASE heap[call.data].klass # Klass
  <2>1. /\ stack' = <<>>
        /\ res'.st = "raised" /\ res'.culprit = Root
    BY <1>1, <1>3 DEF SerializeBegin, Raised
  <2>2. Owed' = {}
    BY <2>1 DEF Owed
  <2> QED BY <1>0, <1>1, <1>3, <2>1, <2>2
          DEF IInv, RootInv, ClosedInv, JustifiedInv, RejectedHasCulprit
<1> QED BY <1>2, <1>3

\* Entering an activation moves it from the owed to the visited and owes its
\* callees instead.
LEMMA EnterInv == IInv /\ Enter => IInv'
<1> SUFFICES ASSUME IInv, Enter PROVE IInv'
  OBVIOUS
<1>0. UNCHANGED <<heap, call, Klass, Root>> /\ ShapeInv'
  BY RootIsConstant, NextShape DEF Next, IInv
<1>1. /\ Owed \subseteq Owed' \cup {Top.act}
      /\ Owed' \subseteq Owed \cup Callees(heap, Top.act)
      /\ Callees(heap, Top.act) \subseteq Owed'
  BY EnterOwed DEF IInv
<1>2. Top.act \in Owed
  BY TopIsOwed DEF IInv, ShapeInv, TypeOK, Enter
<1>3. visited' = visited \cup {Top.act} /\ Verdict(heap, Top.act) = "ok"
      /\ res' = res /\ res.st = "running"
  BY DEF Enter
<1>4. RootInv'
  BY <1>0, <1>1, <1>3 DEF IInv, RootInv
<1>5. ClosedInv'
  BY <1>0, <1>1, <1>3 DEF IInv, ClosedInv
<1>6. JustifiedInv'
  BY <1>0, <1>1, <1>2, <1>3 DEF IInv, JustifiedInv, CalledFor
<1> QED BY <1>0, <1>3, <1>4, <1>5, <1>6 DEF IInv, RejectedHasCulprit

\* An exception is raised about an owed activation that fails its check.
LEMMA RaiseInv == IInv /\ Raise => IInv'
<1> SUFFICES ASSUME IInv, Raise PROVE IInv'
  OBVIOUS
<1>0. UNCHANGED <<heap, call, Klass, Root>> /\ ShapeInv'
  BY RootIsConstant, NextShape DEF Next, IInv
<1>1. UNCHANGED <<stack, visited>>
  BY DEF Raise
<1>2. Owed' = Owed
  BY <1>0, <1>1 DEF Owed, Owes
<1>3. Top.act \in Owed
  BY TopIsOwed DEF IInv, ShapeInv, TypeOK, Raise
<1>4. /\ res'.st = "raised" /\ res'.culprit = Top.act
      /\ res'.exc = Verdict(heap, Top.act)
  BY RaiseResult DEF IInv, ShapeInv
<1>5. res'.exc # "ok"
  BY <1>4 DEF Raise
<1>6. CalledFor(Top.act)
  BY <1>3 DEF IInv, JustifiedInv
<1>7. RejectedHasCulprit'
  BY <1>0, <1>1, <1>4, <1>5, <1>6 DEF RejectedHasCulprit, CalledFor
<1>8. RootInv' /\ ClosedInv' /\ JustifiedInv'
  BY <1>0, <1>1, <1>2, <1>4 DEF IInv, RootInv, ClosedInv, JustifiedInv, CalledFor
<1> QED BY <1>0, <1>7, <1>8 DEF IInv

\* The steps that move neither what is owed nor what is visited.
LEMMA QuietInv ==
  ASSUME IInv, [Next]_vars, visited' = visited, Owed' = Owed,
         \/ res' = res /\ res.st # "called" /\ res.st # "ok"
         \/ res'.st = "StackOverflow"
         \/ res'.st = "ok" /\ res.st = "running" /\ stack' = <<>>
  PROVE  IInv'
<1>1. UNCHANGED <<heap, call, Klass, Root>> /\ ShapeInv'
  BY RootIsConstant, NextShape DEF IInv
<1>2. RootInv'
  BY <1>1 DEF IInv, RootInv
<1>3. ClosedInv' /\ JustifiedInv'
  BY <1>1 DEF IInv, ClosedInv, JustifiedInv, CalledFor
<1>4. RejectedHasCulprit'
  BY <1>1 DEF IInv, RejectedHasCulprit
<1> QED BY <1>1, <1>2, <1>3, <1>4 DEF IInv

\* Every step keeps the invariant.
LEMMA NextInv == IInv /\ [Next]_vars => IInv'
<1> SUFFICES ASSUME IInv, [Next]_vars PROVE IInv'
  OBVIOUS
<1>0. res \in Result /\ ShapeInv
  BY DEF IInv, ShapeInv, TypeOK
<1>1. CASE SerializeBegin
  BY <1>1, SerializeBeginInv
<1>2. CASE Enter
  BY <1>2, EnterInv
<1>3. CASE Raise
  BY <1>3, RaiseInv
<1>4. CASE CallNext
  BY <1>0, <1>4, CallNextOwed, QuietInv DEF CallNext
<1>5. CASE Overflow
  <2>1. Owed' = Owed
    BY <1>5 DEF Overflow, Owed, Owes
  <2>2. res'.st = "StackOverflow"
    BY <1>0, <1>5 DEF Overflow, Result
  <2> QED BY <1>5, <2>1, <2>2, QuietInv DEF Overflow
<1>6. CASE Leave
  BY <1>0, <1>6, LeaveOwed, QuietInv DEF Leave
<1>7. CASE SerializeEnd
  <2>1. Owed' = Owed
    BY <1>7 DEF SerializeEnd, Owed, Owes
  <2>2. res'.st = "ok"
    BY <1>0, <1>7 DEF SerializeEnd, Result
  <2> QED BY <1>7, <2>1, <2>2, QuietInv DEF SerializeEnd
<1>8. CASE UNCHANGED vars
  <2>1. Owed' = Owed
    BY <1>8 DEF vars, Owed, Owes
  <2> QED BY <1>8, <2>1, NextShape
          DEF vars, IInv, RootInv, ClosedInv, JustifiedInv, CalledFor,
              RejectedHasCulprit, Root, Klass
<1> QED BY <1>1, <1>2, <1>3, <1>4, <1>5, <1>6, <1>7, <1>8 DEF Next

LEMMA InvHolds == Spec => []IInv
BY InitInv, NextInv, PTL DEF Spec

\* A serialization that returns bytes has checked everything reachable from its
\* argument, whatever the schema and the object graph.
THEOREM AcceptedDataIsValid == Spec => []AcceptedIsValid
<1>1. IInv => AcceptedIsValid
  <2> SUFFICES ASSUME IInv, res.st = "ok"
               PROVE  /\ heap[call.data].klass = Klass
                      /\ Root \in visited
                      /\ \A a \in visited : /\ Verdict(heap, a) = "ok"
                                            /\ Callees(heap, a) \subseteq visited
    BY DEF AcceptedIsValid
  <2>1. stack = <<>>
    BY DEF IInv, RootInv
  <2>2. Owed = {}
    BY <2>1 DEF Owed
  <2> QED BY <2>2 DEF IInv, RootInv, ClosedInv
<1> QED BY <1>1, InvHolds, PTL

\* An exception always has a culprit below the root that fails the very check
\* the exception stands for.
THEOREM RejectedDataHasCulprit == Spec => []RejectedHasCulprit
<1>1. IInv => RejectedHasCulprit
  BY DEF IInv
<1> QED BY <1>1, InvHolds, PTL

(****************************************************************************)
(* What it means for data to conform, with no mention of the traversal:      *)
(* there is a set of checks that all hold, contains the check of the root,   *)
(* and contains the checks each of its members calls for.                    *)
(****************************************************************************)
IsClosed(S) == Root \in S /\ \A a \in S : Callees(heap, a) \subseteq S

Conforms ==
  /\ heap[call.data].klass = Klass
  /\ \E S \in SUBSET Activation : IsClosed(S) /\ \A a \in S : Verdict(heap, a) = "ok"

\* The traversal never leaves the part of the data that is called for.
StaysReachable == \A S \in SUBSET Activation : IsClosed(S) => visited \subseteq S

LEMMA ReachableHolds == Spec => []StaysReachable
<1>1. Init => StaysReachable
  BY DEF Init, StaysReachable
<1>2. IInv /\ StaysReachable /\ [Next]_vars => StaysReachable'
  <2> SUFFICES ASSUME IInv, StaysReachable, [Next]_vars,
                      NEW S \in SUBSET Activation, IsClosed(S)'
               PROVE  visited' \subseteq S
    BY DEF StaysReachable
  <2>1. UNCHANGED <<heap, call, Klass, Root>>
    BY RootIsConstant
  <2>2. IsClosed(S) /\ visited \subseteq S
    BY <2>1 DEF IsClosed, StaysReachable
  <2>3. CASE Enter
    <3>1. Top.act \in Owed
      BY <2>3, TopIsOwed DEF IInv, ShapeInv, TypeOK, Enter
    <3>2. Top.act \in S
      BY <2>2, <3>1 DEF IInv, JustifiedInv, CalledFor, IsClosed
    <3> QED BY <2>2, <2>3, <3>2 DEF Enter
  <2>4. CASE ~Enter
    <3>1. visited' = visited
      BY Zenon, <2>4 DEF Next, vars, SerializeBegin, Raise, CallNext, Overflow, Leave, SerializeEnd
    <3> QED BY SMTT(40), <2>2, <3>1
  <2> QED BY <2>3, <2>4
<1> QED BY <1>1, <1>2, InvHolds, PTL DEF Spec

\* Serialization decides conformance: it returns bytes only for data that
\* conforms to the schema and raises only for data that does not.  (The third
\* outcome, a stack overflow, decides nothing: see Terminates.)
THEOREM SerializeDecidesConformance ==
  Spec => []( /\ res.st = "ok" => Conforms
              /\ res.st = "raised" => ~Conforms )
<1>1. IInv /\ StaysReachable =>
        /\ res.st = "ok" => Conforms
        /\ res.st = "raised" => ~Conforms
  <2> SUFFICES ASSUME IInv, StaysReachable
               PROVE  /\ res.st = "ok" => Conforms
                      /\ res.st = "raised" => ~Conforms
    OBVIOUS
  <2>1. ASSUME res.st = "ok" PROVE Conforms
    <3>1. stack = <<>>
      BY <2>1 DEF IInv, RootInv
    <3>2. Owed = {}
      BY <3>1 DEF Owed
    <3>3. visited \in SUBSET Activation
      BY DEF IInv, ShapeInv, TypeOK
    <3>4. IsClosed(visited) /\ \A a \in visited : Verdict(heap, a) = "ok"
      BY <2>1, <3>2 DEF IInv, RootInv, ClosedInv, IsClosed
    <3>5. heap[call.data].klass = Klass
      BY <2>1 DEF IInv, RootInv
    <3> QED BY <3>3, <3>4, <3>5 DEF Conforms
  <2>2. ASSUME res.st = "raised", Conforms PROVE FALSE
    <3>1. PICK S \in SUBSET Activation :
            IsClosed(S) /\ \A a \in S : Verdict(heap, a) = "ok"
      BY <2>2 DEF Conforms
    <3>2. visited \subseteq S
      BY <3>1 DEF StaysReachable
    <3>3. res.culprit = Root \/ \E a \in visited : res.culprit \in Callees(heap, a)
      BY <2>2 DEF IInv, RejectedHasCulprit
    <3>4. res.culprit \in S
      BY <3>1, <3>2, <3>3 DEF IsClosed
    <3>5. Verdict(heap, res.culprit) # "ok"
      BY <2>2 DEF IInv, RejectedHasCulprit, Conforms
    <3> QED BY <3>1, <3>4, <3>5
  <2> QED BY <2>1, <2>2
<1> QED BY <1>1, InvHolds, ReachableHolds, PTL
(****************************************************************************)
(* Who is to blame, and what fills the stack.                                *)
(****************************************************************************)

\* The struct and the field of it whose value is being written, only containers
\* between it and frame n.
Blamed(n, struct, field) ==
  \E j \in 1..n - 1 :
    /\ stack[j].act.klass = struct
    /\ stack[j].at \in Fids(stack[j].act.klass)
    /\ FieldInfo[InfoOf(stack[j].act.klass, stack[j].at)].symName = field
    /\ \A m \in j + 1 .. n - 1 :
         /\ stack[m].act.klass = NULL
         /\ FieldInfo[stack[m].act.info].ftype \in SequenceTypes \cup {"MAP"}

\* Each writeStruct is of an object of its class; each writeAny was handed down
\* what is to blame for it; all frames but the innermost have passed their checks.
FrameInv(n) ==
  LET f == stack[n] IN
  /\ f.act.klass # NULL => heap[f.act.val].klass = f.act.klass
  /\ f.act.klass = NULL => Blamed(n, heap[f.outer].klass, f.sym)
  /\ IF f.pc = "called" THEN n = Len(stack) ELSE f.act \in visited
FramesInv == \A n \in 1..Len(stack) : FrameInv(n)

\* The frames below the innermost keep what is said of them.
LEMMA FrameInvKept ==
  ASSUME NEW n \in 1..Len(stack), FrameInv(n), n \in 1..Len(stack'),
         stack \in Seq(Frame), heap' = heap, visited \subseteq visited',
         \A k \in 1..n - 1 : stack'[k] = stack[k],
         stack'[n].act = stack[n].act, stack'[n].outer = stack[n].outer,
         stack'[n].sym = stack[n].sym,
         IF stack'[n].pc = "called" THEN n = Len(stack') ELSE stack[n].act \in visited'
  PROVE  FrameInv(n)'
<1>1. Len(stack) \in Nat
  BY LenProperties
<1>2. Blamed(n, heap[stack[n].outer].klass, stack[n].sym)
        => Blamed(n, heap[stack[n].outer].klass, stack[n].sym)'
  BY SMTT(40), <1>1 DEF Blamed
<1> QED BY <1>2 DEF FrameInv

\* A callee may blame whom it is told to.
LEMMA CallNextFrameInv ==
  ASSUME IInv, FramesInv, CallNext
  PROVE  FramesInv'
<1>1. PICK i \in Top.rest, f \in Frame, g \in Frame :
           /\ i \in Slots(heap, Top.act)
           /\ f.pc = "looping" /\ f.act = Top.act /\ f.rest = Top.rest \ {i} /\ f.at = i
           /\ f.outer = Top.outer /\ f.sym = Top.sym
           /\ g.pc = "called" /\ g.act = Callee(heap, Top.act, i)
           /\ IF Top.act.klass = NULL
              THEN g.outer = Top.outer /\ g.sym = Top.sym
              ELSE g.outer = Top.act.val /\ g.sym = FieldInfo[g.act.info].symName
           /\ stack' \in Seq(Frame)
           /\ Len(stack') = Len(stack) + 1
           /\ \A n \in 1..Len(stack) : stack'[n] = IF n = Len(stack) THEN f ELSE stack[n]
           /\ stack'[Len(stack) + 1] = g
  BY SMTT(40), CallNextFrames DEF IInv
<1>2. /\ stack \in Seq(Frame) /\ stack # <<>> /\ Top.pc = "looping" /\ IsHeap(heap)
      /\ heap' = heap /\ visited' = visited
  BY DEF IInv, ShapeInv, TypeOK, CallNext
<1>0. PICK N : N = Len(stack)
  OBVIOUS
<1>3. N \in Nat \ {0} /\ N \in 1..N /\ Top \in Frame /\ Top.act \in Activation /\ stack[N] = Top
  BY <1>0, <1>2, TopIsFrame DEF Frame, Top
<1>4. FrameInv(N) /\ Top.act \in visited /\ Verdict(heap, Top.act) = "ok"
  <2>1. FrameInv(N)
    BY <1>0, <1>3 DEF FramesInv
  <2>2. Top.act \in visited
    BY <1>2, <1>3, <2>1 DEF FrameInv
  <2> QED BY <2>1, <2>2 DEF IInv, ClosedInv
<1>5. \A k \in 1..N - 1 : stack'[k] = stack[k]
  BY <1>0, <1>1, <1>3
<1>6. stack'[N] = f
  BY <1>0, <1>1, <1>3
<1>7. ASSUME NEW n \in 1..N PROVE FrameInv(n)'
  <2>1. FrameInv(n) /\ \A k \in 1..n - 1 : stack'[k] = stack[k]
    BY <1>0, <1>3, <1>5 DEF FramesInv
  <2>2. CASE n = N
    <3>1. /\ n \in 1..Len(stack') /\ stack'[n] = f /\ stack[n] = Top
          /\ stack'[n].pc # "called" /\ stack[n].act \in visited'
      BY <1>0, <1>1, <1>2, <1>3, <1>4, <1>6, <2>2
    <3>2. stack'[n].act = stack[n].act /\ stack'[n].outer = stack[n].outer /\ stack'[n].sym = stack[n].sym
      BY <1>0, <1>1, <3>1
    <3> QED BY <1>0, <1>2, <2>1, <3>1, <3>2, FrameInvKept
  <2>3. CASE n # N
    <3>1. n # Len(stack) /\ stack'[n] = stack[n] /\ n \in 1..Len(stack')
      BY <1>0, <1>1, <1>3, <2>3
    <3>2. stack[n].pc # "called" /\ stack[n].act \in visited
      BY <1>0, <2>1, <3>1 DEF FrameInv
    <3> QED BY <1>0, <1>2, <2>1, <3>1, <3>2, FrameInvKept
  <2> QED BY <2>2, <2>3
<1>8. FrameInv(N + 1)'
  <2>1. CASE Top.act.klass # NULL
    <3>1. Top.act.klass \in Klasses /\ i \in Fids(Top.act.klass)
      BY <1>0, <1>1, <1>3, <2>1 DEF Activation, Slots, Present
    <3>2. g.act.klass = NULL /\ g.act.info = InfoOf(Top.act.klass, i)
      BY <1>0, <1>1, <2>1 DEF Callee, AnyOf
    <3>3. heap[Top.act.val].klass = Top.act.klass
      BY <1>0, <1>3, <1>4, <2>1 DEF FrameInv
    <3>4. Blamed(N + 1, heap[g.outer].klass, g.sym)'
      BY <1>0, <1>1, <1>2, <1>3, <1>6, <2>1, <3>1, <3>2, <3>3 DEF Blamed
    <3> QED BY <1>0, <1>1, <1>2, <3>2, <3>4 DEF FrameInv
  <2>2. CASE Top.act.klass = NULL /\ FieldInfo[Top.act.info].ftype = "STRUCT"
    <3>1. g.act = StructOf(FieldInfo[Top.act.info].klass, Top.act.val)
      BY <1>0, <1>1, <2>2 DEF Callee
    <3>2. heap[Top.act.val].klass = FieldInfo[Top.act.info].klass
      BY <1>0, <1>4, <2>2 DEF Verdict, Convert, Width
    <3>3. Top.act.info \in Infos /\ FieldInfo[Top.act.info].klass # NULL
      BY <1>0, <1>3, <2>2, SchemaAssumption DEF Activation, WellFormedInfo
    <3>4. g.act.klass # NULL /\ heap[g.act.val].klass = g.act.klass
      BY <3>1, <3>2, <3>3 DEF StructOf
    <3> QED BY <1>0, <1>1, <1>2, <3>4 DEF FrameInv
  <2>3. CASE Top.act.klass = NULL /\ FieldInfo[Top.act.info].ftype # "STRUCT"
    <3>1. g.act.klass = NULL
      BY <1>0, <1>1, <2>3 DEF Callee, AnyOf
    <3>2. FieldInfo[Top.act.info].ftype \in SequenceTypes \cup {"MAP"}
      <4>1. FieldInfo[Top.act.info].ftype \notin ScalarTypes
        BY <1>0, <1>1, <2>3 DEF Slots
      <4>2. FieldInfo[Top.act.info].ftype \in TType
        BY <1>0, <1>3, <2>3, SchemaAssumption DEF Activation, WellFormedInfo, FieldInfoRecord
      <4> QED BY <2>3, <4>1, <4>2 DEF TType
    <3>3. Blamed(N, heap[Top.outer].klass, Top.sym)
      BY <1>0, <1>3, <1>4, <2>3 DEF FrameInv
    <3>4. PICK j \in 1..N - 1 :
            /\ stack[j].act.klass = heap[Top.outer].klass
            /\ stack[j].at \in Fids(stack[j].act.klass)
            /\ FieldInfo[InfoOf(stack[j].act.klass, stack[j].at)].symName = Top.sym
            /\ \A m \in j + 1 .. N - 1 :
                 /\ stack[m].act.klass = NULL
                 /\ FieldInfo[stack[m].act.info].ftype \in SequenceTypes \cup {"MAP"}
      BY <3>3 DEF Blamed
    <3>5. PICK n : n = N + 1
      OBVIOUS
    <3>6. /\ stack'[j].act.klass = heap'[g.outer].klass
          /\ stack'[j].at \in Fids(stack'[j].act.klass)
          /\ FieldInfo[InfoOf(stack'[j].act.klass, stack'[j].at)].symName = g.sym
      BY <1>0, <1>1, <1>2, <1>3, <1>5, <2>3, <3>4
    <3>7. ASSUME NEW m \in j + 1 .. n - 1
          PROVE  /\ stack'[m].act.klass = NULL
                 /\ FieldInfo[stack'[m].act.info].ftype \in SequenceTypes \cup {"MAP"}
      <4>1. CASE m = N
        BY <1>0, <1>1, <1>6, <2>3, <3>2, <4>1
      <4>2. CASE m # N
        <5>1. m \in j + 1 .. N - 1 /\ m \in 1..N - 1
          BY <1>3, <3>5, <4>2
        <5> QED BY <1>5, <3>4, <5>1
      <4> QED BY <4>1, <4>2
    <3>8. j \in 1..n - 1
      BY <1>3, <3>5
    <3>9. Blamed(n, heap[g.outer].klass, g.sym)'
      BY <3>6, <3>7, <3>8, Zenon DEF Blamed
    <3> QED BY <1>0, <1>1, <1>2, <3>1, <3>5, <3>9 DEF FrameInv
  <2> QED BY <2>1, <2>2, <2>3
<1> QED BY <1>0, <1>1, <1>3, <1>7, <1>8 DEF FramesInv

\* Passing its checks does not change what the innermost frame may blame.
LEMMA EnterFrameInv ==
  ASSUME IInv, FramesInv, Enter
  PROVE  FramesInv'
<1> DEFINE N == Len(stack)
           f == [Top EXCEPT !.pc = "looping", !.rest = Slots(heap, Top.act)]
<1>1. /\ stack \in Seq(Frame) /\ stack # <<>> /\ IsHeap(heap)
      /\ heap' = heap /\ visited' = visited \cup {Top.act} /\ stack' = WithTop(f)
  BY DEF IInv, ShapeInv, TypeOK, Enter
<1>2. N \in Nat \ {0} /\ N \in 1..N /\ Top \in Frame /\ Top.act \in Activation /\ stack[N] = Top
  BY <1>1, TopIsFrame DEF Frame, Top
<1>3. Slots(heap, Top.act) \subseteq Int
  BY <1>1, <1>2, SlotsAreIntegers
<1>4. /\ f \in Frame /\ f.pc = "looping" /\ f.act = Top.act
      /\ f.outer = Top.outer /\ f.sym = Top.sym
  BY <1>2, <1>3 DEF Frame
<1> HIDE DEF f
<1>5. /\ Len(stack') = N
      /\ \A n \in 1..N : stack'[n] = IF n = N THEN f ELSE stack[n]
  BY <1>1, <1>4, WithTopFacts
<1>6. ASSUME NEW n \in 1..N PROVE FrameInv(n)'
  <2>1. FrameInv(n) /\ n \in 1..Len(stack') /\ \A k \in 1..n - 1 : stack'[k] = stack[k]
    BY <1>2, <1>5 DEF FramesInv
  <2>2. /\ stack'[n].act = stack[n].act /\ stack'[n].outer = stack[n].outer
        /\ stack'[n].sym = stack[n].sym
    BY <1>2, <1>4, <1>5
  <2>3. stack'[n].pc # "called" /\ stack[n].act \in visited'
    <3>1. CASE n = N
      BY <1>1, <1>2, <1>4, <1>5, <3>1
    <3>2. CASE n # N
      <4>1. stack'[n] = stack[n] /\ n # Len(stack)
        BY <1>5, <3>2
      <4> QED BY <1>1, <2>1, <4>1 DEF FrameInv
    <3> QED BY <3>1, <3>2
  <2> QED BY <1>1, <2>1, <2>2, <2>3, FrameInvKept
<1> QED BY <1>5, <1>6 DEF FramesInv

\* Nor does returning from it change what the others may.
LEMMA LeaveFrameInv ==
  ASSUME IInv, FramesInv, Leave
  PROVE  FramesInv'
<1>1. /\ stack \in Seq(Frame) /\ stack # <<>>
      /\ heap' = heap /\ visited' = visited /\ stack' = Pop
  BY DEF IInv, ShapeInv, TypeOK, Leave
<1>2. /\ Len(stack) \in Nat /\ Len(stack') = Len(stack) - 1
      /\ \A n \in 1..Len(stack) - 1 : stack'[n] = stack[n]
  BY <1>1, PopFacts, TopIsFrame
<1>3. ASSUME NEW n \in 1..Len(stack') PROVE FrameInv(n)'
  <2>1. /\ n \in 1..Len(stack) /\ n # Len(stack) /\ stack'[n] = stack[n]
        /\ \A k \in 1..n - 1 : stack'[k] = stack[k]
    BY <1>2
  <2>2. FrameInv(n)
    BY <2>1 DEF FramesInv
  <2>3. stack[n].pc # "called" /\ stack[n].act \in visited
    BY <2>1, <2>2 DEF FrameInv
  <2> QED BY <1>1, <2>1, <2>2, <2>3, FrameInvKept
<1> QED BY <1>3 DEF FramesInv

\* The other steps push the root, or leave the stack alone.
LEMMA SerializeBeginFrameInv ==
  ASSUME IInv, SerializeBegin
  PROVE  FramesInv'
<1>1. CASE heap[call.data].klass = Klass
  <2>1. stack' = <<NewFrame(Root, call.data, NULL)>>
    BY <1>1 DEF SerializeBegin
  <2>2. Len(stack') = 1 /\ stack'[1] = NewFrame(Root, call.data, NULL)
    BY <2>1
  <2>3. stack'[1].pc = "called" /\ stack'[1].act = StructOf(Klass, call.data)
    BY <2>2 DEF NewFrame, Root
  <2>4. Klass \in Klasses /\ Klass # NULL
    BY SchemaAssumption DEF IInv, ShapeInv, TypeOK
  <2>5. stack'[1].act.klass = Klass /\ stack'[1].act.val = call.data
    BY <2>3 DEF StructOf
  <2>6. FrameInv(1)'
    BY <1>1, <2>2, <2>3, <2>4, <2>5 DEF FrameInv, SerializeBegin
  <2> QED BY <2>2, <2>6 DEF FramesInv
<1>2. CASE heap[call.data].klass # Klass
  <2>1. stack' = <<>>
    BY <1>2 DEF SerializeBegin, IInv, RootInv
  <2> QED BY <2>1 DEF FramesInv
<1> QED BY <1>1, <1>2

LEMMA SameFrames ==
  ASSUME FramesInv, UNCHANGED <<heap, stack, visited>>
  PROVE  FramesInv'
BY DEF FramesInv, FrameInv, Blamed

LEMMA FramesStep == IInv /\ FramesInv /\ [Next]_vars => FramesInv'
<1> SUFFICES ASSUME IInv, FramesInv, [Next]_vars PROVE FramesInv'
  OBVIOUS
<1>1. CASE SerializeBegin
  BY <1>1, SerializeBeginFrameInv
<1>2. CASE Enter
  BY <1>2, EnterFrameInv
<1>3. CASE CallNext
  BY <1>3, CallNextFrameInv
<1>4. CASE Leave
  BY <1>4, LeaveFrameInv
<1>5. CASE Raise \/ Overflow \/ SerializeEnd \/ UNCHANGED vars
  <2>1. UNCHANGED <<heap, stack, visited>>
    BY <1>5 DEF Raise, Overflow, SerializeEnd, vars
  <2> QED BY <2>1, SameFrames
<1> QED BY <1>1, <1>2, <1>3, <1>4, <1>5 DEF Next

LEMMA FramesHold == Spec => []FramesInv
<1>1. Init => FramesInv
  BY DEF Init, FramesInv
<1> QED BY <1>1, FramesStep, InvHolds, PTL DEF Spec

\* An unset required field that comes before all others.
LEMMA FirstMissing ==
  ASSUME NEW k \in Klasses, NEW val, NEW fid \in Fids(k), IsFirst(fid, Missing(heap, k, val))
  PROVE  /\ ~FieldInfo[InfoOf(k, fid)].isOptional
         /\ IvarGet(heap, val, InfoOf(k, fid)) = nil
         /\ \A other \in Fids(k) : other < fid =>
              ~( /\ ~FieldInfo[InfoOf(k, other)].isOptional
                 /\ IvarGet(heap, val, InfoOf(k, other)) = nil )
<1>1. Fids(k) \subseteq Int
  BY SchemaAssumption DEF Fids
<1>2. \A other : other \in Missing(heap, k, val) <=>
        /\ other \in Fids(k)
        /\ ~FieldInfo[InfoOf(k, other)].isOptional
        /\ IvarGet(heap, val, InfoOf(k, other)) = nil
  BY DEF Missing, Present
<1>3. fid \in Missing(heap, k, val) /\ \A other \in Missing(heap, k, val) : fid <= other
  BY DEF IsFirst
<1>4. ASSUME NEW other \in Fids(k), other < fid PROVE other \notin Missing(heap, k, val)
  <2>1. other \in Int /\ fid \in Int
    BY <1>1
  <2> QED BY <1>3, <1>4, <2>1
<1> QED BY <1>2, <1>3, <1>4

\* An exception is raised for what the innermost frame was told to blame.
LEMMA RaiseBlames ==
  ASSUME IInv, FramesInv, Raise
  PROVE  BlameNamesTheField'
<1>1. stack \in Seq(Frame) /\ stack # <<>> /\ UNCHANGED <<heap, stack>> /\ TypeOK
  BY DEF IInv, ShapeInv, TypeOK, Raise
<1>2. Top \in Frame /\ Top.act \in Activation /\ Len(stack) \in 1..Len(stack)
  BY <1>1, TopIsFrame DEF Frame
<1>3. FrameInv(Len(stack))
  BY <1>2 DEF FramesInv
<1>4. res'.exc = Verdict(heap, Top.act)
  BY <1>1, RaiseResult
<1>5. CASE Verdict(heap, Top.act) = "TypeMismatch"
  <2>1. Top.act.klass = NULL
    BY <1>5 DEF Verdict
  <2>2. Blamed(Len(stack), heap[Top.outer].klass, Top.sym)
    BY <1>3, <2>1 DEF FrameInv, Top
  <2>3. res'.struct = heap[Top.outer].klass /\ res'.field = Top.sym
    BY SMTT(40), <1>5 DEF Raise, Raised
  <2> QED BY <1>1, <1>4, <1>5, <2>2, <2>3 DEF Blamed, BlameNamesTheField
<1>6. CASE Verdict(heap, Top.act) = "MissingMandatory"
  <2>1. Top.act.klass \in Klasses
    BY <1>2, <1>6, VerdictOfWriteAny DEF Activation
  <2>2. PICK fid \in Fids(Top.act.klass) :
          /\ IsFirst(fid, Missing(heap, Top.act.klass, Top.act.val))
          /\ res' = Raised("MissingMandatory", Top.act.klass,
                           FieldInfo[InfoOf(Top.act.klass, fid)].symName, Top.act)
    BY <1>6 DEF Raise
  <2>3. /\ res'.exc = "MissingMandatory" /\ res'.struct = Top.act.klass
        /\ res'.field = FieldInfo[InfoOf(Top.act.klass, fid)].symName
        /\ res'.culprit = Top.act
    BY <2>2 DEF Raised
  <2>4. /\ ~FieldInfo[InfoOf(Top.act.klass, fid)].isOptional
        /\ IvarGet(heap, Top.act.val, InfoOf(Top.act.klass, fid)) = nil
        /\ \A other \in Fids(Top.act.klass) : other < fid =>
             ~( /\ ~FieldInfo[InfoOf(Top.act.klass, other)].isOptional
                /\ IvarGet(heap, Top.act.val, InfoOf(Top.act.klass, other)) = nil )
    BY <2>1, <2>2, FirstMissing
  <2> QED BY <1>1, <2>3, <2>4 DEF BlameNamesTheField, IvarGet
<1>7. CASE Verdict(heap, Top.act) = "RangeError"
  BY <1>4, <1>7 DEF BlameNamesTheField
<1> QED BY <1>5, <1>6, <1>7 DEF Raise


\* Only a call that raised carries an exception.
ExceptionInv == res.st # "raised" => res.exc = NULL

LEMMA ExceptionStep == IInv /\ ExceptionInv /\ [Next]_vars => ExceptionInv'
<1> SUFFICES ASSUME IInv, ExceptionInv, [Next]_vars PROVE ExceptionInv'
  OBVIOUS
<1>0. res \in Result
  BY DEF IInv, ShapeInv, TypeOK
<1>1. CASE SerializeBegin
  <2>1. CASE heap[call.data].klass = Klass
    BY <1>0, <1>1, <2>1 DEF SerializeBegin, ExceptionInv, Result
  <2>2. CASE heap[call.data].klass # Klass
    BY <1>1, <2>2 DEF SerializeBegin, Raised, ExceptionInv
  <2> QED BY <2>1, <2>2
<1>2. CASE Raise
  <2>1. res'.st = "raised"
    BY <1>2, RaiseResult DEF IInv, ShapeInv
  <2> QED BY <2>1 DEF ExceptionInv
<1>3. CASE Overflow \/ SerializeEnd
  BY SMTT(40), <1>0, <1>3 DEF Overflow, SerializeEnd, ExceptionInv, Result
<1>4. CASE Enter \/ CallNext \/ Leave \/ UNCHANGED vars
  BY <1>4 DEF Enter, CallNext, Leave, vars, ExceptionInv
<1> QED BY <1>1, <1>2, <1>3, <1>4 DEF Next

LEMMA BlameStep ==
  IInv /\ FramesInv /\ ExceptionInv /\ BlameNamesTheField /\ [Next]_vars
    => BlameNamesTheField'
<1> SUFFICES ASSUME IInv, FramesInv, ExceptionInv, BlameNamesTheField, [Next]_vars
             PROVE  BlameNamesTheField'
  OBVIOUS
<1>0. ExceptionInv'
  BY ExceptionStep
<1>1. CASE Raise
  BY <1>1, RaiseBlames
<1>2. CASE SerializeBegin
  <2>1. CASE heap[call.data].klass = Klass
    <3>1. res'.exc \notin Exceptions
      BY <1>0, <1>2, <2>1, NullIsNoException DEF SerializeBegin, ExceptionInv, IInv, ShapeInv, TypeOK, Result
    <3> QED BY <3>1 DEF BlameNamesTheField, Exceptions
  <2>2. CASE heap[call.data].klass # Klass
    <3>1. stack' = <<>> /\ res'.exc = "TypeMismatch"
      BY <1>2, <2>2 DEF SerializeBegin, Raised, IInv, RootInv
    <3> QED BY <3>1 DEF BlameNamesTheField
  <2> QED BY <2>1, <2>2
<1>3. CASE Enter \/ CallNext \/ Overflow \/ Leave \/ SerializeEnd
  <2>1. res'.exc \notin Exceptions
    <3>1. res.st = "running" /\ res \in Result
      BY ZenonT(40), <1>3 DEF Enter, CallNext, Overflow, Leave, SerializeEnd, IInv, ShapeInv, TypeOK
    <3>2. res'.exc = res.exc
      BY <1>3, <3>1 DEF Enter, CallNext, Overflow, Leave, SerializeEnd, Result
    <3> QED BY SMTT(40), <3>1, <3>2, NullIsNoException DEF ExceptionInv
  <2> QED BY <2>1 DEF BlameNamesTheField, Exceptions
<1>4. CASE UNCHANGED vars
  BY <1>4 DEF vars, BlameNamesTheField, IvarGet
<1> QED BY <1>1, <1>2, <1>3, <1>4 DEF Next

\* The attributes of an exception lead to the fault, however deep it lies: a
\* TypeMismatch names the innermost struct being written and the field of it that
\* was being written (outer_struct and field_sym, handed down unchanged through any
\* depth of containers), a MissingMandatory the refused struct and its first field
\* that is required and unset.
THEOREM BlameLeadsToTheField == Spec => []BlameNamesTheField
<1>1. Init => ExceptionInv /\ BlameNamesTheField
  <2> SUFFICES ASSUME Init PROVE ExceptionInv /\ BlameNamesTheField
    OBVIOUS
  <2>1. res.exc = NULL
    BY DEF Init, Pending
  <2> QED BY <2>1, NullIsNoException DEF ExceptionInv, BlameNamesTheField, Exceptions
<1> QED BY <1>1, ExceptionStep, BlameStep, InvHolds, FramesHold, PTL DEF Spec

(****************************************************************************)
(* What fills the stack.                                                     *)
(****************************************************************************)

\* The stack has room for every activation of some closed set of them, in
\* particular for all that can be reached from the root.
WithRoom ==
  \E S \in SUBSET Activation :
    IsFiniteSet(S) /\ IsClosed(S) /\ Cardinality(S) < MaxDepth

OverflowInv == res.st = "StackOverflow" => Len(stack) >= MaxDepth

LEMMA OverflowStep == IInv /\ OverflowInv /\ [Next]_vars => OverflowInv'
<1> SUFFICES ASSUME IInv, OverflowInv, [Next]_vars PROVE OverflowInv'
  OBVIOUS
<1>0. res \in Result
  BY DEF IInv, ShapeInv, TypeOK
<1>1. CASE Overflow
  BY <1>1 DEF Overflow, OverflowInv
<1>2. CASE SerializeBegin
  <2>1. CASE heap[call.data].klass = Klass
    BY <1>0, <1>2, <2>1 DEF SerializeBegin, OverflowInv, Result
  <2>2. CASE heap[call.data].klass # Klass
    BY <1>2, <2>2 DEF SerializeBegin, Raised, OverflowInv
  <2> QED BY <2>1, <2>2
<1>3. CASE Raise
  <2>1. res'.st = "raised"
    BY <1>3, RaiseResult DEF IInv, ShapeInv
  <2> QED BY <2>1 DEF OverflowInv
<1>4. CASE SerializeEnd
  BY SMTT(40), <1>0, <1>4 DEF SerializeEnd, OverflowInv, Result
<1>5. CASE Enter \/ CallNext \/ Leave
  BY <1>5 DEF Enter, CallNext, Leave, OverflowInv
<1>6. CASE UNCHANGED vars
  BY <1>6 DEF vars, OverflowInv
<1> QED BY <1>1, <1>2, <1>3, <1>4, <1>5, <1>6 DEF Next

\* Every frame runs an activation that is called for.
LEMMA FramesAreReachable ==
  ASSUME IInv, FramesInv, StaysReachable,
         NEW S \in SUBSET Activation, IsClosed(S), NEW n \in 1..Len(stack)
  PROVE  stack[n].act \in S
<1>1. visited \subseteq S
  BY DEF StaysReachable
<1>2. FrameInv(n)
  BY DEF FramesInv
<1>3. CASE stack[n].pc = "called"
  <2>1. stack[n].act \in Owed
    BY <1>3 DEF Owed, Owes
  <2>2. CalledFor(stack[n].act)
    BY <2>1 DEF IInv, JustifiedInv
  <2> QED BY <1>1, <2>2 DEF CalledFor, IsClosed
<1>4. CASE stack[n].pc # "called"
  BY <1>1, <1>2, <1>4 DEF FrameInv
<1> QED BY <1>3, <1>4

\* More frames than activations: one of them is on the stack twice.
LEMMA FullStackIsCyclic ==
  ASSUME NEW S, IsFiniteSet(S), Len(stack) \in Nat, Cardinality(S) < Len(stack),
         \A n \in 1..Len(stack) : stack[n].act \in S
  PROVE  Cyclic
<1> DEFINE D == 1..Len(stack)
           f == [n \in D |-> stack[n].act]
<1>1. IsFiniteSet(D) /\ Cardinality(D) = Len(stack)
  BY SMTT(40), FS_Interval
<1>2. f \in [D -> S]
  OBVIOUS
<1>3. Cardinality(S) < Cardinality(D)
  BY <1>1
<1> HIDE DEF D, f
<1>4. \E x, y \in D : x # y /\ f[x] = f[y]
  BY <1>1, <1>2, <1>3, FS_PigeonHole
<1>5. PICK x \in D, y \in D : x # y /\ stack[x].act = stack[y].act
  BY <1>4 DEF f
<1>6. x \in 1..Len(stack) /\ y \in 1..Len(stack) /\ (x < y \/ y < x)
  BY <1>5 DEF D
<1> QED BY <1>5, <1>6 DEF Cyclic

\* Only an object that contains itself exhausts the stack: if there is room for
\* every activation the schema and the object graph allow, then a call that overflows
\* has the same writeAny or writeStruct on the stack twice.
THEOREM OnlyCyclesExhaustTheStack == Spec => [](WithRoom => OverflowIsCyclic)
<1>1. Init => OverflowInv
  BY DEF Init, Pending, OverflowInv
<1>2. IInv /\ FramesInv /\ StaysReachable /\ OverflowInv => (WithRoom => OverflowIsCyclic)
  <2> SUFFICES ASSUME IInv, FramesInv, StaysReachable, OverflowInv, WithRoom,
                      res.st = "StackOverflow"
               PROVE  Cyclic
    BY DEF OverflowIsCyclic
  <2>1. PICK S \in SUBSET Activation :
          IsFiniteSet(S) /\ IsClosed(S) /\ Cardinality(S) < MaxDepth
    BY DEF WithRoom
  <2>2. Len(stack) \in Nat /\ Len(stack) >= MaxDepth
    BY LenProperties DEF IInv, ShapeInv, TypeOK, OverflowInv
  <2>3. Cardinality(S) < Len(stack)
    BY <2>1, <2>2, FS_CardinalityType, WriterAssumption
  <2>4. \A n \in 1..Len(stack) : stack[n].act \in S
    BY <2>1, FramesAreReachable
  <2> QED BY <2>1, <2>2, <2>3, <2>4, FullStackIsCyclic
<1> QED BY <1>1, <1>2, OverflowStep, InvHolds, FramesHold, ReachableHolds, PTL DEF Spec

(****************************************************************************)
(* Facts about the schema and the events.                                    *)
(****************************************************************************)

\* What the frames hold of the schema.
LEMMA InfoIsWellFormed ==
  ASSUME NEW i \in Infos
  PROVE  /\ FieldInfo[i].ftype \in TType
         /\ FieldInfo[i].klass \in Klasses \cup {NULL}
         /\ FieldInfo[i].elementType \in Infos \cup {NULL}
         /\ FieldInfo[i].keyType \in Infos \cup {NULL}
         /\ FieldInfo[i].ftype \in SequenceTypes \cup {"MAP"} => FieldInfo[i].elementType \in Infos
         /\ FieldInfo[i].ftype = "STRUCT" <=> FieldInfo[i].klass \in Klasses
BY SchemaAssumption DEF WellFormedInfo, FieldInfoRecord

\* So do the fields of a class.
LEMMA FieldHasInfo ==
  ASSUME NEW k \in Klasses, NEW fid \in Fids(k)
  PROVE  InfoOf(k, fid) \in Infos /\ FieldInfo[InfoOf(k, fid)].symName \in Names /\ fid \in Int
BY SchemaAssumption DEF Fids, InfoOf

\* The kinds of events, told apart by ev.
LEMMA EventKinds ==
  ASSUME NEW e \in WireEvent
  PROVE  /\ e.ev = "field" => e.type \in TType /\ e.fid \in Int /\ e.delta \in 0..15
         /\ e.ev = "list" => e.elem \in TType /\ e.size \in Nat
         /\ e.ev = "map" => e.key \in TType /\ e.elem \in TType /\ e.size \in Nat
         /\ e.ev = "scalar" => e.type \in ScalarTypes /\ e.val \in VALUE
         /\ e.ev \in {"field", "stop", "list", "map", "scalar"}
BY DEF WireEvent

\* An event that is written alone.
LEMMA SingleEvent ==
  ASSUME NEW x, <<x>> \in Seq(WireEvent)
  PROVE  x \in WireEvent
<1>1. Len(<<x>>) = 1 /\ <<x>>[1] = x /\ 1 \in 1..1
  OBVIOUS
<1> QED BY <1>1, ElementOfSeq

(****************************************************************************)
(* What is written is a sequence of events.                                  *)
(****************************************************************************)

\* What an activation writes before its slots.
LEMMA HeaderIsEvents ==
  ASSUME TypeOK, NEW a \in Activation
  PROVE  Header(heap, a) \in Seq(WireEvent)
<1>0. \A x \in WireEvent : <<x>> \in Seq(WireEvent)
  OBVIOUS
<1>1. CASE a.klass # NULL
  BY <1>1, EmptySeq DEF Header
<1>2. CASE a.klass = NULL
  <2>1. a.info \in Infos /\ a.val \in VALUE
    BY <1>2, SchemaAssumption DEF Activation
  <2>2. Len(heap[a.val].items) \in Nat /\ Len(heap[a.val].items) \div 2 \in Nat
    <3>1. heap[a.val].items \in Seq(VALUE)
      BY <2>1 DEF TypeOK, IsHeap, HeapRecord
    <3>2. Len(heap[a.val].items) \in Nat
      BY <3>1, LenProperties
    <3>3. \A n \in Nat : n \div 2 \in Nat
      OBVIOUS
    <3> QED BY <3>2, <3>3
  <2>3. FieldInfo[a.info].ftype \in TType
    BY <2>1, InfoIsWellFormed
  <2>4. CASE FieldInfo[a.info].ftype = "STRUCT"
    BY <2>4, EmptySeq DEF Header
  <2>5. CASE FieldInfo[a.info].ftype \in ScalarTypes
    <3>1. Scalar(a.info, a.val) \in WireEvent
      BY <2>1, <2>5 DEF Scalar, WireEvent
    <3>2. Header(heap, a) = <<Scalar(a.info, a.val)>>
      BY <1>2, <2>5 DEF Header, ScalarTypes, SequenceTypes
    <3> QED BY <1>0, <3>1, <3>2
  <2>6. CASE FieldInfo[a.info].ftype \in SequenceTypes
    <3>1. FieldInfo[FieldInfo[a.info].elementType].ftype \in TType
      BY <2>1, <2>6, InfoIsWellFormed
    <3>2. ListBegin(a.info, Len(heap[a.val].items)) \in WireEvent
      BY <2>2, <3>1 DEF ListBegin, WireEvent
    <3>3. Header(heap, a) = <<ListBegin(a.info, Len(heap[a.val].items))>>
      BY <1>2, <2>6 DEF Header, ScalarTypes, SequenceTypes
    <3> QED BY <1>0, <3>2, <3>3
  <2>7. CASE FieldInfo[a.info].ftype = "MAP"
    <3>1. FieldInfo[FieldInfo[a.info].elementType].ftype \in TType
          /\ FieldInfo[FieldInfo[a.info].keyType].ftype \in TType
      BY <2>1, <2>7, InfoIsWellFormed, SchemaAssumption DEF WellFormedInfo
    <3>2. MapBegin(a.info, Len(heap[a.val].items) \div 2) \in WireEvent
      BY <2>2, <3>1 DEF MapBegin, WireEvent
    <3>3. Header(heap, a) = <<MapBegin(a.info, Len(heap[a.val].items) \div 2)>>
      BY <1>2, <2>7 DEF Header, ScalarTypes, SequenceTypes
    <3> QED BY <1>0, <3>2, <3>3
  <2> QED BY <2>3, <2>4, <2>5, <2>6, <2>7 DEF TType
<1> QED BY <1>1, <1>2

\* What it writes before a slot.
LEMMA SlotHeaderIsEvents ==
  ASSUME NEW f \in Frame, NEW i \in Slots(heap, f.act)
  PROVE  SlotHeader(f, i) \in Seq(WireEvent)
<1>1. CASE f.act.klass = NULL
  BY <1>1, EmptySeq DEF SlotHeader
<1>2. CASE f.act.klass # NULL
  <2>1. f.act.klass \in Klasses /\ i \in Fids(f.act.klass) /\ f.at \in Int
    BY <1>2 DEF Frame, Activation, Slots, Present
  <2>2. InfoOf(f.act.klass, i) \in Infos /\ i \in Int
    BY <2>1, FieldHasInfo
  <2>3. FieldInfo[InfoOf(f.act.klass, i)].ftype \in TType
    BY <2>2, InfoIsWellFormed
  <2>4. (IF i - f.at \in 1..15 THEN i - f.at ELSE 0) \in 0..15
    BY <2>1, <2>2
  <2>5. FieldBegin(InfoOf(f.act.klass, i), i, f.at) \in WireEvent
    BY <2>2, <2>3, <2>4 DEF FieldBegin, WireEvent
  <2>6. \A x \in WireEvent : <<x>> \in Seq(WireEvent)
    OBVIOUS
  <2> QED BY <1>2, <2>5, <2>6 DEF SlotHeader
<1> QED BY <1>1, <1>2

\* The buffer is one of events.
OutTyped == out \in Seq(WireEvent)

\* Every step writes events.
LEMMA OutStep == ShapeInv /\ OutTyped /\ [Next]_vars => OutTyped'
<1> SUFFICES ASSUME ShapeInv, OutTyped, [Next]_vars PROVE OutTyped'
  OBVIOUS
<1>0. stack \in Seq(Frame) /\ TypeOK
  BY DEF ShapeInv, TypeOK
<1>1. CASE Enter
  <2>1. Top \in Frame /\ Top.act \in Activation
    BY <1>0, <1>1, TopIsFrame DEF Enter, Frame
  <2>2. out' = out \o Header(heap, Top.act)
    BY <1>1 DEF Enter
  <2>3. Header(heap, Top.act) \in Seq(WireEvent)
    BY <1>0, <2>1, HeaderIsEvents
  <2> QED BY <2>2, <2>3, ConcatProperties DEF OutTyped
<1>2. CASE CallNext
  <2>1. PICK i \in Top.rest : out' = out \o SlotHeader(Top, i)
    BY <1>2 DEF CallNext
  <2>2. Top \in Frame /\ Len(stack) \in 1..Len(stack) /\ Top.pc = "looping"
    BY <1>0, <1>2, TopIsFrame DEF CallNext
  <2>3. i \in Slots(heap, Top.act)
    BY <2>2 DEF ShapeInv, LoopsOverSlots, Top
  <2>4. SlotHeader(Top, i) \in Seq(WireEvent)
    BY <2>2, <2>3, SlotHeaderIsEvents
  <2> QED BY <2>1, <2>4, ConcatProperties DEF OutTyped
<1>3. CASE Leave
  <2>1. FieldStop \in WireEvent
    BY DEF FieldStop, WireEvent
  <2>2. Trailer(Top.act) \in Seq(WireEvent)
    BY <2>1, EmptySeq DEF Trailer
  <2>3. out' = out \o Trailer(Top.act)
    BY <1>3 DEF Leave
  <2> QED BY <2>2, <2>3, ConcatProperties DEF OutTyped
<1>4. CASE SerializeBegin \/ Raise \/ Overflow \/ SerializeEnd \/ UNCHANGED vars
  BY <1>4 DEF SerializeBegin, Raise, Overflow, SerializeEnd, vars, OutTyped
<1> QED BY <1>1, <1>2, <1>3, <1>4 DEF Next

(****************************************************************************)
(* Types on the wire: what follows a header is of the type it says, and the  *)
(* value of a scalar of its own.                                             *)
(****************************************************************************)

\* From p on there are n scalars of type t, unless the buffer ends before.
Run(s, p, n, t) ==
  \A i \in p..(p + n - 1) : i <= Len(s) => s[i].ev = "scalar" /\ s[i].type = t

FieldsAsSaid(s) ==
  \A p \in 1..Len(s) :
    s[p].ev = "field" /\ s[p].type \in ScalarTypes => Run(s, p + 1, 1, s[p].type)

ListsAsSaid(s) ==
  \A p \in 1..Len(s) :
    s[p].ev = "list" /\ s[p].elem \in ScalarTypes => Run(s, p + 1, s[p].size, s[p].elem)

ScalarsAsSaid(s) ==
  \A p \in 1..Len(s) :
    s[p].ev = "scalar" => (s[p].type = "STRING" <=> heap[s[p].val].type = "string")

WireTyped(s) == FieldsAsSaid(s) /\ ListsAsSaid(s) /\ ScalarsAsSaid(s)

\* The activation writes a scalar of type t.
WritesScalar(a, t) ==
  a.klass = NULL /\ a.info \in Infos /\ FieldInfo[a.info].ftype = t /\ t \in ScalarTypes

\* A field header at the end of the buffer is that of the value on top.
FieldPending ==
  \A p \in 1..Len(out) :
    out[p].ev = "field" /\ out[p].type \in ScalarTypes /\ p = Len(out) =>
      stack # <<>> /\ Top.pc = "called" /\ WritesScalar(Top.act, out[p].type)

\* The frame g writes the list at p, and has called for d of its elements.
WritesList(g, p, d) ==
  /\ g.pc = "looping" /\ g.act.klass = NULL /\ g.act.info \in Infos
  /\ FieldInfo[g.act.info].ftype \in SequenceTypes
  /\ FieldInfo[FieldInfo[g.act.info].elementType].ftype = out[p].elem
  /\ g.rest = (d + 1)..out[p].size

\* A list of which not all is written is that of the frame on top, or of the one
\* below it while the frame on top writes an element.
IsPending(p) ==
  out[p].ev = "list" /\ out[p].elem \in ScalarTypes /\ p + out[p].size > Len(out)

ElementPending(p) ==
  /\ Len(stack) > 1 /\ WritesScalar(Top.act, out[p].elem)
  /\ \/ Top.pc = "called" /\ WritesList(stack[Len(stack) - 1], p, Len(out) - p + 1)
     \/ /\ Top.pc = "looping" /\ Top.rest = {}
        /\ WritesList(stack[Len(stack) - 1], p, Len(out) - p)

ListPending ==
  \A p \in 1..Len(out) :
    IsPending(p) =>
      stack # <<>> /\ (WritesList(Top, p, Len(out) - p) \/ ElementPending(p))

NothingYet == res.st = "called" => out = <<>>

WireInv == OutTyped /\ NothingYet /\ WireTyped(out) /\ FieldPending /\ ListPending

\* Nothing is written.
LEMMA WireKept ==
  ASSUME WireTyped(out), out' = out, heap' = heap
  PROVE  WireTyped(out)'
BY DEF WireTyped, FieldsAsSaid, ListsAsSaid, ScalarsAsSaid, Run

\* An event is written, the one that is waited for if there is any.
LEMMA WireAppended ==
  ASSUME OutTyped, WireTyped(out), NEW x \in WireEvent, out' = out \o <<x>>, heap' = heap,
         x.ev = "scalar" => (x.type = "STRING" <=> heap[x.val].type = "string"),
         \A p \in 1..Len(out) :
           out[p].ev = "field" /\ out[p].type \in ScalarTypes /\ p = Len(out) =>
             x.ev = "scalar" /\ x.type = out[p].type,
         \A p \in 1..Len(out) :
           IsPending(p) => x.ev = "scalar" /\ x.type = out[p].elem
  PROVE  /\ WireTyped(out)'
         /\ Len(out') = Len(out) + 1 /\ out'[Len(out) + 1] = x
         /\ \A p \in 1..Len(out) : out'[p] = out[p]
<1>1. /\ Len(out) \in Nat /\ Len(out') = Len(out) + 1 /\ out'[Len(out) + 1] = x
      /\ \A p \in 1..Len(out) : out'[p] = out[p]
  BY ConcatProperties, LenProperties DEF OutTyped
<1>2. \A p \in 1..Len(out') : p \in 1..Len(out) \/ p = Len(out) + 1
  BY <1>1
<1>3. FieldsAsSaid(out)'
  <2>1. ASSUME NEW p \in 1..Len(out'), out'[p].ev = "field", out'[p].type \in ScalarTypes,
               NEW i \in (p + 1)..((p + 1) + 1 - 1), i <= Len(out')
        PROVE  out'[i].ev = "scalar" /\ out'[i].type = out'[p].type
    <3>1. i = p + 1 /\ p \in 1..Len(out) /\ out'[p] = out[p]
      BY <1>1, <1>2, <2>1
    <3>2. CASE p = Len(out)
      BY <1>1, <2>1, <3>1, <3>2
    <3>3. CASE p # Len(out)
      <4>1. i \in 1..Len(out) /\ i \in (p + 1)..((p + 1) + 1 - 1) /\ i <= Len(out)
        BY <1>1, <3>1, <3>3
      <4> QED BY <1>1, <2>1, <3>1, <4>1 DEF WireTyped, FieldsAsSaid, Run
    <3> QED BY <3>2, <3>3
  <2> QED BY <2>1 DEF FieldsAsSaid, Run
<1>4. ListsAsSaid(out)'
  <2>1. ASSUME NEW p \in 1..Len(out'), out'[p].ev = "list", out'[p].elem \in ScalarTypes,
               NEW i \in (p + 1)..((p + 1) + out'[p].size - 1), i <= Len(out')
        PROVE  out'[i].ev = "scalar" /\ out'[i].type = out'[p].elem
    <3>0. out[p].ev = "list" => out[p].size \in Nat
      <4>1. p \in 1..Len(out) => out[p] \in WireEvent
        BY ElementOfSeq DEF OutTyped
      <4>2. i \in Int /\ p < i
        OBVIOUS
      <4>3. p \in 1..Len(out)
        BY <1>1, <1>2, <2>1, <4>2
      <4> QED BY <4>1, <4>3, EventKinds
    <3>1. p \in 1..Len(out) /\ out'[p] = out[p] /\ out[p].size \in Nat
      <4>1. i \in Int /\ p < i
        OBVIOUS
      <4> QED BY <1>1, <1>2, <2>1, <3>0, <4>1
    <3>2. CASE i = Len(out) + 1
      <4>1. IsPending(p)
        BY <1>1, <2>1, <3>1, <3>2 DEF IsPending
      <4> QED BY <1>1, <3>1, <3>2, <4>1
    <3>3. CASE i # Len(out) + 1
      <4>1. i \in 1..Len(out) /\ i <= Len(out)
        BY <1>1, <2>1, <3>1, <3>3
      <4> QED BY <1>1, <2>1, <3>1, <4>1 DEF WireTyped, ListsAsSaid, Run
    <3> QED BY <3>2, <3>3
  <2> QED BY <2>1 DEF ListsAsSaid, Run
<1>5. ScalarsAsSaid(out)'
  BY <1>1, <1>2 DEF WireTyped, ScalarsAsSaid
<1> QED BY <1>1, <1>3, <1>4, <1>5 DEF WireTyped

\* Nothing is waited for.
Settled ==
  \A p \in 1..Len(out) :
    /\ ~(out[p].ev = "field" /\ out[p].type \in ScalarTypes /\ p = Len(out))
    /\ ~IsPending(p)

\* It is so while the frame on top writes neither a scalar nor a container.
LEMMA OthersAreSettled ==
  ASSUME WireInv, stack # <<>>, Top.pc \in {"called", "looping"},
         IF Top.pc = "called" THEN \A t : ~WritesScalar(Top.act, t) ELSE Top.act.klass # NULL
  PROVE  Settled
<1>1. ASSUME NEW p \in 1..Len(out), out[p].ev = "field", out[p].type \in ScalarTypes, p = Len(out)
      PROVE  FALSE
  BY <1>1 DEF WireInv, FieldPending
<1>2. ASSUME NEW p \in 1..Len(out), IsPending(p)
      PROVE  FALSE
  <2>1. WritesList(Top, p, Len(out) - p) \/ ElementPending(p)
    BY <1>2 DEF WireInv, ListPending
  <2> QED BY <2>1 DEF WritesList, ElementPending, WritesScalar
<1> QED BY <1>1, <1>2 DEF Settled

\* An event that is no header of scalars is written, or nothing, where nothing is
\* waited for.
LEMMA SettledStays ==
  ASSUME WireInv, Settled, heap' = heap, res'.st # "called",
         \/ out' = out
         \/ \E x \in WireEvent :
              /\ out' = out \o <<x>>
              /\ x.ev = "scalar" => (x.type = "STRING" <=> heap[x.val].type = "string")
              /\ x.ev = "field" => x.type \notin ScalarTypes
              /\ x.ev = "list" => x.elem \notin ScalarTypes
  PROVE  /\ WireTyped(out)'
         /\ FieldPending' /\ ListPending'
<1>1. CASE out' = out
  <2>1. WireTyped(out)'
    BY <1>1, WireKept DEF WireInv
  <2>2. FieldPending'
    BY <1>1 DEF Settled, FieldPending
  <2>3. ListPending'
    BY <1>1 DEF Settled, ListPending, IsPending
  <2> QED BY <2>1, <2>2, <2>3
<1>2. ASSUME NEW x \in WireEvent, out' = out \o <<x>>,
             x.ev = "scalar" => (x.type = "STRING" <=> heap[x.val].type = "string"),
             x.ev = "field" => x.type \notin ScalarTypes,
             x.ev = "list" => x.elem \notin ScalarTypes
      PROVE  WireTyped(out)' /\ FieldPending' /\ ListPending'
  <2>1. /\ WireTyped(out)'
        /\ Len(out') = Len(out) + 1 /\ out'[Len(out) + 1] = x
        /\ \A p \in 1..Len(out) : out'[p] = out[p]
    BY <1>2, WireAppended DEF WireInv, Settled
  <2>2. Len(out) \in Nat
    BY LenProperties DEF WireInv, OutTyped
  <2>3. FieldPending'
    BY <1>2, <2>1, <2>2 DEF FieldPending
  <2>4. ASSUME NEW p \in 1..Len(out'), IsPending(p)'
        PROVE  FALSE
    <3>1. CASE p = Len(out) + 1
      BY <1>2, <2>1, <2>4, <3>1 DEF IsPending
    <3>2. CASE p \in 1..Len(out)
      <4>1. out[p] \in WireEvent
        BY <3>2, ElementOfSeq DEF WireInv, OutTyped
      <4>2. IsPending(p)
        BY <2>1, <2>2, <2>4, <3>2, <4>1, EventKinds DEF IsPending
      <4> QED BY <3>2, <4>2 DEF Settled
    <3> QED BY <2>1, <2>2, <3>1, <3>2
  <2>5. ListPending'
    BY <2>4 DEF ListPending
  <2> QED BY <2>1, <2>3, <2>5
<1> QED BY <1>1, <1>2

\* What a scalar is converted from tells whether it is a string.
LEMMA ConvertedScalar ==
  ASSUME NEW h, NEW info \in Infos, NEW v, FieldInfo[info].ftype \in ScalarTypes,
         Convert(h, info, v) = "ok"
  PROVE  FieldInfo[info].ftype = "STRING" <=> h[v].type = "string"
<1>1. DOMAIN Width = {"BYTE", "I16", "I32", "I64"}
  BY DEF Width
<1> QED BY <1>1 DEF Convert, ScalarTypes

\* What Enter does.
LEMMA EnterEffect ==
  ASSUME ShapeInv, Enter
  PROVE  /\ stack \in Seq(Frame) /\ stack # <<>> /\ Top.pc = "called"
         /\ Top.act \in Activation /\ Verdict(heap, Top.act) = "ok"
         /\ stack' \in Seq(Frame) /\ Len(stack') = Len(stack) /\ stack' # <<>>
         /\ Top'.pc = "looping" /\ Top'.act = Top.act /\ Top'.at = Top.at
         /\ Top'.rest = Slots(heap, Top.act)
         /\ \A n \in 1..Len(stack) - 1 : stack'[n] = stack[n]
         /\ heap' = heap /\ res' = res /\ res.st = "running"
         /\ out' = out \o Header(heap, Top.act)
<1> DEFINE f == [Top EXCEPT !.pc = "looping", !.rest = Slots(heap, Top.act)]
<1>1. stack \in Seq(Frame) /\ stack # <<>> /\ IsHeap(heap)
  BY DEF ShapeInv, TypeOK, Enter
<1>2. Top \in Frame /\ Top.act \in Activation /\ Len(stack) \in Nat \ {0}
  BY <1>1, TopIsFrame DEF Frame
<1>3. Slots(heap, Top.act) \subseteq Int
  BY <1>1, <1>2, SlotsAreIntegers
<1>4. /\ f \in Frame /\ f.pc = "looping" /\ f.rest = Slots(heap, Top.act) /\ f.act = Top.act
      /\ f.at = Top.at
  BY <1>2, <1>3 DEF Frame
<1>5. stack' = WithTop(f)
  BY DEF Enter
<1> HIDE DEF f
<1>6. /\ stack' \in Seq(Frame)
      /\ Len(stack') = Len(stack)
      /\ \A n \in 1..Len(stack) : stack'[n] = IF n = Len(stack) THEN f ELSE stack[n]
  BY <1>1, <1>4, <1>5, WithTopFacts
<1>7. Top' = f /\ stack' # <<>>
  BY <1>2, <1>6, EmptySeq DEF Top
<1> QED BY <1>1, <1>2, <1>4, <1>6, <1>7 DEF Enter

\* A scalar is written: the one that is waited for, if there is any.
LEMMA ScalarKeepsWire ==
  ASSUME ShapeInv, WireInv, Enter, Top.act.klass = NULL,
         FieldInfo[Top.act.info].ftype \in ScalarTypes
  PROVE  WireTyped(out)' /\ FieldPending' /\ ListPending'
<1> DEFINE a == Top.act
           x == Scalar(a.info, a.val)
<1>1. /\ stack \in Seq(Frame) /\ stack # <<>> /\ Top.pc = "called"
      /\ a \in Activation /\ Verdict(heap, a) = "ok"
      /\ stack' \in Seq(Frame) /\ Len(stack') = Len(stack) /\ stack' # <<>>
      /\ Top'.pc = "looping" /\ Top'.act = a /\ Top'.rest = Slots(heap, a)
      /\ \A n \in 1..Len(stack) - 1 : stack'[n] = stack[n]
      /\ heap' = heap /\ out' = out \o Header(heap, a)
  BY EnterEffect
<1>2. a.info \in Infos /\ a.val \in VALUE
  BY <1>1, SchemaAssumption DEF Activation
<1>3. /\ x \in WireEvent /\ x.ev = "scalar" /\ x.type = FieldInfo[a.info].ftype
      /\ x.val = a.val
  BY SMTT(40), <1>2 DEF Scalar, WireEvent
<1>4. out' = out \o <<x>> /\ Top'.rest = {}
  BY Zenon, <1>1 DEF Header, ScalarTypes, SequenceTypes, Slots
<1>5. x.type = "STRING" <=> heap[x.val].type = "string"
  BY <1>1, <1>2, <1>3, ConvertedScalar DEF Verdict
<1>6. ASSUME NEW p \in 1..Len(out), out[p].ev = "field", out[p].type \in ScalarTypes, p = Len(out)
      PROVE  x.type = out[p].type
  BY <1>3, <1>6 DEF WireInv, FieldPending, WritesScalar
<1>7. ASSUME NEW p \in 1..Len(out), IsPending(p)
      PROVE  /\ x.type = out[p].elem /\ Len(stack) > 1 /\ WritesScalar(a, out[p].elem)
             /\ WritesList(stack[Len(stack) - 1], p, Len(out) - p + 1)
  <2>1. ElementPending(p)
    BY <1>1, <1>7 DEF WireInv, ListPending, WritesList
  <2> QED BY <1>1, <1>3, <2>1 DEF ElementPending, WritesScalar
<1> HIDE DEF a, x
<1>8. /\ WireTyped(out)'
      /\ Len(out') = Len(out) + 1 /\ out'[Len(out) + 1] = x
      /\ \A p \in 1..Len(out) : out'[p] = out[p]
  BY <1>1, <1>3, <1>4, <1>5, <1>6, <1>7, WireAppended DEF WireInv
<1>9. Len(out) \in Nat /\ Len(stack) \in Nat
  BY <1>1, LenProperties DEF WireInv, OutTyped
<1>10. FieldPending'
  BY <1>3, <1>8, <1>9 DEF FieldPending
<1>11. ASSUME NEW p \in 1..Len(out'), IsPending(p)'
       PROVE  ElementPending(p)'
  <2>1. p \in 1..Len(out) /\ out'[p] = out[p]
    BY <1>3, <1>8, <1>9, <1>11 DEF IsPending
  <2>2. out[p] \in WireEvent
    BY <2>1, ElementOfSeq DEF WireInv, OutTyped
  <2>3. IsPending(p)
    BY <1>8, <1>9, <1>11, <2>1, <2>2, EventKinds DEF IsPending
  <2>4. /\ Len(stack) > 1 /\ WritesScalar(a, out[p].elem)
        /\ WritesList(stack[Len(stack) - 1], p, Len(out) - p + 1)
    BY <1>7, <2>1, <2>3
  <2>5. Len(stack) - 1 \in 1..Len(stack) - 1 /\ stack'[Len(stack) - 1] = stack[Len(stack) - 1]
    BY <1>1, <1>9, <2>4
  <2>6. Len(out') - p = Len(out) - p + 1
    BY <1>8, <1>9
  <2>7. WritesList(stack[Len(stack) - 1], p, Len(out) - p)'
    BY <1>1, <2>1, <2>4, <2>5, <2>6 DEF WritesList
  <2>8. WritesScalar(a, out'[p].elem)
    BY <2>1, <2>4
  <2> QED BY <1>1, <1>4, <2>4, <2>7, <2>8 DEF ElementPending, WritesScalar
<1>12. ListPending'
  BY <1>1, <1>11 DEF ListPending
<1> QED BY <1>8, <1>10, <1>12

\* The header of a list or a set is written, whose elements are next.
LEMMA ListKeepsWire ==
  ASSUME ShapeInv, WireInv, Enter, Top.act.klass = NULL,
         FieldInfo[Top.act.info].ftype \in SequenceTypes
  PROVE  WireTyped(out)' /\ FieldPending' /\ ListPending'
<1> DEFINE a == Top.act
           x == ListBegin(a.info, Len(heap[a.val].items))
<1>1. /\ stack \in Seq(Frame) /\ stack # <<>> /\ Top.pc = "called"
      /\ a \in Activation
      /\ stack' # <<>>
      /\ Top'.pc = "looping" /\ Top'.act = a /\ Top'.rest = Slots(heap, a)
      /\ heap' = heap /\ out' = out \o Header(heap, a)
  BY EnterEffect
<1>2. a.info \in Infos /\ a.val \in VALUE /\ IsHeap(heap)
  BY <1>1, SchemaAssumption DEF Activation, ShapeInv, TypeOK
<1>3. heap[a.val].items \in Seq(VALUE)
  BY <1>2 DEF IsHeap, HeapRecord
<1>4. Len(heap[a.val].items) \in Nat /\ DOMAIN heap[a.val].items = 1..Len(heap[a.val].items)
  BY <1>3, LenProperties
<1>5. FieldInfo[FieldInfo[a.info].elementType].ftype \in TType
  BY <1>2, InfoIsWellFormed
<1>6. /\ x \in WireEvent /\ x.ev = "list" /\ x.size = Len(heap[a.val].items)
      /\ x.elem = FieldInfo[FieldInfo[a.info].elementType].ftype
  BY SMTT(40), <1>4, <1>5 DEF ListBegin, WireEvent
<1>7. out' = out \o <<x>> /\ Top'.rest = 1..x.size
  BY Zenon, <1>1, <1>4, <1>6 DEF Header, ScalarTypes, SequenceTypes, Slots
<1>8. Settled
  <2>1. \A t : ~WritesScalar(a, t)
    BY DEF WritesScalar, ScalarTypes, SequenceTypes
  <2> QED BY <1>1, <2>1, OthersAreSettled
<1>9. a.klass = NULL /\ FieldInfo[a.info].ftype \in SequenceTypes
  OBVIOUS
<1> HIDE DEF a, x
<1>10. /\ WireTyped(out)'
       /\ Len(out') = Len(out) + 1 /\ out'[Len(out) + 1] = x
       /\ \A p \in 1..Len(out) : out'[p] = out[p]
  BY <1>1, <1>6, <1>7, <1>8, WireAppended DEF WireInv, Settled
<1>11. Len(out) \in Nat
  BY LenProperties DEF WireInv, OutTyped
<1>12. FieldPending'
  BY <1>6, <1>10, <1>11 DEF FieldPending
<1>13. ASSUME NEW p \in 1..Len(out'), IsPending(p)'
       PROVE  WritesList(Top, p, Len(out) - p)'
  <2>1. CASE p = Len(out) + 1
    <3>1. (Len(out') - p) + 1 = 1 /\ out'[p] = x
      BY <1>10, <1>11, <2>1
    <3>2. Top'.rest = ((Len(out') - p) + 1)..out'[p].size
      BY <1>7, <3>1
    <3> QED BY <1>1, <1>2, <1>6, <1>9, <3>1, <3>2 DEF WritesList
  <2>2. CASE p \in 1..Len(out)
    <3>1. out[p] \in WireEvent
      BY <2>2, ElementOfSeq DEF WireInv, OutTyped
    <3>2. IsPending(p)
      BY <1>10, <1>11, <1>13, <2>2, <3>1, EventKinds DEF IsPending
    <3> QED BY <1>8, <2>2, <3>2 DEF Settled
  <2> QED BY <1>10, <1>11, <2>1, <2>2
<1>14. ListPending'
  BY <1>1, <1>13 DEF ListPending
<1> QED BY <1>10, <1>12, <1>14

\* Entering an activation keeps the types on the wire.
LEMMA EnterKeepsWire ==
  ASSUME ShapeInv, WireInv, Enter
  PROVE  WireTyped(out)' /\ FieldPending' /\ ListPending'
<1> DEFINE a == Top.act
<1>1. /\ stack # <<>> /\ Top.pc = "called" /\ a \in Activation
      /\ heap' = heap /\ res'.st # "called" /\ out' = out \o Header(heap, a)
  BY EnterEffect
<1>2. a.klass = NULL => a.info \in Infos /\ FieldInfo[a.info].ftype \in TType
  BY <1>1, InfoIsWellFormed, SchemaAssumption DEF Activation
<1>3. CASE a.klass # NULL \/ FieldInfo[a.info].ftype = "STRUCT"
  <2>1. \A t : ~WritesScalar(a, t)
    BY <1>3 DEF WritesScalar, ScalarTypes
  <2>2. Settled
    BY SMTT(40), <1>1, <2>1, OthersAreSettled
  <2>3. out' = out
    BY Zenon, <1>1, <1>3, ConcatEmptySeq DEF Header, WireInv, OutTyped
  <2> QED BY <1>1, <2>2, <2>3, SettledStays
<1>4. CASE a.klass = NULL /\ FieldInfo[a.info].ftype = "MAP"
  <2> DEFINE x == MapBegin(a.info, Len(heap[a.val].items) \div 2)
  <2>1. \A t : ~WritesScalar(a, t)
    BY <1>4 DEF WritesScalar, ScalarTypes
  <2>2. Settled
    BY <1>1, <2>1, OthersAreSettled
  <2>3. out' = out \o <<x>>
    BY <1>1, <1>4 DEF Header, ScalarTypes, SequenceTypes
  <2>4. Header(heap, a) = <<x>> /\ Header(heap, a) \in Seq(WireEvent)
    BY <1>1, <1>4, HeaderIsEvents DEF Header, ScalarTypes, SequenceTypes, ShapeInv
  <2>5. x \in WireEvent /\ x.ev = "map"
    <3>1. x.ev = "map"
      BY DEF MapBegin
    <3>2. <<x>> \in Seq(WireEvent)
      BY <2>4
    <3> HIDE DEF x
    <3> QED BY <3>1, <3>2, SingleEvent
  <2> HIDE DEF x, a
  <2> QED BY <1>1, <2>2, <2>3, <2>5, SettledStays
<1>5. CASE a.klass = NULL /\ FieldInfo[a.info].ftype \in ScalarTypes
  BY <1>5, ScalarKeepsWire
<1>6. CASE a.klass = NULL /\ FieldInfo[a.info].ftype \in SequenceTypes
  BY <1>6, ListKeepsWire
<1> QED BY <1>2, <1>3, <1>4, <1>5, <1>6 DEF TType

\* What CallNext does.
LEMMA CallNextEffect ==
  ASSUME ShapeInv, CallNext
  PROVE  /\ stack \in Seq(Frame) /\ stack # <<>> /\ Top.pc = "looping"
         /\ Top.act \in Activation /\ heap' = heap /\ res' = res /\ res.st = "running"
         /\ \E i \in Slots(heap, Top.act) :
              /\ i \in Top.rest /\ IsFirst(i, Top.rest)
              /\ out' = out \o SlotHeader(Top, i)
              /\ stack' # <<>> /\ Len(stack') = Len(stack) + 1
              /\ Top'.pc = "called" /\ Top'.act = Callee(heap, Top.act, i)
              /\ stack'[Len(stack)].pc = "looping" /\ stack'[Len(stack)].act = Top.act
              /\ stack'[Len(stack)].rest = Top.rest \ {i}
<1>1. /\ stack \in Seq(Frame) /\ stack # <<>> /\ IsHeap(heap) /\ Top.pc = "looping"
      /\ heap' = heap /\ res' = res /\ res.st = "running"
  BY DEF ShapeInv, TypeOK, CallNext
<1>2. /\ Top \in Frame /\ Top.act \in Activation /\ Len(stack) \in 1..Len(stack)
      /\ Len(stack) \in Nat \ {0}
  BY <1>1, TopIsFrame DEF Frame
<1>3. Top.rest \subseteq Slots(heap, Top.act)
  BY <1>1, <1>2 DEF ShapeInv, LoopsOverSlots, Top
<1>4. PICK i \in Top.rest :
        /\ IsFirst(i, Top.rest) /\ out' = out \o SlotHeader(Top, i)
        /\ stack' = LET c == Callee(heap, Top.act, i)
                        g == IF Top.act.klass = NULL
                             THEN NewFrame(c, Top.outer, Top.sym)
                             ELSE NewFrame(c, Top.act.val, FieldInfo[c.info].symName)
                    IN Append(WithTop([Top EXCEPT !.rest = @ \ {i}, !.at = i]), g)
  BY DEF CallNext
<1> DEFINE c == Callee(heap, Top.act, i)
           f == [Top EXCEPT !.rest = @ \ {i}, !.at = i]
           g == IF Top.act.klass = NULL
                THEN NewFrame(c, Top.outer, Top.sym)
                ELSE NewFrame(c, Top.act.val, FieldInfo[c.info].symName)
<1>5. i \in Slots(heap, Top.act) /\ i \in Int
  BY <1>1, <1>2, <1>3, SlotsAreIntegers
<1>6. f \in Frame /\ f.pc = "looping" /\ f.act = Top.act /\ f.rest = Top.rest \ {i}
  BY <1>1, <1>2, <1>5 DEF Frame
<1>7. /\ c \in Activation
      /\ Top.act.klass # NULL => FieldInfo[c.info].symName \in Names
  BY <1>1, <1>2, <1>5, CalleeIsActivation
<1>8. stack' = Append(WithTop(f), g)
  BY <1>4
<1> HIDE DEF f, c
<1>9. g \in Frame /\ g.pc = "called" /\ g.act = c
  <2>1. Top.outer \in VALUE /\ Top.sym \in Names \cup {NULL} /\ Top.act.val \in VALUE
    BY <1>2 DEF Frame, Activation
  <2>2. g \in Frame
    BY <1>7, <2>1, NewFrameIsFrame
  <2> QED BY <2>2 DEF NewFrame
<1> HIDE DEF g
<1>10. /\ stack' \in Seq(Frame) /\ Len(stack') = Len(stack) + 1
       /\ stack'[Len(stack)] = f /\ stack'[Len(stack) + 1] = g
  <2>1. WithTop(f) \in Seq(Frame) /\ Len(WithTop(f)) = Len(stack) /\ WithTop(f)[Len(stack)] = f
    BY <1>1, <1>2, <1>6, WithTopFacts
  <2> QED BY <1>2, <1>8, <1>9, <2>1, AppendProperties
<1>11. stack' # <<>> /\ Top' = g
  BY <1>2, <1>10, EmptySeq DEF Top
<1> QED BY <1>1, <1>2, <1>4, <1>5, <1>6, <1>9, <1>10, <1>11 DEF c

\* A struct writes the header of its next field.
LEMMA FieldKeepsWire ==
  ASSUME ShapeInv, WireInv, CallNext, Top.act.klass # NULL
  PROVE  WireTyped(out)' /\ FieldPending' /\ ListPending'
<1> DEFINE a == Top.act
<1>1. /\ stack \in Seq(Frame) /\ stack # <<>> /\ Top.pc = "looping" /\ a \in Activation
      /\ heap' = heap
  BY CallNextEffect
<1>2. PICK i \in Slots(heap, a) :
        /\ i \in Top.rest /\ out' = out \o SlotHeader(Top, i)
        /\ stack' # <<>> /\ Top'.pc = "called" /\ Top'.act = Callee(heap, a, i)
  BY CallNextEffect
<1> DEFINE info == InfoOf(a.klass, i)
           x == FieldBegin(info, i, Top.at)
<1>3. Top \in Frame /\ SlotHeader(Top, i) = <<x>> /\ <<x>> \in Seq(WireEvent)
  BY <1>1, <1>2, TopIsFrame, SlotHeaderIsEvents DEF SlotHeader
<1> HIDE DEF x
<1>4. x \in WireEvent
  BY <1>3, SingleEvent
<1> USE DEF x
<1>5. x.ev = "field" /\ x.type = FieldInfo[info].ftype
  BY DEF FieldBegin
<1>6. a.klass \in Klasses /\ i \in Fids(a.klass)
  BY <1>1, <1>2 DEF Activation, Slots, Present
<1>7. info \in Infos
  BY <1>6, FieldHasInfo
<1>8. Top'.act.klass = NULL /\ Top'.act.info = info
  BY <1>2 DEF Callee, AnyOf
<1>9. Settled
  BY <1>1, OthersAreSettled
<1>10. out' = out \o <<x>>
  BY <1>2, <1>3
<1> HIDE DEF x, info, a
<1>11. /\ WireTyped(out)'
       /\ Len(out') = Len(out) + 1 /\ out'[Len(out) + 1] = x
       /\ \A p \in 1..Len(out) : out'[p] = out[p]
  BY <1>1, <1>4, <1>5, <1>9, <1>10, WireAppended DEF WireInv, Settled
<1>12. Len(out) \in Nat
  BY LenProperties DEF WireInv, OutTyped
<1>13. FieldPending'
  BY <1>2, <1>5, <1>7, <1>8, <1>11, <1>12 DEF FieldPending, WritesScalar
<1>14. ASSUME NEW p \in 1..Len(out'), IsPending(p)'
       PROVE  FALSE
  <2>1. p \in 1..Len(out) /\ out'[p] = out[p]
    BY <1>5, <1>11, <1>12, <1>14 DEF IsPending
  <2>2. out[p] \in WireEvent
    BY <2>1, ElementOfSeq DEF WireInv, OutTyped
  <2>3. IsPending(p)
    BY <1>11, <1>12, <1>14, <2>1, <2>2, EventKinds DEF IsPending
  <2> QED BY <1>9, <2>1, <2>3 DEF Settled
<1>15. ListPending'
  BY <1>14 DEF ListPending
<1> QED BY <1>11, <1>13, <1>15

\* A container calls for its next element.
LEMMA ElementKeepsWire ==
  ASSUME ShapeInv, WireInv, CallNext, Top.act.klass = NULL
  PROVE  WireTyped(out)' /\ FieldPending' /\ ListPending'
<1> DEFINE a == Top.act
<1>1. /\ stack \in Seq(Frame) /\ stack # <<>> /\ Top.pc = "looping" /\ a \in Activation
      /\ heap' = heap
  BY CallNextEffect
<1>2. PICK i \in Slots(heap, a) :
        /\ i \in Top.rest /\ IsFirst(i, Top.rest) /\ out' = out \o SlotHeader(Top, i)
        /\ stack' # <<>> /\ Len(stack') = Len(stack) + 1
        /\ Top'.pc = "called" /\ Top'.act = Callee(heap, a, i)
        /\ stack'[Len(stack)].pc = "looping" /\ stack'[Len(stack)].act = a
        /\ stack'[Len(stack)].rest = Top.rest \ {i}
  BY CallNextEffect
<1>3. out' = out
  BY <1>2, ConcatEmptySeq DEF SlotHeader, WireInv, OutTyped
<1>4. WireTyped(out)'
  BY <1>1, <1>3, WireKept DEF WireInv
<1>5. FieldPending'
  BY <1>1, <1>3 DEF WireInv, FieldPending
<1>6. Len(out) \in Nat /\ Len(stack) \in Nat \ {0}
  BY <1>1, LenProperties, TopIsFrame DEF WireInv, OutTyped
<1>7. ASSUME NEW p \in 1..Len(out'), IsPending(p)'
      PROVE  ElementPending(p)'
  <2>1. p \in 1..Len(out) /\ IsPending(p)
    BY <1>3, <1>7 DEF IsPending
  <2>2. out[p].size \in Nat /\ out[p].elem \in ScalarTypes
    BY <2>1, ElementOfSeq, EventKinds DEF WireInv, OutTyped, IsPending
  <2>3. WritesList(Top, p, Len(out) - p)
    BY <1>1, <1>2, <2>1 DEF WireInv, ListPending, ElementPending
  <2>4. /\ a.info \in Infos /\ FieldInfo[a.info].ftype \in SequenceTypes
        /\ FieldInfo[FieldInfo[a.info].elementType].ftype = out[p].elem
        /\ Top.rest = (Len(out) - p + 1)..out[p].size
    BY <2>3 DEF WritesList
  <2>5. i = Len(out) - p + 1
    <3> DEFINE d == Len(out) - p + 1
    <3>1. d \in Int /\ d <= out[p].size
      BY <1>6, <2>1, <2>2 DEF IsPending
    <3>2. d \in d..out[p].size
      BY <2>2, <3>1
    <3>3. i \in d..out[p].size /\ \A j \in d..out[p].size : i <= j
      BY <1>2, <2>4 DEF IsFirst
    <3> HIDE DEF d
    <3>4. i = d
      BY <2>2, <3>1, <3>2, <3>3
    <3> QED BY <3>4 DEF d
  <2>6. Top.rest \ {i} = ((Len(out) - p + 1) + 1)..out[p].size
    BY <1>6, <2>1, <2>2, <2>4, <2>5
  <2>7. WritesList(stack[Len(stack) - 1], p, Len(out) - p + 1)'
    <3>1. Len(stack') - 1 = Len(stack)
      BY <1>2, <1>6
    <3> QED BY <1>2, <1>3, <2>4, <2>6, <3>1 DEF WritesList
  <2>8. WritesScalar(Top.act, out[p].elem)'
    <3>1. Top'.act = AnyOf(ItemInfo(a.info, i), heap[a.val].items[i])
      BY <1>2, <2>4 DEF Callee, SequenceTypes
    <3>2. ItemInfo(a.info, i) = FieldInfo[a.info].elementType
      BY <2>4 DEF ItemInfo, SequenceTypes
    <3>3. FieldInfo[a.info].elementType \in Infos
      BY <2>4, InfoIsWellFormed
    <3> QED BY <1>3, <2>2, <2>4, <3>1, <3>2, <3>3 DEF WritesScalar, AnyOf
  <2>9. Len(stack') > 1
    BY <1>2, <1>6
  <2> QED BY <1>2, <2>7, <2>8, <2>9 DEF ElementPending
<1>8. ListPending'
  BY <1>2, <1>7 DEF ListPending
<1> QED BY <1>4, <1>5, <1>8

\* A frame is done.
LEMMA LeaveKeepsWire ==
  ASSUME ShapeInv, WireInv, Leave
  PROVE  WireTyped(out)' /\ FieldPending' /\ ListPending'
<1>1. /\ stack \in Seq(Frame) /\ stack # <<>> /\ Top.pc = "looping" /\ Top.rest = {}
      /\ heap' = heap /\ res' = res /\ res.st = "running"
      /\ out' = out \o Trailer(Top.act) /\ stack' = Pop
  BY DEF ShapeInv, TypeOK, Leave
<1>2. CASE Top.act.klass # NULL
  <2>1. Settled
    BY <1>1, <1>2, OthersAreSettled
  <2>2. out' = out \o <<FieldStop>> /\ FieldStop \in WireEvent /\ FieldStop.ev = "stop"
    BY <1>1, <1>2 DEF Trailer, FieldStop, WireEvent
  <2> HIDE DEF FieldStop
  <2> QED BY <1>1, <2>1, <2>2, SettledStays
<1>3. CASE Top.act.klass = NULL
  <2>1. out' = out
    BY <1>1, <1>3, ConcatEmptySeq DEF Trailer, WireInv, OutTyped
  <2>2. WireTyped(out)'
    BY <1>1, <2>1, WireKept DEF WireInv
  <2>3. FieldPending'
    BY <1>1, <2>1 DEF WireInv, FieldPending
  <2>4. /\ stack' \in Seq(Frame) /\ Len(stack') = Len(stack) - 1
        /\ \A n \in 1..Len(stack) - 1 : stack'[n] = stack[n]
    BY <1>1, PopFacts
  <2>5. Len(out) \in Nat /\ Len(stack) \in Nat \ {0}
    BY <1>1, LenProperties, TopIsFrame DEF WireInv, OutTyped
  <2>6. ASSUME NEW p \in 1..Len(out'), IsPending(p)'
        PROVE  stack' # <<>> /\ WritesList(Top, p, Len(out) - p)'
    <3>1. p \in 1..Len(out) /\ IsPending(p)
      BY <2>1, <2>6 DEF IsPending
    <3>2. out[p].size \in Nat
      BY <3>1, ElementOfSeq, EventKinds DEF WireInv, OutTyped, IsPending
    <3>3. ~WritesList(Top, p, Len(out) - p)
      <4>1. Len(out) - p + 1 \in (Len(out) - p + 1)..out[p].size
        BY <2>5, <3>1, <3>2 DEF IsPending
      <4> QED BY <1>1, <4>1 DEF WritesList
    <3>4. Len(stack) > 1 /\ WritesList(stack[Len(stack) - 1], p, Len(out) - p)
      BY <1>1, <3>1, <3>3 DEF WireInv, ListPending, ElementPending
    <3>5. Top' = stack[Len(stack) - 1] /\ stack' # <<>>
      BY <2>4, <2>5, <3>4, EmptySeq DEF Top
    <3> QED BY <2>1, <3>4, <3>5 DEF WritesList
  <2>7. ListPending'
    BY <2>6 DEF ListPending
  <2> QED BY <2>2, <2>3, <2>7
<1> QED BY <1>2, <1>3

\* The buffer is typed at any moment of a serialization.
LEMMA WireStep == ShapeInv /\ WireInv /\ [Next]_vars => WireInv'
<1> SUFFICES ASSUME ShapeInv, WireInv, [Next]_vars PROVE WireInv'
  OBVIOUS
<1>1. OutTyped'
  BY OutStep DEF WireInv
<1>2. CASE Enter
  BY <1>1, <1>2, EnterKeepsWire, EnterEffect DEF WireInv, NothingYet
<1>3. CASE CallNext
  BY <1>1, <1>3, FieldKeepsWire, ElementKeepsWire, CallNextEffect DEF WireInv, NothingYet
<1>4. CASE Leave
  BY <1>1, <1>4, LeaveKeepsWire DEF Leave, WireInv, NothingYet
<1>5. CASE SerializeBegin
  <2>1. out = <<>> /\ out' = out /\ heap' = heap /\ Len(out') = 0
    BY <1>5, EmptySeq DEF SerializeBegin, WireInv, NothingYet
  <2>2. WireTyped(out)'
    BY <2>1, WireKept DEF WireInv
  <2> QED BY <1>1, <2>1, <2>2 DEF WireInv, NothingYet, FieldPending, ListPending
<1>6. CASE Raise \/ Overflow \/ SerializeEnd \/ UNCHANGED vars
  <2>1. out' = out /\ heap' = heap /\ stack' = stack
    BY <1>6 DEF Raise, Overflow, SerializeEnd, vars
  <2>2. res'.st = "called" => res.st = "called"
    <3>1. CASE Raise
      BY <3>1, RaiseResult DEF ShapeInv
    <3>2. CASE Overflow \/ SerializeEnd
      BY <3>2 DEF Overflow, SerializeEnd, ShapeInv, TypeOK, Result
    <3> QED BY <1>6, <3>1, <3>2 DEF vars
  <2>3. Top' = Top
    BY <2>1 DEF Top
  <2>4. WireTyped(out)'
    BY <2>1, WireKept DEF WireInv
  <2>5. FieldPending'
    BY SMTT(40), <2>1, <2>3 DEF WireInv, FieldPending
  <2>6. ListPending'
    BY <2>1, <2>3 DEF WireInv, ListPending, IsPending, WritesList, ElementPending
  <2> QED BY <1>1, <2>1, <2>2, <2>4, <2>5, <2>6 DEF WireInv, NothingYet
<1> QED BY <1>2, <1>3, <1>4, <1>5, <1>6 DEF Next

\* Nothing has been written at first.
LEMMA WireInit == Init => WireInv
<1> SUFFICES ASSUME Init PROVE WireInv
  OBVIOUS
<1>1. out = <<>> /\ Len(out) = 0 /\ 1..0 = {} /\ out \in Seq(WireEvent)
  BY EmptySeq DEF Init
<1> QED BY <1>1 DEF WireInv, OutTyped, NothingYet, WireTyped, FieldsAsSaid, ListsAsSaid,
                    ScalarsAsSaid, FieldPending, ListPending

\* The buffer is typed.
LEMMA WireHolds == Spec => []WireInv
<1>1. Init => ShapeInv
  BY InitShape
<1> QED BY <1>1, WireInit, NextShape, WireStep, PTL DEF Spec

\* A reader can go by the types on the wire: at any moment of a serialization, the
\* value after a field header, as many as there are, and the elements of a list or set, as many
\* as it says, are of the type said, and a scalar is a string exactly if its type is.
THEOREM BufferIsTyped == Spec => [](out \in Seq(WireEvent) /\ WireTyped(out))
<1>1. WireInv => out \in Seq(WireEvent) /\ WireTyped(out)
  BY DEF WireInv, OutTyped
<1> QED BY <1>1, WireHolds, PTL

(****************************************************************************)
(* The buffer is the data, in order: a reader that keeps account of what is  *)
(* still due can tell at every event what it stands for.                     *)
(****************************************************************************)

\* A writeAny of a struct leaves no trace of its own.
Wire(a) ==
  IF a.klass = NULL /\ FieldInfo[a.info].ftype = "STRUCT"
  THEN StructOf(FieldInfo[a.info].klass, a.val) ELSE a

\* What is due: a value, or, of a struct whose last field written is last, the fields
\* in rest and the stop field.
Due == [act : Activation, last : Int, rest : SUBSET Int]

Whole(h, a) ==
  [act |-> Wire(a), last |-> 0,
   rest |-> IF Wire(a).klass = NULL THEN {} ELSE Present(h, Wire(a).klass, Wire(a).val)]

\* How many dues an event brings.
Brings(e) == CASE e.ev = "list"  -> e.size
               [] e.ev = "map"   -> 2 * e.size
               [] e.ev = "field" -> 2
               [] OTHER -> 0

\* The event settles the due on top of p, and leaves those of q.
SettlesValue(h, p, e, q) ==
  LET a == p[Len(p)].act IN
  /\ Header(h, a) = <<e>>
  /\ \A i \in 1..Brings(e) :
       /\ Brings(e) + 1 - i \in Slots(h, a)
       /\ q[Len(p) - 1 + i] = Whole(h, Callee(h, a, Brings(e) + 1 - i))

SettlesField(h, p, e, q, fid) ==
  LET d == p[Len(p)] IN
  /\ IsFirst(fid, d.rest) /\ fid \in Present(h, d.act.klass, d.act.val)
  /\ e = FieldBegin(InfoOf(d.act.klass, fid), fid, d.last)
  /\ q[Len(p)] = [act |-> d.act, last |-> fid, rest |-> d.rest \ {fid}]
  /\ q[Len(p) + 1] = Whole(h, Callee(h, d.act, fid))

SettlesStruct(h, p, e, q) ==
  LET d == p[Len(p)] IN
  /\ h[d.act.val].klass = d.act.klass
  /\ IF d.rest = {} THEN e = FieldStop ELSE \E fid \in Int : SettlesField(h, p, e, q, fid)

Settles(h, p, e, q) ==
  /\ p # <<>>
  /\ Len(q) = Len(p) - 1 + Brings(e)
  /\ \A i \in 1..Len(p) - 1 : q[i] = p[i]
  /\ IF p[Len(p)].act.klass = NULL THEN SettlesValue(h, p, e, q)
                                   ELSE SettlesStruct(h, p, e, q)

\* due[i] is what is due after the first i events of s.
Accounts(h, root, s, due) ==
  /\ due \in [0..Len(s) -> Seq(Due)]
  /\ due[0] = <<Whole(h, root)>>
  /\ \A i \in 1..Len(s) : Settles(h, due[i - 1], s[i], due[i])

\* The frame f still has to write the dues of p after the first a, up to the b-th.
Writes(h, f, p, a, b) ==
  IF f.pc = "called" THEN f.at = 0 /\ b = a + 1 /\ p[b] = Whole(h, f.act)
  ELSE IF f.act.klass # NULL
  THEN b = a + 1 /\ p[b] = [act |-> f.act, last |-> f.at, rest |-> f.rest]
  ELSE \E last \in Int :
         /\ f.rest = (last + 1 - (b - a)) .. last
         /\ \A i \in 1..b - a : p[a + i] = Whole(h, Callee(h, f.act, last + 1 - i))

\* The first n frames of s have to write the first b dues of p, each its share.
Share(h, s, p, n, b) ==
  \E to \in [0..n -> 0..b] :
    /\ to[0] = 0 /\ to[n] = b
    /\ \A m, l \in 0..n : m <= l => to[m] <= to[l]
    /\ \A m \in 1..n : Writes(h, s[m], p, to[m - 1], to[m])

AccountInv ==
  res.st \in {"running", "ok"} =>
    \E due : /\ Accounts(heap, Root, out, due)
             /\ Share(heap, stack, due[Len(out)], Len(stack), Len(due[Len(out)]))

\* What is left of a struct is due.
LEMMA WholeIsDue ==
  ASSUME NEW h, IsHeap(h), NEW a \in Activation
  PROVE  /\ Wire(a) \in Activation /\ Whole(h, a) \in Due
         /\ Whole(h, a).act = Wire(a) /\ Whole(h, a).last = 0
<1>1. Wire(a) \in Activation
  <2>1. CASE a.klass = NULL /\ FieldInfo[a.info].ftype = "STRUCT"
    <3>1. a.info \in Infos /\ a.val \in VALUE
      BY <2>1, SchemaAssumption DEF Activation
    <3>2. FieldInfo[a.info].klass \in Klasses
      BY <2>1, <3>1, InfoIsWellFormed
    <3> QED BY <2>1, <3>1, <3>2 DEF Wire, StructOf, Activation
  <2> QED BY <2>1 DEF Wire
<1>2. Wire(a).klass # NULL => Present(h, Wire(a).klass, Wire(a).val) \subseteq Int
  <2>1. Wire(a).klass # NULL => Wire(a).klass \in Klasses
    BY <1>1 DEF Activation
  <2> QED BY <2>1, SchemaAssumption DEF Present, Fids
<1> QED BY <1>1, <1>2 DEF Whole, Due

\* Shares depend on the frames and the dues they are of, and on no others.
LEMMA ShareKept ==
  ASSUME NEW h, NEW s, NEW t, NEW p, NEW q, NEW n \in Nat, NEW b \in Nat, Share(h, s, p, n, b),
         \A m \in 1..n : t[m] = s[m], \A i \in 1..b : q[i] = p[i]
  PROVE  Share(h, t, q, n, b)
<1>1. PICK to \in [0..n -> 0..b] :
        /\ to[0] = 0 /\ to[n] = b
        /\ \A m, l \in 0..n : m <= l => to[m] <= to[l]
        /\ \A m \in 1..n : Writes(h, s[m], p, to[m - 1], to[m])
  BY DEF Share
<1>2. ASSUME NEW m \in 1..n
      PROVE  Writes(h, t[m], q, to[m - 1], to[m])
  <2>1. /\ to[m - 1] \in 0..b /\ to[m] \in 0..b /\ to[m - 1] <= to[m]
        /\ Writes(h, s[m], p, to[m - 1], to[m]) /\ t[m] = s[m]
    BY <1>1
  <2>2. PICK f, c, d : f = s[m] /\ c = to[m - 1] /\ d = to[m]
    OBVIOUS
  <2>3. c \in Nat /\ d \in 0..b /\ Writes(h, f, p, c, d)
    BY <2>1, <2>2
  <2>4. d = c + 1 => q[d] = p[d]
    BY <2>3
  <2>5. \A i \in 1..d - c : q[c + i] = p[c + i]
    BY <2>3
  <2>6. Writes(h, f, q, c, d)
    BY <2>3, <2>4, <2>5 DEF Writes
  <2> QED BY <2>1, <2>2, <2>6
<1> QED BY <1>1, <1>2 DEF Share

\* The share of the last frame.
LEMMA ShareOfLast ==
  ASSUME NEW h, NEW s, NEW p, NEW n \in Nat \ {0}, NEW b \in Nat, Share(h, s, p, n, b)
  PROVE  \E a \in 0..b : Share(h, s, p, n - 1, a) /\ Writes(h, s[n], p, a, b)
<1>1. PICK to \in [0..n -> 0..b] :
        /\ to[0] = 0 /\ to[n] = b
        /\ \A m, l \in 0..n : m <= l => to[m] <= to[l]
        /\ \A m \in 1..n : Writes(h, s[m], p, to[m - 1], to[m])
  BY DEF Share
<1>2. PICK a : a = to[n - 1]
  OBVIOUS
<1>3. a \in 0..b
  BY <1>1, <1>2
<1>4. \A m \in 0..n - 1 : to[m] \in 0..a
  <2>1. ASSUME NEW m \in 0..n - 1 PROVE to[m] \in 0..b /\ to[m] <= a
    <3>1. m \in 0..n /\ n - 1 \in 0..n /\ m <= n - 1
      OBVIOUS
    <3> QED BY <1>1, <1>2, <3>1
  <2> QED BY <1>3, <2>1
<1> DEFINE t == [m \in 0..n - 1 |-> to[m]]
<1>5. t \in [0..n - 1 -> 0..a]
  BY <1>4
<1>6. t[0] = 0 /\ t[n - 1] = a
  BY <1>1, <1>2
<1>7. \A m \in 1..n - 1 : t[m] = to[m] /\ t[m - 1] = to[m - 1] /\ m \in 1..n
  OBVIOUS
<1>8. Share(h, s, p, n - 1, a)
  <2>1. \A m, l \in 0..n - 1 : m <= l => t[m] <= t[l]
    BY <1>1
  <2> HIDE DEF t
  <2> QED BY <1>1, <1>5, <1>6, <1>7, <2>1 DEF Share
<1>9. n \in 1..n
  OBVIOUS
<1> QED BY <1>1, <1>2, <1>3, <1>8, <1>9

\* A frame takes a share.
LEMMA ShareAdded ==
  ASSUME NEW h, NEW s, NEW p, NEW n \in Nat, NEW b \in Nat, NEW a \in 0..b,
         Share(h, s, p, n, a), Writes(h, s[n + 1], p, a, b)
  PROVE  Share(h, s, p, n + 1, b)
<1>1. PICK to \in [0..n -> 0..a] :
        /\ to[0] = 0 /\ to[n] = a
        /\ \A m, l \in 0..n : m <= l => to[m] <= to[l]
        /\ \A m \in 1..n : Writes(h, s[m], p, to[m - 1], to[m])
  BY DEF Share
<1> DEFINE t == [m \in 0..n + 1 |-> IF m = n + 1 THEN b ELSE to[m]]
<1>2. t \in [0..n + 1 -> 0..b]
  <2>1. ASSUME NEW m \in 0..n + 1 PROVE t[m] \in 0..b
    <3>1. m # n + 1 => m \in 0..n
      OBVIOUS
    <3>2. m # n + 1 => to[m] \in 0..a
      BY <1>1, <3>1
    <3> QED BY <3>2
  <2> QED BY <2>1
<1>3. t[0] = 0 /\ t[n] = a /\ t[n + 1] = b
  BY <1>1
<1>4. \A m \in 1..n : t[m] = to[m] /\ t[m - 1] = to[m - 1]
  OBVIOUS
<1>5. ASSUME NEW m \in 1..n + 1
      PROVE  Writes(h, s[m], p, t[m - 1], t[m])
  <2> HIDE DEF t
  <2>1. CASE m = n + 1
    <3>1. m - 1 = n
      BY <2>1
    <3> QED BY <1>3, <2>1, <3>1
  <2>2. CASE m # n + 1
    <3>1. m \in 1..n
      BY <2>2
    <3> QED BY <1>1, <1>4, <3>1
  <2> QED BY <2>1, <2>2
<1>6. ASSUME NEW m \in 0..n + 1, NEW l \in 0..n + 1, m <= l
      PROVE  t[m] <= t[l]
  <2>1. CASE l = n + 1
    BY <1>2, <2>1
  <2>2. CASE l # n + 1
    <3>1. l \in 0..n /\ m \in 0..n
      BY <1>6, <2>2
    <3> QED BY <1>1, <1>6, <3>1
  <2> QED BY <2>1, <2>2
<1> HIDE DEF t
<1> QED BY <1>2, <1>3, <1>5, <1>6 DEF Share

\* What is due after one more event.
LEMMA AccountsGrow ==
  ASSUME NEW h, NEW root, NEW s \in Seq(WireEvent), NEW due, Accounts(h, root, s, due),
         NEW e \in WireEvent, NEW q \in Seq(Due), Settles(h, due[Len(s)], e, q)
  PROVE  \E new : /\ Accounts(h, root, s \o <<e>>, new)
                  /\ Len(s \o <<e>>) = Len(s) + 1 /\ new[Len(s) + 1] = q
<1>1. Len(s) \in Nat
  BY LenProperties
<1>2. PICK t : t = s \o <<e>>
  OBVIOUS
<1>3. Len(t) = Len(s) + 1 /\ t[Len(s) + 1] = e /\ \A i \in 1..Len(s) : t[i] = s[i]
  <2>1. <<e>> \in Seq(WireEvent) /\ Len(<<e>>) = 1 /\ <<e>>[1] = e
    OBVIOUS
  <2>2. Len(t) = Len(s) + 1
    BY <1>2, <2>1, ConcatProperties
  <2>3. \A i \in 1..Len(s) + 1 : t[i] = IF i <= Len(s) THEN s[i] ELSE <<e>>[i - Len(s)]
    BY <1>1, <1>2, <2>1, ConcatProperties
  <2> QED BY <1>1, <2>1, <2>2, <2>3
<1> DEFINE new == [i \in 0..Len(s) + 1 |-> IF i = Len(s) + 1 THEN q ELSE due[i]]
<1>4. new \in [0..Len(t) -> Seq(Due)]
  BY <1>1, <1>3 DEF Accounts
<1>5. new[Len(s) + 1] = q /\ \A i \in 0..Len(s) : new[i] = due[i]
  BY <1>1
<1> HIDE DEF new
<1>6. ASSUME NEW i \in 1..Len(t)
      PROVE  Settles(h, new[i - 1], t[i], new[i])
  <2>1. CASE i = Len(s) + 1
    <3>1. i - 1 = Len(s) /\ Len(s) \in 0..Len(s)
      BY <1>1, <2>1
    <3> QED BY <1>3, <1>5, <2>1, <3>1
  <2>2. CASE i # Len(s) + 1
    <3>1. i \in 1..Len(s) /\ i \in 0..Len(s) /\ i - 1 \in 0..Len(s)
      BY <1>1, <1>3, <2>2
    <3> QED BY <1>3, <1>5, <3>1 DEF Accounts
  <2> QED BY <2>1, <2>2
<1>7. new[0] = <<Whole(h, root)>>
  BY <1>1, <1>5 DEF Accounts
<1> QED BY <1>2, <1>3, <1>4, <1>5, <1>6, <1>7 DEF Accounts

\* What a value brings is what is in it.
LEMMA HeaderBrings ==
  ASSUME TypeOK, NEW a \in Activation, a.klass = NULL, FieldInfo[a.info].ftype # "STRUCT",
         Verdict(heap, a) = "ok"
  PROVE  \E e \in WireEvent : /\ Header(heap, a) = <<e>> /\ Brings(e) \in Nat
                              /\ Slots(heap, a) = 1..Brings(e)
<1>1. a.info \in Infos /\ a.val \in VALUE /\ IsHeap(heap)
  BY SchemaAssumption DEF Activation, TypeOK
<1>2. FieldInfo[a.info].ftype \in TType
  BY <1>1, InfoIsWellFormed
<1>3. heap[a.val].items \in Seq(VALUE) /\ Len(heap[a.val].items) \in Nat
      /\ DOMAIN heap[a.val].items = 1..Len(heap[a.val].items)
  BY <1>1, LenProperties DEF IsHeap, HeapRecord
<1>4. Header(heap, a) \in Seq(WireEvent)
  BY HeaderIsEvents
<1>5. CASE FieldInfo[a.info].ftype \in ScalarTypes
  <2>1. PICK e : e = Scalar(a.info, a.val)
    OBVIOUS
  <2>2. Header(heap, a) = <<e>>
    BY <1>5, <2>1 DEF Header, ScalarTypes, SequenceTypes
  <2>3. Brings(e) = 0
    BY <2>1 DEF Brings, Scalar
  <2>4. Slots(heap, a) = {}
    BY <1>5 DEF Slots
  <2> QED BY <1>4, <2>2, <2>3, <2>4, SingleEvent
<1>6. CASE FieldInfo[a.info].ftype \in SequenceTypes
  <2>1. PICK e : e = ListBegin(a.info, Len(heap[a.val].items))
    OBVIOUS
  <2>2. Header(heap, a) = <<e>>
    BY <1>6, <2>1 DEF Header, ScalarTypes, SequenceTypes
  <2>3. Brings(e) = Len(heap[a.val].items)
    BY <2>1 DEF Brings, ListBegin
  <2>4. Slots(heap, a) = DOMAIN heap[a.val].items
    BY <1>6 DEF Slots, SequenceTypes, ScalarTypes
  <2> QED BY <1>3, <1>4, <2>2, <2>3, <2>4, SingleEvent
<1>7. CASE FieldInfo[a.info].ftype = "MAP"
  <2>1. PICK e : e = MapBegin(a.info, Len(heap[a.val].items) \div 2)
    OBVIOUS
  <2>2. Header(heap, a) = <<e>>
    BY <1>7, <2>1 DEF Header, ScalarTypes, SequenceTypes
  <2>3. Brings(e) = 2 * (Len(heap[a.val].items) \div 2)
    BY <2>1 DEF Brings, MapBegin
  <2>4. heap[a.val].type = "hash"
    <3>1. DOMAIN Width = {"BYTE", "I16", "I32", "I64"}
      BY DEF Width
    <3> QED BY <1>7, <3>1 DEF Verdict, Convert
  <2>5. Len(heap[a.val].items) % 2 = 0
    BY <1>1, <2>4 DEF IsHeap
  <2>6. 2 * (Len(heap[a.val].items) \div 2) = Len(heap[a.val].items)
    <3>1. \A n \in Nat : n % 2 = 0 => 2 * (n \div 2) = n
      OBVIOUS
    <3> QED BY <1>3, <2>5, <3>1
  <2>7. Slots(heap, a) = DOMAIN heap[a.val].items
    BY <1>7 DEF Slots, ScalarTypes
  <2> QED BY <1>3, <1>4, <2>2, <2>3, <2>6, <2>7, SingleEvent
<1> QED BY <1>2, <1>5, <1>6, <1>7 DEF TType

\* What is due and the share of the frame on top.
LEMMA TopWrites ==
  ASSUME ShapeInv, OutTyped, AccountInv, res.st \in {"running", "ok"}
  PROVE  \E due : \E p \in Seq(Due) :
           /\ Accounts(heap, Root, out, due) /\ p = due[Len(out)]
           /\ Len(p) \in Nat /\ Len(stack) \in Nat
           /\ Share(heap, stack, p, Len(stack), Len(p))
           /\ stack # <<>> =>
                \E a \in 0..Len(p) : /\ Share(heap, stack, p, Len(stack) - 1, a)
                                     /\ Writes(heap, Top, p, a, Len(p))
<1>1. PICK due : /\ Accounts(heap, Root, out, due)
                 /\ Share(heap, stack, due[Len(out)], Len(stack), Len(due[Len(out)]))
  BY DEF AccountInv
<1>2. PICK p : p = due[Len(out)]
  OBVIOUS
<1>3. p \in Seq(Due)
  <2>1. Len(out) \in 0..Len(out)
    BY LenProperties DEF OutTyped
  <2> QED BY <1>1, <1>2, <2>1 DEF Accounts
<1>4. Len(p) \in Nat /\ stack \in Seq(Frame) /\ Len(stack) \in Nat
  BY <1>3, LenProperties DEF ShapeInv, TypeOK
<1>5. stack # <<>> => Len(stack) \in Nat \ {0}
  BY <1>4, EmptySeq
<1>6. stack # <<>> =>
        \E a \in 0..Len(p) : /\ Share(heap, stack, p, Len(stack) - 1, a)
                             /\ Writes(heap, Top, p, a, Len(p))
  BY <1>1, <1>2, <1>4, <1>5, ShareOfLast DEF Top
<1> QED BY <1>1, <1>2, <1>3, <1>4, <1>6

\* The frame on top is replaced.
LEMMA ShareReplaced ==
  ASSUME NEW h, NEW s, NEW t, NEW p, NEW q, NEW n \in Nat \ {0}, NEW a \in Nat, NEW b \in Nat,
         Share(h, s, p, n - 1, a), a <= b,
         \A m \in 1..n - 1 : t[m] = s[m], \A i \in 1..a : q[i] = p[i],
         Writes(h, t[n], q, a, b)
  PROVE  Share(h, t, q, n, b)
<1>1. Share(h, t, q, n - 1, a)
  BY ShareKept
<1> QED BY <1>1, ShareAdded

\* k dues of x on top of the first c of p.
PutOn(q, p, c, x, k) ==
  /\ Len(q) = c + k
  /\ \A i \in 1..c : q[i] = p[i]
  /\ \A i \in 1..k : q[c + i] = x[i]

LEMMA Stacked ==
  ASSUME NEW p \in Seq(Due), NEW c \in 0..Len(p), NEW k \in Nat, NEW x,
         \A i \in 1..k : x[i] \in Due
  PROVE  \E q \in Seq(Due) : PutOn(q, p, c, x, k)
<1>1. Len(p) \in Nat
  BY LenProperties
<1> DEFINE q == [i \in 1..c + k |-> IF i <= c THEN p[i] ELSE x[i - c]]
<1>2. \A i \in 1..c + k : (IF i <= c THEN p[i] ELSE x[i - c]) \in Due
  <2> SUFFICES ASSUME NEW i \in 1..c + k PROVE (IF i <= c THEN p[i] ELSE x[i - c]) \in Due
    OBVIOUS
  <2>1. CASE i <= c
    <3>1. i \in 1..Len(p)
      BY <1>1, <2>1
    <3> QED BY <2>1, <3>1, ElementOfSeq
  <2>2. CASE ~(i <= c)
    <3>1. i - c \in 1..k
      BY <2>2
    <3> QED BY <2>2, <3>1
  <2> QED BY <2>1, <2>2
<1>3. q \in Seq(Due) /\ Len(q) = c + k
  <2>1. c + k \in Nat
    OBVIOUS
  <2> QED BY <1>2, <2>1, IsASeq
<1>4. \A i \in 1..c : q[i] = p[i]
  OBVIOUS
<1>5. \A i \in 1..k : q[c + i] = x[i]
  OBVIOUS
<1> QED BY <1>3, <1>4, <1>5 DEF PutOn

\* A frame that writes items, the last of them first.
LEMMA ItemsAreDue ==
  ASSUME NEW h, NEW f, NEW p, NEW a, NEW b, NEW last \in Int, f.pc = "looping",
         f.act.klass = NULL, f.rest = (last + 1 - (b - a)) .. last,
         \A i \in 1..b - a : p[a + i] = Whole(h, Callee(h, f.act, last + 1 - i))
  PROVE  Writes(h, f, p, a, b)
BY DEF Writes

\* Passing its checks, an activation writes its header.
LEMMA EnterAccount ==
  ASSUME ShapeInv, OutTyped, AccountInv, Enter
  PROVE  AccountInv'
<1>1. /\ stack \in Seq(Frame) /\ stack # <<>> /\ Top.pc = "called"
      /\ Top.act \in Activation /\ Verdict(heap, Top.act) = "ok"
      /\ stack' \in Seq(Frame) /\ Len(stack') = Len(stack) /\ stack' # <<>>
      /\ Top'.pc = "looping" /\ Top'.act = Top.act /\ Top'.at = Top.at
      /\ Top'.rest = Slots(heap, Top.act)
      /\ \A n \in 1..Len(stack) - 1 : stack'[n] = stack[n]
      /\ heap' = heap /\ res' = res /\ res.st = "running"
      /\ out' = out \o Header(heap, Top.act)
  BY EnterEffect
<1>2. Root' = Root /\ TypeOK /\ IsHeap(heap) /\ out \in Seq(WireEvent)
  BY RootIsConstant DEF Next, ShapeInv, TypeOK, OutTyped
<1>3. PICK due, p :
        /\ p \in Seq(Due) /\ Accounts(heap, Root, out, due) /\ p = due[Len(out)]
        /\ Len(p) \in Nat /\ Len(stack) \in Nat
        /\ \E a \in 0..Len(p) : /\ Share(heap, stack, p, Len(stack) - 1, a)
                                /\ Writes(heap, Top, p, a, Len(p))
  BY <1>1, TopWrites
<1>4. PICK a \in 0..Len(p) : /\ a \in Nat /\ Share(heap, stack, p, Len(stack) - 1, a)
                             /\ Writes(heap, Top, p, a, Len(p))
  BY <1>3
<1>5. Top.at = 0 /\ Len(p) = a + 1 /\ p[Len(p)] = Whole(heap, Top.act)
  BY <1>1, <1>3, <1>4 DEF Writes
<1>6. PICK act, g : act = Top.act /\ g = Top'
  OBVIOUS
<1>7. /\ act \in Activation /\ g.pc = "looping" /\ g.act = act /\ g.at = 0
      /\ g.rest = Slots(heap, act) /\ p[Len(p)] = Whole(heap, act)
      /\ Verdict(heap, act) = "ok" /\ out' = out \o Header(heap, act)
      /\ stack'[Len(stack)] = g /\ Len(stack) \in Nat \ {0}
  BY <1>1, <1>3, <1>5, <1>6, EmptySeq DEF Top
<1>8. ASSUME NEW new, NEW q \in Seq(Due), Accounts(heap, Root, out', new), q = new[Len(out')],
             \A i \in 1..a : q[i] = p[i], a <= Len(q), Writes(heap, g, q, a, Len(q))
      PROVE  AccountInv'
  <2>1. Len(q) \in Nat
    BY LenProperties
  <2>2. Share(heap, stack', q, Len(stack), Len(q))
    <3>1. Len(stack) \in Nat \ {0} /\ a \in Nat /\ a <= Len(q)
      BY <1>4, <1>7, <1>8
    <3>2. Share(heap, stack, p, Len(stack) - 1, a) /\ \A i \in 1..a : q[i] = p[i]
      BY <1>4, <1>8
    <3>3. \A m \in 1..Len(stack) - 1 : stack'[m] = stack[m]
      BY <1>1
    <3>4. Writes(heap, stack'[Len(stack)], q, a, Len(q))
      BY <1>7, <1>8
    <3> QED BY <2>1, <3>1, <3>2, <3>3, <3>4, ShareReplaced
  <2>3. Accounts(heap', Root', out', new) /\ Share(heap', stack', new[Len(out')], Len(stack'), Len(new[Len(out')]))
    BY <1>1, <1>2, <1>8, <2>2
  <2> QED BY <2>3 DEF AccountInv
<1>9. CASE act.klass # NULL
  <2>1. Header(heap, act) = <<>> /\ Slots(heap, act) = Present(heap, act.klass, act.val)
    BY <1>9 DEF Header, Slots
  <2>2. out' = out
    BY <1>2, <1>7, <2>1, ConcatProperties
  <2>3. Whole(heap, act) = [act |-> g.act, last |-> g.at, rest |-> g.rest]
    BY <1>7, <1>9, <2>1 DEF Whole, Wire
  <2>4. Writes(heap, g, p, a, Len(p))
    BY <1>3, <1>5, <1>7, <1>9, <2>3 DEF Writes
  <2> QED BY <1>3, <1>4, <1>8, <2>2, <2>4
<1>10. CASE act.klass = NULL /\ FieldInfo[act.info].ftype = "STRUCT"
  <2>1. Header(heap, act) = <<>> /\ Slots(heap, act) = {0}
    BY <1>10 DEF Header, Slots, ScalarTypes, TheStruct
  <2>2. out' = out
    BY <1>2, <1>7, <2>1, ConcatProperties
  <2>3. Callee(heap, act, 0) = Wire(act)
    BY <1>10 DEF Callee, Wire
  <2>4. Wire(Wire(act)) = Wire(act)
    <3>1. act.info \in Infos
      BY <1>7, <1>10, SchemaAssumption DEF Activation
    <3>2. FieldInfo[act.info].klass \in Klasses
      BY <1>10, <3>1, InfoIsWellFormed
    <3>3. Wire(act).klass # NULL
      BY <1>10, <3>2, SchemaAssumption DEF Wire, StructOf
    <3> QED BY <3>3 DEF Wire
  <2>5. Whole(heap, Callee(heap, act, 0)) = Whole(heap, act)
    BY <2>3, <2>4 DEF Whole
  <2>6. Writes(heap, g, p, a, Len(p))
    <3>1. Len(p) - a = 1 /\ {0} = (0 + 1 - 1)..0
      BY <1>3, <1>4, <1>5
    <3>2. g.rest = (0 + 1 - (Len(p) - a))..0
      BY <1>7, <2>1, <3>1
    <3>3. \A i \in 1..Len(p) - a : p[a + i] = Whole(heap, Callee(heap, g.act, 0 + 1 - i))
      <4>1. SUFFICES ASSUME NEW i \in 1..Len(p) - a
                     PROVE  p[a + i] = Whole(heap, Callee(heap, g.act, 0 + 1 - i))
        OBVIOUS
      <4>2. i = 1 /\ a + i = Len(p) /\ 0 + 1 - i = 0
        BY <1>3, <1>4, <1>5, <3>1
      <4> QED BY <1>7, <2>5, <4>2
    <3>4. g.pc = "looping" /\ g.act.klass = NULL /\ 0 \in Int
      BY <1>7, <1>10
    <3> QED BY <3>2, <3>3, <3>4, ItemsAreDue
  <2> QED BY <1>3, <1>4, <1>8, <2>2, <2>6
<1>11. CASE act.klass = NULL /\ FieldInfo[act.info].ftype # "STRUCT"
  <2>1. PICK e \in WireEvent : /\ Header(heap, act) = <<e>> /\ Brings(e) \in Nat
                               /\ Slots(heap, act) = 1..Brings(e)
    BY <1>2, <1>7, <1>11, HeaderBrings
  <2>2. PICK k \in Nat : k = Brings(e)
    BY <2>1
  <2> DEFINE x == [i \in 1..k |-> Whole(heap, Callee(heap, act, k + 1 - i))]
  <2>3. \A i \in 1..k : x[i] \in Due /\ k + 1 - i \in Slots(heap, act)
    <3> SUFFICES ASSUME NEW i \in 1..k PROVE x[i] \in Due /\ k + 1 - i \in Slots(heap, act)
      OBVIOUS
    <3>1. k + 1 - i \in Slots(heap, act)
      BY <2>1, <2>2
    <3>2. Callee(heap, act, k + 1 - i) \in Activation
      BY <1>2, <1>7, <3>1, CalleeIsActivation
    <3> QED BY <1>2, <3>1, <3>2, WholeIsDue
  <2>4. PICK q \in Seq(Due) : /\ Len(q) = a + k /\ \A i \in 1..a : q[i] = p[i]
                              /\ \A i \in 1..k : q[a + i] = x[i]
    <3>1. PICK y : y = x
      OBVIOUS
    <3>3. \A i \in 1..k : y[i] \in Due
      BY <2>3, <3>1
    <3> HIDE DEF x
    <3>2. k \in Nat /\ p \in Seq(Due) /\ a \in 0..Len(p)
      BY <1>3, <1>4, <2>2
    <3>4. PICK q \in Seq(Due) : PutOn(q, p, a, y, k)
      BY <3>2, <3>3, Stacked
    <3> QED BY <3>1, <3>4 DEF PutOn
  <2>5. Wire(act) = act /\ Whole(heap, act).act = act
    BY <1>11 DEF Wire, Whole
  <2>6. Settles(heap, p, e, q)
    <3>1. p # <<>>
      BY <1>3, <1>5, EmptySeq
    <3>2. Len(p) - 1 = a /\ Len(q) = Len(p) - 1 + Brings(e)
      BY <1>3, <1>4, <1>5, <2>2, <2>4
    <3>3. p[Len(p)].act = act
      BY <1>7, <2>5
    <3>4. \A i \in 1..Brings(e) : q[a + i] = Whole(heap, Callee(heap, act, Brings(e) + 1 - i))
                                  /\ Brings(e) + 1 - i \in Slots(heap, act)
      BY <2>2, <2>3, <2>4
    <3>5. SettlesValue(heap, p, e, q)
      BY <2>1, <3>2, <3>3, <3>4 DEF SettlesValue
    <3> QED BY <1>11, <2>4, <3>1, <3>2, <3>3, <3>5 DEF Settles
  <2>7. out' = out \o <<e>>
    BY <1>7, <2>1
  <2>8. PICK new : /\ Accounts(heap, Root, out \o <<e>>, new)
                   /\ Len(out \o <<e>>) = Len(out) + 1 /\ new[Len(out) + 1] = q
    BY <1>2, <1>3, <2>6, AccountsGrow
  <2>9. Writes(heap, g, q, a, Len(q))
    <3>1. Len(q) - a = k
      BY <2>4
    <3>2. g.rest = (k + 1 - (Len(q) - a))..k
      <4>1. k + 1 - (Len(q) - a) = 1
        BY <3>1
      <4> QED BY <1>7, <2>1, <2>2, <4>1
    <3>3. \A i \in 1..Len(q) - a : q[a + i] = Whole(heap, Callee(heap, g.act, k + 1 - i))
      BY <1>7, <2>4, <3>1
    <3>4. g.pc = "looping" /\ g.act.klass = NULL /\ k \in Int
      BY <1>7, <1>11, <2>2
    <3> QED BY <3>2, <3>3, <3>4, ItemsAreDue
  <2>10. a <= Len(q)
    BY <2>4
  <2> QED BY <1>8, <2>4, <2>7, <2>8, <2>9, <2>10
<1> QED BY <1>9, <1>10, <1>11

\* The dues and the shares after a step that ends with them are an account.
LEMMA AccountIs ==
  ASSUME NEW due, NEW p, UNCHANGED <<heap, Root>>, p = due[Len(out')],
         Accounts(heap, Root, out', due), Share(heap, stack', p, Len(stack'), Len(p))
  PROVE  AccountInv'
BY DEF AccountInv

\* A field is begun: its header settles some of the struct, and its value is due.
LEMMA FieldAccount ==
  ASSUME ShapeInv, FramesInv, OutTyped, AccountInv, CallNext, Top.act.klass # NULL
  PROVE  AccountInv'
<1>1. res.st = "running" /\ stack # <<>> /\ Top.pc = "looping"
      /\ heap' = heap /\ Root' = Root /\ IsHeap(heap) /\ TypeOK /\ out \in Seq(WireEvent)
  BY RootIsConstant DEF CallNext, Next, ShapeInv, TypeOK, OutTyped
<1>2. PICK i \in Top.rest, f \in Frame, g \in Frame :
           /\ i \in Slots(heap, Top.act) /\ IsFirst(i, Top.rest)
           /\ out' = out \o SlotHeader(Top, i)
           /\ f.pc = "looping" /\ f.act = Top.act /\ f.rest = Top.rest \ {i} /\ f.at = i
           /\ g.pc = "called" /\ g.act = Callee(heap, Top.act, i) /\ g.at = 0
           /\ stack' \in Seq(Frame)
           /\ Len(stack') = Len(stack) + 1
           /\ \A n \in 1..Len(stack) : stack'[n] = IF n = Len(stack) THEN f ELSE stack[n]
           /\ stack'[Len(stack) + 1] = g
  BY SMTT(40), CallNextFrames
<1>3. PICK due, p :
        /\ p \in Seq(Due) /\ Accounts(heap, Root, out, due) /\ p = due[Len(out)]
        /\ Len(p) \in Nat /\ Len(stack) \in Nat
        /\ \E a \in 0..Len(p) : /\ Share(heap, stack, p, Len(stack) - 1, a)
                                /\ Writes(heap, Top, p, a, Len(p))
  BY <1>1, TopWrites
<1>4. PICK a \in 0..Len(p) : /\ a \in Nat /\ Share(heap, stack, p, Len(stack) - 1, a)
                             /\ Writes(heap, Top, p, a, Len(p))
  BY <1>3
<1>5. PICK top, n : top = Top /\ n = Len(stack)
  OBVIOUS
<1>6. /\ n \in Nat \ {0} /\ n \in 1..Len(stack) /\ top = stack[n]
      /\ top \in Frame /\ top.act \in Activation /\ top.act.klass \in Klasses
  <2>1. stack \in Seq(Frame)
    BY <1>1 DEF TypeOK
  <2> QED BY <1>1, <1>5, <2>1, TopIsFrame DEF Frame, Activation, Top
<1>7. Len(p) = a + 1 /\ p[Len(p)] = [act |-> top.act, last |-> top.at, rest |-> top.rest]
  BY <1>1, <1>4, <1>5 DEF Writes
<1>8. heap[top.act.val].klass = top.act.klass
  BY <1>5, <1>6 DEF FramesInv, FrameInv
<1>9. PICK e : e = FieldBegin(InfoOf(top.act.klass, i), i, top.at)
  OBVIOUS
<1>10. out' = out \o <<e>> /\ e \in WireEvent /\ Brings(e) = 2
  <2>1. SlotHeader(top, i) = <<e>>
    BY <1>5, <1>9 DEF SlotHeader
  <2>2. SlotHeader(top, i) \in Seq(WireEvent)
    BY <1>2, <1>5, <1>6, SlotHeaderIsEvents
  <2>3. Brings(e) = 2
    BY <1>9 DEF Brings, FieldBegin
  <2> QED BY <1>2, <1>5, <2>1, <2>2, <2>3, SingleEvent
<1>11. PICK d1, d2 : /\ d1 = [act |-> top.act, last |-> i, rest |-> top.rest \ {i}]
                     /\ d2 = Whole(heap, g.act)
  OBVIOUS
<1>12. d1 \in Due /\ d2 \in Due
  <2>1. g.act \in Activation /\ i \in Int /\ top.rest \subseteq Int
    BY <1>2, <1>5, <1>6 DEF Frame
  <2> QED BY <1>1, <1>6, <1>11, <2>1, WholeIsDue DEF Due
<1>13. PICK q \in Seq(Due) : PutOn(q, p, a, <<d1, d2>>, 2)
  <2>1. \A j \in 1..2 : <<d1, d2>>[j] \in Due
    BY <1>12
  <2>2. PICK x : x = <<d1, d2>>
    OBVIOUS
  <2> QED BY <1>3, <1>4, <2>1, <2>2, Stacked
<1>14. /\ Len(q) = a + 2 /\ \A j \in 1..a : q[j] = p[j]
       /\ q[a + 1] = d1 /\ q[a + 2] = d2
  BY <1>13 DEF PutOn
<1>15. Settles(heap, p, e, q)
  <2>1. p # <<>> /\ Len(p) - 1 = a
    BY <1>4, <1>7, EmptySeq
  <2>2. i \in Present(heap, top.act.klass, top.act.val)
    BY <1>2, <1>5, <1>6, SchemaAssumption DEF Slots
  <2>3. PICK d : d = p[Len(p)]
    OBVIOUS
  <2>4. d.act = top.act /\ d.last = top.at /\ d.rest = top.rest /\ i \in d.rest /\ i \in Int
    BY <1>2, <1>5, <1>7, <1>12, <1>11, <2>3 DEF Due, Frame
  <2>5. SettlesField(heap, p, e, q, i)
    <3>1. e = FieldBegin(InfoOf(d.act.klass, i), i, d.last)
      BY <1>9, <2>4
    <3>2. q[Len(p)] = [act |-> d.act, last |-> i, rest |-> d.rest \ {i}]
      BY <1>7, <1>11, <1>14, <2>4
    <3>3. q[Len(p) + 1] = Whole(heap, Callee(heap, d.act, i))
      <4>1. Len(p) + 1 = a + 2
        BY <1>4, <1>7
      <4> QED BY <1>2, <1>5, <1>11, <1>14, <2>4, <4>1
    <3>4. IsFirst(i, d.rest)
      BY <1>2, <1>5, <2>4
    <3> QED BY <2>2, <2>3, <2>4, <3>1, <3>2, <3>3, <3>4 DEF SettlesField
  <2>6. SettlesStruct(heap, p, e, q)
    BY <1>8, <2>3, <2>4, <2>5 DEF SettlesStruct
  <2>7. p[Len(p)].act.klass # NULL
    BY <1>5, <2>3, <2>4
  <2> QED BY <1>4, <1>7, <1>10, <1>14, <2>1, <2>6, <2>7 DEF Settles
<1>16. PICK new : /\ Accounts(heap, Root, out \o <<e>>, new)
                  /\ Len(out \o <<e>>) = Len(out) + 1 /\ new[Len(out) + 1] = q
  <2>1. Settles(heap, due[Len(out)], e, q) /\ Accounts(heap, Root, out, due)
    BY <1>3, <1>15
  <2>2. out \in Seq(WireEvent) /\ e \in WireEvent
    BY <1>1, <1>10
  <2> QED BY <2>1, <2>2, AccountsGrow
<1>17. Share(heap, stack', q, n, a + 1)
  <2>1. f.act.klass # NULL /\ f.pc # "called" /\ [act |-> f.act, last |-> f.at, rest |-> f.rest] = d1
    BY <1>2, <1>5, <1>11
  <2>2. Writes(heap, f, q, a, a + 1)
    BY <1>14, <2>1 DEF Writes
  <2>3. stack'[n] = f /\ \A m \in 1..n - 1 : stack'[m] = stack[m]
    <3>1. \A m \in 1..n - 1 : m \in 1..n /\ m # n
      BY <1>6
    <3>2. \A m \in 1..n : stack'[m] = IF m = n THEN f ELSE stack[m]
      BY <1>2, <1>5
    <3> QED BY <1>5, <1>6, <3>1, <3>2
  <2>4. Share(heap, stack, p, n - 1, a) /\ \A j \in 1..a : q[j] = p[j]
    BY <1>4, <1>5, <1>14
  <2>5. Writes(heap, stack'[n], q, a, a + 1) /\ a <= a + 1 /\ a + 1 \in Nat
    BY <1>4, <2>2, <2>3
  <2>6. n \in Nat \ {0} /\ a \in Nat
    BY <1>4, <1>6
  <2>7. \A m \in 1..n - 1 : stack'[m] = stack[m]
    BY <2>3
  <2> QED BY <2>4, <2>5, <2>6, <2>7, ShareReplaced
<1>18. Share(heap, stack', q, n + 1, a + 2)
  <2>1. Writes(heap, g, q, a + 1, a + 2)
    <3>1. a + 2 = a + 1 + 1
      BY <1>4
    <3> QED BY <1>2, <1>11, <1>14, <3>1 DEF Writes
  <2>2. a + 2 \in Nat /\ a + 1 \in 0..a + 2 /\ stack'[n + 1] = g /\ n \in Nat
    BY <1>2, <1>4, <1>5, <1>6
  <2> QED BY <1>17, <2>1, <2>2, ShareAdded
<1>19. Len(stack') = n + 1 /\ Len(q) = a + 2 /\ out' = out \o <<e>> /\ UNCHANGED <<heap, Root>>
  BY <1>1, <1>2, <1>5, <1>10, <1>14
<1>20. q = new[Len(out')] /\ Accounts(heap, Root, out', new)
  BY <1>16, <1>19
<1> QED BY <1>18, <1>19, <1>20, AccountIs

\* An element is begun: it is no longer its container's to write.
LEMMA ElementAccount ==
  ASSUME ShapeInv, OutTyped, AccountInv, CallNext, Top.act.klass = NULL
  PROVE  AccountInv'
<1>1. res.st = "running" /\ stack # <<>> /\ Top.pc = "looping"
      /\ heap' = heap /\ Root' = Root /\ IsHeap(heap) /\ TypeOK /\ out \in Seq(WireEvent)
  BY RootIsConstant DEF CallNext, Next, ShapeInv, TypeOK, OutTyped
<1>2. PICK i \in Top.rest, f \in Frame, g \in Frame :
           /\ i \in Slots(heap, Top.act) /\ IsFirst(i, Top.rest)
           /\ out' = out \o SlotHeader(Top, i)
           /\ f.pc = "looping" /\ f.act = Top.act /\ f.rest = Top.rest \ {i} /\ f.at = i
           /\ g.pc = "called" /\ g.act = Callee(heap, Top.act, i) /\ g.at = 0
           /\ stack' \in Seq(Frame)
           /\ Len(stack') = Len(stack) + 1
           /\ \A n \in 1..Len(stack) : stack'[n] = IF n = Len(stack) THEN f ELSE stack[n]
           /\ stack'[Len(stack) + 1] = g
  BY CallNextFrames
<1>3. PICK due, p :
        /\ p \in Seq(Due) /\ Accounts(heap, Root, out, due) /\ p = due[Len(out)]
        /\ Len(p) \in Nat /\ Len(stack) \in Nat
        /\ \E a \in 0..Len(p) : /\ Share(heap, stack, p, Len(stack) - 1, a)
                                /\ Writes(heap, Top, p, a, Len(p))
  BY <1>1, TopWrites
<1>4. PICK a \in 0..Len(p) : /\ a \in Nat /\ Share(heap, stack, p, Len(stack) - 1, a)
                             /\ Writes(heap, Top, p, a, Len(p))
  BY <1>3
<1>5. PICK act, n, b, rest : act = Top.act /\ n = Len(stack) /\ b = Len(p) /\ rest = Top.rest
  OBVIOUS
<1>6. n \in Nat \ {0} /\ b \in Nat /\ a \in 0..b
  <2>1. stack \in Seq(Frame)
    BY <1>1 DEF TypeOK
  <2> QED BY <1>1, <1>3, <1>4, <1>5, <2>1, TopIsFrame
<1>7. PICK last \in Int : /\ rest = (last + 1 - (b - a)) .. last
                          /\ \A j \in 1..b - a : p[a + j] = Whole(heap, Callee(heap, act, last + 1 - j))
  BY <1>1, <1>4, <1>5 DEF Writes
<1>8. i \in Int /\ i \in rest /\ \A j \in rest : i <= j
  BY <1>2, <1>5, <1>7 DEF IsFirst
<1>9. i = last + 1 - (b - a) /\ a < b
  <2>1. last + 1 - (b - a) <= i /\ i <= last
    BY <1>6, <1>7, <1>8
  <2>2. last + 1 - (b - a) \in rest
    BY <1>6, <1>7, <1>8, <2>1
  <2>3. i <= last + 1 - (b - a)
    BY <1>8, <2>2
  <2> QED BY <1>6, <1>8, <2>1, <2>3
<1>10. out' = out
  BY <1>1, <1>2, ConcatEmptySeq DEF SlotHeader
<1>11. Writes(heap, f, p, a, b - 1)
  <2>1. f.pc = "looping" /\ f.act = act /\ f.act.klass = NULL /\ f.rest = rest \ {i}
    BY <1>2, <1>5
  <2>2. f.rest = (last + 1 - (b - 1 - a)) .. last
    BY <1>6, <1>7, <1>9, <2>1
  <2>3. \A j \in 1..b - 1 - a : j \in 1..b - a
    BY <1>6
  <2>4. \A j \in 1..b - 1 - a : p[a + j] = Whole(heap, Callee(heap, f.act, last + 1 - j))
    BY <1>7, <2>1, <2>3
  <2> QED BY <2>1, <2>2, <2>4, ItemsAreDue
<1>12. Writes(heap, g, p, b - 1, b)
  <2>1. b - a \in 1..b - a /\ a + (b - a) = b /\ b = b - 1 + 1
    BY <1>6, <1>9
  <2>2. p[b] = Whole(heap, Callee(heap, act, i))
    BY <1>7, <1>9, <2>1
  <2> QED BY <1>2, <1>5, <2>1, <2>2 DEF Writes
<1>13. Share(heap, stack', p, n, b - 1)
  <2>1. stack'[n] = f /\ \A m \in 1..n - 1 : stack'[m] = stack[m]
    <3>1. \A m \in 1..n - 1 : m \in 1..n /\ m # n
      BY <1>6
    <3>2. \A m \in 1..n : stack'[m] = IF m = n THEN f ELSE stack[m]
      BY <1>2, <1>5
    <3> QED BY SMTT(40), <1>5, <1>6, <3>1, <3>2
  <2>2. Share(heap, stack, p, n - 1, a) /\ Writes(heap, stack'[n], p, a, b - 1)
    BY <1>4, <1>5, <1>11, <2>1
  <2>3. b - 1 \in Nat /\ a <= b - 1 /\ \A j \in 1..a : p[j] = p[j]
    BY <1>6, <1>9
  <2>4. n \in Nat \ {0} /\ a \in Nat
    BY <1>4, <1>6
  <2>5. \A m \in 1..n - 1 : stack'[m] = stack[m]
    BY <2>1
  <2> QED BY ZenonT(40), <2>2, <2>3, <2>4, <2>5, ShareReplaced
<1>14. Share(heap, stack', p, n + 1, b)
  <2>1. b - 1 \in 0..b /\ n \in Nat /\ stack'[n + 1] = g
    BY <1>2, <1>5, <1>6, <1>9
  <2> QED BY <1>6, <1>12, <1>13, <2>1, ShareAdded
<1> QED BY <1>1, <1>2, <1>3, <1>5, <1>10, <1>14, AccountIs

\* A struct is closed: its stop field settles what was due of it.  A container has
\* nothing left to write.
LEMMA LeaveAccount ==
  ASSUME ShapeInv, FramesInv, OutTyped, AccountInv, Leave
  PROVE  AccountInv'
<1>1. res.st = "running" /\ stack \in Seq(Frame) /\ stack # <<>> /\ Top.pc = "looping"
      /\ Top.rest = {} /\ heap' = heap /\ Root' = Root /\ IsHeap(heap)
      /\ out \in Seq(WireEvent) /\ out' = out \o Trailer(Top.act) /\ stack' = Pop
  BY RootIsConstant DEF Leave, Next, ShapeInv, TypeOK, OutTyped
<1>2. PICK due, p :
        /\ p \in Seq(Due) /\ Accounts(heap, Root, out, due) /\ p = due[Len(out)]
        /\ Len(p) \in Nat /\ Len(stack) \in Nat
        /\ \E a \in 0..Len(p) : /\ Share(heap, stack, p, Len(stack) - 1, a)
                                /\ Writes(heap, Top, p, a, Len(p))
  BY <1>1, TopWrites
<1>3. PICK a \in 0..Len(p) : /\ a \in Nat /\ Share(heap, stack, p, Len(stack) - 1, a)
                             /\ Writes(heap, Top, p, a, Len(p))
  BY <1>2
<1>4. PICK top, n : top = Top /\ n = Len(stack) - 1
  OBVIOUS
<1>5. n \in Nat /\ n + 1 \in 1..Len(stack) /\ top = stack[n + 1]
      /\ Len(stack') = n /\ \A m \in 1..n : stack'[m] = stack[m]
  <2>1. Len(stack) \in Nat \ {0}
    BY <1>1, TopIsFrame
  <2>2. Len(Pop) = Len(stack) - 1 /\ \A m \in 1..Len(stack) - 1 : Pop[m] = stack[m]
    BY <1>1, PopFacts
  <2> QED BY <1>1, <1>4, <2>1, <2>2 DEF Top
<1>6. CASE top.act.klass # NULL
  <2>1. Len(p) = a + 1 /\ p[Len(p)] = [act |-> top.act, last |-> top.at, rest |-> top.rest]
    BY <1>1, <1>3, <1>4, <1>6 DEF Writes
  <2>2. heap[top.act.val].klass = top.act.klass
    BY <1>5, <1>6 DEF FramesInv, FrameInv
  <2>3. PICK e : e = FieldStop
    OBVIOUS
  <2>4. out' = out \o <<e>> /\ e \in WireEvent /\ Brings(e) = 0
    BY <1>1, <1>4, <1>6, <2>3 DEF Trailer, FieldStop, WireEvent, Brings
  <2>5. PICK q \in Seq(Due) : PutOn(q, p, a, <<>>, 0)
    <3>1. PICK x : x = <<>>
      OBVIOUS
    <3>2. \A j \in 1..0 : x[j] \in Due
      OBVIOUS
    <3> QED BY <1>2, <1>3, <3>1, <3>2, Stacked
  <2>6. Len(q) = a /\ \A j \in 1..a : q[j] = p[j]
    BY <1>3, <2>5 DEF PutOn
  <2>7. Settles(heap, p, e, q)
    <3>1. p # <<>> /\ Len(p) - 1 = a
      BY <1>3, <2>1, EmptySeq
    <3>2. PICK d : d = p[Len(p)]
      OBVIOUS
    <3>3. d.act = top.act /\ d.rest = {}
      BY <1>1, <1>4, <2>1, <3>2
    <3>4. SettlesStruct(heap, p, e, q)
      BY <2>2, <2>3, <3>2, <3>3 DEF SettlesStruct
    <3>5. p[Len(p)].act.klass # NULL /\ Len(q) = Len(p) - 1 + Brings(e)
      BY <1>3, <1>6, <2>4, <2>6, <3>1, <3>2, <3>3
    <3> QED BY <2>6, <3>1, <3>4, <3>5 DEF Settles
  <2>8. PICK new : /\ Accounts(heap, Root, out \o <<e>>, new)
                   /\ Len(out \o <<e>>) = Len(out) + 1 /\ new[Len(out) + 1] = q
    <3>1. Settles(heap, due[Len(out)], e, q) /\ Accounts(heap, Root, out, due)
      BY <1>2, <2>7
    <3>2. out \in Seq(WireEvent) /\ e \in WireEvent
      BY <1>1, <2>4
    <3> QED BY <3>1, <3>2, AccountsGrow
  <2>9. Share(heap, stack', q, n, a)
    <3>1. Share(heap, stack, p, n, a)
      BY <1>3, <1>4
    <3> QED BY <1>3, <1>5, <2>6, <3>1, ShareKept
  <2>10. UNCHANGED <<heap, Root>> /\ q = new[Len(out')] /\ Accounts(heap, Root, out', new)
    BY <1>1, <2>4, <2>8
  <2> QED BY <1>5, <2>6, <2>9, <2>10, AccountIs
<1>7. CASE top.act.klass = NULL
  <2>1. out' = out
    BY <1>1, <1>4, <1>7, ConcatEmptySeq DEF Trailer
  <2>2. PICK b \in Nat : b = Len(p)
    BY <1>2
  <2>3. PICK last \in Int : top.rest = (last + 1 - (b - a)) .. last
    BY <1>1, <1>3, <1>4, <1>7, <2>2 DEF Writes
  <2>4. a = b
    <3>1. a \in 0..b
      BY <1>3, <2>2
    <3>2. last \notin (last + 1 - (b - a)) .. last
      BY <1>1, <1>4, <2>3
    <3> QED BY <3>1, <3>2
  <2>5. Share(heap, stack', p, n, b)
    <3>1. Share(heap, stack, p, n, b) /\ \A j \in 1..b : p[j] = p[j]
      BY <1>3, <1>4, <2>4
    <3> QED BY <1>5, <2>2, <3>1, ShareKept
  <2> QED BY <1>1, <1>2, <1>5, <2>1, <2>2, <2>5, AccountIs
<1> QED BY <1>6, <1>7

\* At first the root is due, and it is the only frame's to write.
LEMMA BeginAccount ==
  ASSUME ShapeInv, WireInv, SerializeBegin, res'.st \in {"running", "ok"}
  PROVE  AccountInv'
<1>1. out' = <<>> /\ Len(out') = 0 /\ stack' = <<NewFrame(Root, call.data, NULL)>>
      /\ UNCHANGED <<heap, Root>> /\ IsHeap(heap)
  <2>1. out = <<>> /\ out' = out /\ heap' = heap
    BY DEF SerializeBegin, WireInv, NothingYet
  <2>2. UNCHANGED Root
    BY RootIsConstant DEF Next
  <2>3. stack' = <<NewFrame(Root, call.data, NULL)>>
    BY DEF SerializeBegin, Raised, ShapeInv, TypeOK, Result
  <2> QED BY <2>1, <2>2, <2>3, EmptySeq DEF ShapeInv, TypeOK
<1>2. Root \in Activation
  BY RootIsActivation DEF ShapeInv
<1>3. PICK d, p, due : /\ d = Whole(heap, Root) /\ p = <<d>> /\ due = [i \in 0..0 |-> <<d>>]
  OBVIOUS
<1>4. p \in Seq(Due) /\ Len(p) = 1 /\ p[1] = d
  <2>1. d \in Due
    BY <1>1, <1>2, <1>3, WholeIsDue
  <2> QED BY <1>3, <2>1
<1>5. Accounts(heap, Root, out', due)
  <2>1. due \in [0..0 -> Seq(Due)] /\ due[0] = p /\ 1..0 = {}
    BY <1>3, <1>4
  <2> QED BY <1>1, <1>3, <2>1 DEF Accounts
<1>6. Share(heap, stack', p, 1, 1)
  <2>1. PICK s : s = stack'
    OBVIOUS
  <2>2. Len(s) = 1 /\ s[1].pc = "called" /\ s[1].at = 0 /\ s[1].act = Root
    BY <1>1, <2>1 DEF NewFrame
  <2>3. Writes(heap, s[1], p, 0, 1)
    BY <1>3, <1>4, <2>2 DEF Writes
  <2>4. Share(heap, s, p, 0, 0)
    <3>1. PICK to : to = [m \in 0..0 |-> 0]
      OBVIOUS
    <3>2. to \in [0..0 -> 0..0] /\ to[0] = 0 /\ \A m, l \in 0..0 : m <= l => to[m] <= to[l]
      BY <3>1
    <3> QED BY <3>2 DEF Share
  <2>5. 0 \in Nat /\ 1 \in Nat /\ 0 \in 0..1 /\ 0 + 1 = 1
    OBVIOUS
  <2>6. Share(heap, s, p, 1, 1)
    BY <2>3, <2>4, <2>5, ShareAdded
  <2> QED BY <2>1, <2>6
<1>7. Len(stack') = 1 /\ p = due[Len(out')]
  BY <1>1, <1>3
<1> QED BY <1>1, <1>4, <1>5, <1>6, <1>7, AccountIs

\* Every step keeps account.
LEMMA AccountStep ==
  IInv /\ FramesInv /\ WireInv /\ AccountInv /\ [Next]_vars => AccountInv'
<1> SUFFICES ASSUME IInv, FramesInv, WireInv, AccountInv, [Next]_vars PROVE AccountInv'
  OBVIOUS
<1>1. ShapeInv /\ OutTyped
  BY DEF IInv, WireInv
<1>2. CASE SerializeBegin
  <2>1. res'.st \notin {"running", "ok"} => AccountInv'
    BY DEF AccountInv
  <2>2. ASSUME res'.st \in {"running", "ok"} PROVE AccountInv'
    <3>1. ShapeInv /\ WireInv /\ SerializeBegin
      BY <1>1, <1>2
    <3> QED BY <2>2, <3>1, BeginAccount
  <2> QED BY <2>1, <2>2
<1>3. CASE Enter
  BY <1>1, <1>3, EnterAccount
<1>4. CASE CallNext
  BY <1>1, <1>4, FieldAccount, ElementAccount
<1>5. CASE Leave
  BY <1>1, <1>5, LeaveAccount
<1>6. CASE Raise
  <2>1. res'.st = "raised"
    BY <1>1, <1>6, RaiseResult DEF ShapeInv
  <2> QED BY <2>1 DEF AccountInv
<1>7. CASE Overflow
  BY <1>1, <1>7 DEF AccountInv, Overflow, ShapeInv, TypeOK, Result
<1>8. CASE SerializeEnd \/ UNCHANGED vars
  <2>1. UNCHANGED <<heap, Root, out, stack>> /\ (res'.st \in {"running", "ok"} => res.st \in {"running", "ok"})
    BY <1>8, RootIsConstant DEF SerializeEnd, vars
  <2> QED BY <2>1 DEF AccountInv
<1> QED BY <1>2, <1>3, <1>4, <1>5, <1>6, <1>7, <1>8 DEF Next

LEMMA AccountHolds == Spec => []AccountInv
<1>1. Init => AccountInv
  BY DEF Init, Pending, AccountInv
<1> QED BY <1>1, AccountStep, InvHolds, FramesHold, WireHolds, PTL DEF Spec

\* At the end nothing is due.
Complete == res.st = "ok" => \E due : Accounts(heap, Root, out, due) /\ due[Len(out)] = <<>>

LEMMA AllIsWritten == IInv /\ WireInv /\ AccountInv => Complete
<1> SUFFICES ASSUME IInv, WireInv, AccountInv, res.st = "ok"
             PROVE  \E due : Accounts(heap, Root, out, due) /\ due[Len(out)] = <<>>
  BY DEF Complete
<1>1. PICK due : /\ Accounts(heap, Root, out, due)
                 /\ Share(heap, stack, due[Len(out)], Len(stack), Len(due[Len(out)]))
  BY DEF AccountInv
<1>2. stack = <<>> /\ Len(stack) = 0
  BY EmptySeq DEF IInv, RootInv
<1>3. Len(due[Len(out)]) = 0
  BY <1>1, <1>2 DEF Share
<1>4. due[Len(out)] \in Seq(Due)
  <2>1. Len(out) \in 0..Len(out)
    BY LenProperties DEF WireInv, OutTyped
  <2> QED BY <1>1, <2>1 DEF Accounts
<1> QED BY <1>1, <1>3, <1>4, EmptySeq

\* What serialize returns is the data and nothing but the data, whatever the schema
\* and the object graph: starting from the root, every event settles the value or the
\* struct that is due, in the depth-first order in which a reader meets them, with
\* the type, the size and the field header that belong to it, and at the end nothing
\* is due any more.
THEOREM BufferIsTheData == Spec => []Complete
BY AllIsWritten, AccountHolds, InvHolds, WireHolds, PTL
=============================================================================
