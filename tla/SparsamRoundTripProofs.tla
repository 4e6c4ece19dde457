------------------------ MODULE SparsamRoundTripProofs ------------------------
(****************************************************************************)
(* What deserialization promises, whatever it is given to read: for every    *)
(* schema, every object graph that was written, every class it is read as,   *)
(* under both protocols and wherever the buffer was cut.                     *)
(****************************************************************************)
EXTENDS SparsamRoundTrip, SparsamWriterProofs, WellFoundedInduction

(****************************************************************************)
(* The state of a reader.                                                    *)
(****************************************************************************)

Ref == VALUE \cup Nat
WireType == TType \cup {"STOP"}

RObject ==
  [type : {"object", "LIST", "SET", "MAP"}, klass : Klasses \cup {NULL},
   items : Seq(Ref), ivars : [Names -> Ref], setfield : Names \cup {NULL}]

\* The info of a frame that reads a field is that of a field of its class.
Known(f) == \E fid \in Fids(f.klass) : f.info = InfoOf(f.klass, fid)

AnyFrames == [fn : {"any"}, type : WireType, info : Infos]

ObjectFrames ==
  {f \in [fn : {"struct", "union"}, pc : {"first", "value", "second", "leaving"},
          klass : Klasses, obj : Nat, info : Infos \cup {NULL}, last : Int] :
     /\ f.fn = "union" <=> f.klass \in Unions
     /\ f.info = NULL \/ Known(f)
     /\ f.pc = "value" => Known(f)}

ItemsFrames ==
  {f \in [fn : {"items"}, type : {"LIST", "SET", "MAP"}, info : Infos,
          types : Seq(WireType), left : Nat, got : Seq(Ref)] :
     /\ FieldInfo[f.info].elementType \in Infos
     /\ IF f.type = "MAP"
        THEN FieldInfo[f.info].keyType \in Infos /\ Len(f.types) = 2
        ELSE f.types = <<FieldInfo[FieldInfo[f.info].elementType].ftype>>}

SkipFrames == [fn : {"skip"}, left : Nat, value : {<<>>, <<nil>>}]

RFrame == AnyFrames \cup ObjectFrames \cup ItemsFrames \cup SkipFrames

ReaderTypes ==
  /\ readerKlass \in Klasses
  /\ input \in Seq(WireEvent) \cup {NULL}
  /\ pos \in Nat \ {0}
  /\ mem \in Seq(RObject)
  /\ rstack \in Seq(RFrame)
  /\ ret \in {<<>>} \cup {<<v>> : v \in Ref}

(****************************************************************************)
(* The frames and the objects they fill.  A frame's object is younger than   *)
(* those of the frames below it, so that no two fill the same one; a union   *)
(* that has yet to store its field is as klass.new left it.                  *)
(****************************************************************************)

HasObject(f) == f.fn \in {"struct", "union"}
Waiting(f) == f.fn = "union" /\ f.pc \in {"first", "value"}

Owns ==
  \A n \in 1..Len(rstack) :
    HasObject(rstack[n]) => /\ rstack[n].obj \in 1..Len(mem)
                            /\ mem[rstack[n].obj].klass = rstack[n].klass

Younger ==
  \A m, n \in 1..Len(rstack) :
    HasObject(rstack[m]) /\ HasObject(rstack[n]) /\ m < n => rstack[m].obj < rstack[n].obj

Fresh ==
  \A n \in 1..Len(rstack) :
    Waiting(rstack[n]) => /\ mem[rstack[n].obj].ivars = R!Unset
                          /\ mem[rstack[n].obj].setfield = NULL

ObjectsInv == Owns /\ Younger /\ Fresh /\ UnionsHoldTheirSetField

(****************************************************************************)
(* Lemmas on the stack operations.                                           *)
(****************************************************************************)

\* The innermost frame is a frame.
LEMMA RTopIsFrame ==
  ASSUME rstack \in Seq(RFrame), rstack # <<>>
  PROVE  /\ Len(rstack) \in Nat \ {0} /\ Len(rstack) \in 1..Len(rstack)
         /\ R!Top = rstack[Len(rstack)] /\ R!Top \in RFrame
<1>1. Len(rstack) \in Nat \ {0}
  BY EmptySeq
<1>2. Len(rstack) \in 1..Len(rstack)
  BY <1>1
<1> QED BY <1>1, <1>2, ElementOfSeq DEF R!Top

\* The frame on top is replaced.
LEMMA RReplace ==
  ASSUME rstack \in Seq(RFrame), rstack # <<>>, NEW f \in RFrame,
         rstack' = R!WithTop(f)
  PROVE  /\ rstack' \in Seq(RFrame) /\ Len(rstack') = Len(rstack)
         /\ \A n \in 1..Len(rstack) :
              rstack'[n] = IF n = Len(rstack) THEN f ELSE rstack[n]
BY RTopIsFrame, ExceptSeq DEF R!WithTop

\* The frame on top is replaced and calls another.
LEMMA RPush ==
  ASSUME rstack \in Seq(RFrame), rstack # <<>>, NEW f \in RFrame, NEW g \in RFrame,
         rstack' = Append(R!WithTop(f), g)
  PROVE  /\ rstack' \in Seq(RFrame) /\ Len(rstack') = Len(rstack) + 1
         /\ \A n \in 1..Len(rstack) :
              rstack'[n] = IF n = Len(rstack) THEN f ELSE rstack[n]
         /\ rstack'[Len(rstack) + 1] = g
<1>1. /\ R!WithTop(f) \in Seq(RFrame) /\ Len(R!WithTop(f)) = Len(rstack)
      /\ \A n \in 1..Len(rstack) :
           R!WithTop(f)[n] = IF n = Len(rstack) THEN f ELSE rstack[n]
  BY RTopIsFrame, ExceptSeq DEF R!WithTop
<1> QED BY <1>1, AppendProperties

\* The frame on top returns.
LEMMA RPop ==
  ASSUME rstack \in Seq(RFrame), rstack # <<>>, rstack' = R!Pop
  PROVE  /\ rstack' \in Seq(RFrame) /\ Len(rstack') = Len(rstack) - 1
         /\ \A n \in 1..Len(rstack) - 1 : rstack'[n] = rstack[n]
BY AllButLast DEF R!Pop

(****************************************************************************)
(* The containers readAny builds hold what was read, whatever the set: the   *)
(* functions that build them are defined for all of their domain, and every  *)
(* value of theirs is a sequence over that set.                              *)
(****************************************************************************)

\* A set of natural numbers has a least one.
LEMMA SmallestOfSet ==
  ASSUME NEW T, T \subseteq Nat, T # {}
  PROVE  \E m \in T : \A k \in T : ~(k < m)
<1>1. PICK m \in T : \A k \in T : ~(<<k, m>> \in OpToRel(<, Nat))
  BY NatLessThanWellFounded, WFMin
<1>2. \A k \in T : ~(k < m)
  BY <1>1 DEF OpToRel
<1> QED BY <1>2

\* Adding an element.
LEMMA SetAddType ==
  ASSUME NEW S, NEW s \in Seq(S), NEW v \in S
  PROVE  R!SetAdd(s, v) \in Seq(S)
BY AppendProperties DEF R!SetAdd

\* There is such a function: else there would be none on a least domain.
LEMMA SetOfArrayExists ==
  ASSUME NEW got, NEW L \in Nat
  PROVE  \E f : f = [n \in 0..L |-> IF n = 0 THEN <<>> ELSE R!SetAdd(f[n - 1], got[n])]
<1> DEFINE Bad == {m \in Nat : ~\E f : f = [n \in 0..m |->
                     IF n = 0 THEN <<>> ELSE R!SetAdd(f[n - 1], got[n])]}
<1>1. SUFFICES ASSUME L \in Bad PROVE FALSE
  OBVIOUS
<1>2. PICK m \in Bad : \A k \in Bad : ~(k < m)
  <2>1. Bad \subseteq Nat
    OBVIOUS
  <2> HIDE DEF Bad
  <2> QED BY <1>1, <2>1, SmallestOfSet
<1>3. m \in Nat
  BY <1>2
<1>4. m # 0
  <2>1. [n \in 0..0 |-> <<>>] = [n \in 0..0 |-> IF n = 0 THEN <<>> ELSE R!SetAdd([i \in 0..0 |-> <<>>][n - 1], got[n])]
    OBVIOUS
  <2> QED BY <2>1
<1>5. m - 1 \in Nat /\ m - 1 < m
  BY <1>3, <1>4
<1>6. PICK f : f = [n \in 0..m - 1 |-> IF n = 0 THEN <<>> ELSE R!SetAdd(f[n - 1], got[n])]
  BY <1>2, <1>5
<1> DEFINE g == [n \in 0..m |-> IF n = m THEN R!SetAdd(f[m - 1], got[m]) ELSE f[n]]
<1>7. g = [n \in 0..m |-> IF n = 0 THEN <<>> ELSE R!SetAdd(g[n - 1], got[n])]
  <2>1. SUFFICES ASSUME NEW n \in 0..m
                 PROVE  g[n] = IF n = 0 THEN <<>> ELSE R!SetAdd(g[n - 1], got[n])
    BY Zenon
  <2>2. CASE n = m
    BY <1>4, <1>5, <2>2
  <2>3. CASE n # m
    <3>1. n \in 0..m - 1 /\ g[n] = f[n]
      BY <1>5, <2>3
    <3>2. f[n] = IF n = 0 THEN <<>> ELSE R!SetAdd(f[n - 1], got[n])
      BY <1>6, <3>1
    <3>3. n # 0 => n - 1 \in 0..m /\ n - 1 # m
      BY <1>5, <3>1
    <3> QED BY <3>1, <3>2, <3>3
  <2> QED BY <2>2, <2>3
<1> QED BY <1>2, <1>7

\* The elements of the set are among those of the array.
LEMMA SetOfArrayType ==
  ASSUME NEW S, NEW got \in Seq(S)
  PROVE  R!SetOfArray(got) \in Seq(S)
<1> DEFINE upto == CHOOSE f : f = [n \in 0..Len(got) |->
                     IF n = 0 THEN <<>> ELSE R!SetAdd(f[n - 1], got[n])]
<1>1. R!SetOfArray(got) = upto[Len(got)]
  BY DEF R!SetOfArray
<1> HIDE DEF upto
<1>2. Len(got) \in Nat
  BY LenProperties
<1>3. upto = [n \in 0..Len(got) |-> IF n = 0 THEN <<>> ELSE R!SetAdd(upto[n - 1], got[n])]
  BY <1>2, SetOfArrayExists DEF upto
<1> DEFINE Bad == {m \in 0..Len(got) : upto[m] \notin Seq(S)}
<1>4. SUFFICES ASSUME Bad # {} PROVE FALSE
  BY <1>1, <1>2
<1>5. Bad \subseteq 0..Len(got) /\ Bad \subseteq Nat
  BY <1>2
<1>6. PICK m \in Bad : \A k \in Bad : ~(k < m)
  <2> HIDE DEF Bad
  <2> QED BY <1>4, <1>5, SmallestOfSet
<1>7. m \in 0..Len(got) /\ upto[m] \notin Seq(S)
  BY <1>6
<1>8. upto[m] = IF m = 0 THEN <<>> ELSE R!SetAdd(upto[m - 1], got[m])
  BY <1>3, <1>7
<1>9. m # 0
  BY <1>7, <1>8, EmptySeq
<1>10. m - 1 \in 0..Len(got) /\ m - 1 < m /\ m \in 1..Len(got)
  BY <1>2, <1>7, <1>9
<1>11. upto[m - 1] \in Seq(S)
  BY <1>6, <1>10
<1>12. got[m] \in S
  BY <1>10, ElementOfSeq
<1>13. upto[m] \in Seq(S)
  BY <1>8, <1>9, <1>11, <1>12, SetAddType
<1> QED BY <1>7, <1>13

\* Setting a key.
LEMMA HashAsetType ==
  ASSUME NEW S, NEW s \in Seq(S), NEW k \in S, NEW v \in S
  PROVE  R!HashAset(s, k, v) \in Seq(S)
<1>1. CASE \E i \in DOMAIN s : i % 2 = 1 /\ s[i] = k
  <2>1. R!HashAset(s, k, v)
          = [i \in 1..Len(s) |-> IF i % 2 = 0 /\ s[i - 1] = k THEN v ELSE s[i]]
    BY <1>1, LenProperties DEF R!HashAset
  <2>2. \A i \in 1..Len(s) : (IF i % 2 = 0 /\ s[i - 1] = k THEN v ELSE s[i]) \in S
    BY ElementOfSeq
  <2>3. Len(s) \in Nat
    BY LenProperties
  <2> QED BY <2>1, <2>2, <2>3, IsASeq
<1>2. CASE ~\E i \in DOMAIN s : i % 2 = 1 /\ s[i] = k
  <2>1. R!HashAset(s, k, v) = s \o <<k, v>>
    BY <1>2 DEF R!HashAset
  <2>2. <<k, v>> \in Seq(S)
    OBVIOUS
  <2> QED BY <2>1, <2>2, ConcatProperties
<1> QED BY <1>1, <1>2

\* There is such a function: else there would be none on a least domain.
LEMMA HashOfExists ==
  ASSUME NEW got, NEW L \in Nat
  PROVE  \E f : f = [n \in 0..L |-> IF n = 0 THEN <<>> ELSE R!HashAset(f[n - 1], got[2 * n - 1], got[2 * n])]
<1> DEFINE Bad == {m \in Nat : ~\E f : f = [n \in 0..m |->
                     IF n = 0 THEN <<>> ELSE R!HashAset(f[n - 1], got[2 * n - 1], got[2 * n])]}
<1>1. SUFFICES ASSUME L \in Bad PROVE FALSE
  OBVIOUS
<1>2. PICK m \in Bad : \A k \in Bad : ~(k < m)
  <2>1. Bad \subseteq Nat
    OBVIOUS
  <2> HIDE DEF Bad
  <2> QED BY <1>1, <2>1, SmallestOfSet
<1>3. m \in Nat
  BY <1>2
<1>4. m # 0
  <2>1. [n \in 0..0 |-> <<>>] = [n \in 0..0 |-> IF n = 0 THEN <<>> ELSE R!HashAset([i \in 0..0 |-> <<>>][n - 1], got[2 * n - 1], got[2 * n])]
    OBVIOUS
  <2> QED BY <2>1
<1>5. m - 1 \in Nat /\ m - 1 < m
  BY <1>3, <1>4
<1>6. PICK f : f = [n \in 0..m - 1 |-> IF n = 0 THEN <<>> ELSE R!HashAset(f[n - 1], got[2 * n - 1], got[2 * n])]
  BY <1>2, <1>5
<1> DEFINE g == [n \in 0..m |-> IF n = m THEN R!HashAset(f[m - 1], got[2 * m - 1], got[2 * m]) ELSE f[n]]
<1>7. g = [n \in 0..m |-> IF n = 0 THEN <<>> ELSE R!HashAset(g[n - 1], got[2 * n - 1], got[2 * n])]
  <2>1. SUFFICES ASSUME NEW n \in 0..m
                 PROVE  g[n] = IF n = 0 THEN <<>> ELSE R!HashAset(g[n - 1], got[2 * n - 1], got[2 * n])
    BY Zenon
  <2>2. CASE n = m
    BY <1>4, <1>5, <2>2
  <2>3. CASE n # m
    <3>1. n \in 0..m - 1 /\ g[n] = f[n]
      BY <1>5, <2>3
    <3>2. f[n] = IF n = 0 THEN <<>> ELSE R!HashAset(f[n - 1], got[2 * n - 1], got[2 * n])
      BY <1>6, <3>1
    <3>3. n # 0 => n - 1 \in 0..m /\ n - 1 # m
      BY <1>5, <3>1
    <3> QED BY <3>1, <3>2, <3>3
  <2> QED BY <2>2, <2>3
<1> QED BY <1>2, <1>7

\* The keys and values of the hash are among those read.
LEMMA HashOfType ==
  ASSUME NEW S, NEW got \in Seq(S)
  PROVE  R!HashOf(got) \in Seq(S)
<1> DEFINE hash == CHOOSE f : f = [n \in 0..Len(got) \div 2 |->
                     IF n = 0 THEN <<>> ELSE R!HashAset(f[n - 1], got[2 * n - 1], got[2 * n])]
<1>1. R!HashOf(got) = hash[Len(got) \div 2]
  BY DEF R!HashOf
<1> HIDE DEF hash
<1>2. Len(got) \in Nat /\ Len(got) \div 2 \in Nat
  <2>1. Len(got) \in Nat
    BY LenProperties
  <2> QED BY <2>1
<1>3. hash = [n \in 0..Len(got) \div 2 |->
               IF n = 0 THEN <<>> ELSE R!HashAset(hash[n - 1], got[2 * n - 1], got[2 * n])]
  BY <1>2, HashOfExists DEF hash
<1> DEFINE Bad == {m \in 0..Len(got) \div 2 : hash[m] \notin Seq(S)}
<1>4. SUFFICES ASSUME Bad # {} PROVE FALSE
  BY <1>1, <1>2
<1>5. Bad \subseteq 0..Len(got) \div 2 /\ Bad \subseteq Nat
  BY <1>2
<1>6. PICK m \in Bad : \A k \in Bad : ~(k < m)
  <2> HIDE DEF Bad
  <2> QED BY <1>4, <1>5, SmallestOfSet
<1>7. m \in 0..Len(got) \div 2 /\ hash[m] \notin Seq(S)
  BY <1>6
<1>8. hash[m] = IF m = 0 THEN <<>> ELSE R!HashAset(hash[m - 1], got[2 * m - 1], got[2 * m])
  BY <1>3, <1>7
<1>9. m # 0
  BY <1>7, <1>8, EmptySeq
<1>10. /\ m - 1 \in 0..Len(got) \div 2 /\ m - 1 < m
       /\ 2 * m - 1 \in 1..Len(got) /\ 2 * m \in 1..Len(got)
  BY <1>2, <1>7, <1>9
<1>11. hash[m - 1] \in Seq(S)
  BY <1>6, <1>10
<1>12. got[2 * m - 1] \in S /\ got[2 * m] \in S
  BY <1>10, ElementOfSeq
<1>13. hash[m] \in Seq(S)
  BY <1>8, <1>9, <1>11, <1>12, HashAsetType
<1> QED BY <1>7, <1>13

(****************************************************************************)
(* The types of the reader's state.                                          *)
(****************************************************************************)

\* What comes next is an event.
LEMMA EventIsEvent ==
  ASSUME ReaderTypes, input # NULL, pos <= Len(input)
  PROVE  R!Event \in WireEvent
<1>1. input \in Seq(WireEvent) /\ pos \in 1..Len(input)
  BY LenProperties DEF ReaderTypes
<1> QED BY <1>1, ElementOfSeq DEF R!Event

\* The kinds of frames, told apart by fn.
LEMMA FrameKinds ==
  ASSUME NEW f \in RFrame
  PROVE  /\ f.fn = "any" => f \in AnyFrames
         /\ HasObject(f) => f \in ObjectFrames
         /\ f.fn = "items" => f \in ItemsFrames
         /\ f.fn = "skip" => f \in SkipFrames
         /\ f.fn \in {"any", "struct", "union", "items", "skip"}
BY DEF RFrame, AnyFrames, ObjectFrames, ItemsFrames, SkipFrames, HasObject

\* klass.new gives an object.
LEMMA NewIsObject ==
  ASSUME NEW k \in Klasses
  PROVE  /\ R!New(k) \in RObject /\ R!New(k).klass = k /\ R!New(k).type = "object"
         /\ R!New(k).setfield = NULL
         /\ R!New(k).ivars = IF k \in Unions THEN R!Unset ELSE Defaults[k]
<1>1. R!Unset \in [Names -> Ref]
  BY SchemaAssumption DEF R!Unset, Ref
<1>2. Defaults[k] \in [Names -> Ref]
  BY RoundTripAssumption DEF Ref
<1>3. <<>> \in Seq(Ref)
  BY EmptySeq
<1> QED BY <1>1, <1>2, <1>3 DEF R!New, R!Object, RObject

\* What a container becomes is an object.
LEMMA BuiltIsObject ==
  ASSUME NEW f \in ItemsFrames
  PROVE  /\ R!Object(f.type, NULL, R!Built(f), R!Unset) \in RObject
         /\ R!Object(f.type, NULL, R!Built(f), R!Unset).klass = NULL
         /\ R!Object(f.type, NULL, R!Built(f), R!Unset).type = f.type
         /\ R!Object(f.type, NULL, R!Built(f), R!Unset).items = R!Built(f)
<1>1. R!Unset \in [Names -> Ref]
  BY SchemaAssumption DEF R!Unset, Ref
<1>2. f.got \in Seq(Ref) /\ f.type \in {"LIST", "SET", "MAP"}
  BY DEF ItemsFrames
<1>3. R!Built(f) \in Seq(Ref)
  BY <1>2, SetOfArrayType, HashOfType DEF R!Built
<1> QED BY <1>1, <1>2, <1>3 DEF R!Object, RObject

\* A frame for an object of a class.
LEMMA StructFrameIsFrame ==
  ASSUME NEW k \in Klasses, NEW o \in Nat
  PROVE  /\ R!StructFrame(k, o) \in ObjectFrames /\ R!StructFrame(k, o) \in RFrame
         /\ R!StructFrame(k, o).klass = k /\ R!StructFrame(k, o).obj = o
         /\ R!StructFrame(k, o).info = NULL
         /\ R!StructFrame(k, o).fn = IF k \in Unions THEN "union" ELSE "struct"
BY DEF R!StructFrame, ObjectFrames, RFrame

(****************************************************************************)
(* The steps, each with the frames it leaves.                                *)
(****************************************************************************)

\* The frame that reads a field, and the one that is to read its value.
LEMMA ReadFieldFrames ==
  ASSUME ReaderTypes, input # NULL, R!ReadField
  PROVE  \/ R!Event.ev = "stop" /\ rstack' = R!Pop /\ ret' = <<R!Top.obj>>
         \/ \E f \in ObjectFrames, g \in RFrame :
              /\ R!Event.ev = "field" /\ rstack' = Append(R!WithTop(f), g) /\ ret' = <<>>
              /\ f.fn = "struct" /\ f.klass = R!Top.klass /\ f.obj = R!Top.obj
              /\ \/ g.fn = "skip" /\ g.value = <<>>
                 \/ /\ Known(f) /\ g.fn = "any" /\ g.info = f.info
                    /\ g.type = R!Event.type /\ FieldInfo[f.info].ftype = R!Event.type
         \/ rstack' = rstack /\ ret' = ret /\ rres'.st = "raised"
<1>1. /\ rstack \in Seq(RFrame) /\ rstack # <<>> /\ R!Top.fn = "struct" /\ ret = <<>>
      /\ pos <= Len(input) /\ R!Event.ev \in {"field", "stop"}
  BY DEF ReaderTypes, R!ReadField, R!Reading, R!Expecting, R!Headers
<1>2. R!Event \in WireEvent
  BY <1>1, EventIsEvent
<1>3. R!Top \in ObjectFrames
  BY <1>1, RTopIsFrame, FrameKinds DEF HasObject
<1>4. CASE R!Event.ev = "stop"
  BY <1>4 DEF R!ReadField, R!Return
<1>5. CASE R!Event.ev = "field"
  <2> DEFINE fid == R!FieldId(R!Top.last)
             f == [R!Top EXCEPT !.last = fid]
             info == InfoOf(R!Top.klass, fid)
             fi == [f EXCEPT !.info = info]
  <2>0. IF fid \notin Fids(R!Top.klass)
        THEN rstack' = Append(R!WithTop(f), R!SkipFrame(1, <<>>)) /\ UNCHANGED <<ret, rres>>
        ELSE IF R!TypesMatch(info, R!Event.type)
        THEN rstack' = Append(R!WithTop(fi), R!AnyFrame(R!Event.type, info))
             /\ UNCHANGED <<ret, rres>>
        ELSE rres' = [R!End("raised", "TypeMismatch") EXCEPT
                        !.struct = R!Top.klass, !.field = FieldInfo[info].symName]
             /\ UNCHANGED <<rstack, ret>>
    <3>1. R!Event.ev # "stop"
      BY <1>5
    <3> QED BY <3>1, Zenon DEF R!ReadField, R!Fids, R!InfoOf, Fids, InfoOf
  <2>1. fid \in Int
    <3>1. R!Top.last \in Int
      BY <1>3 DEF ObjectFrames
    <3> QED BY <1>2, <1>5, <3>1, EventKinds DEF R!FieldId
  <2>2. /\ f \in ObjectFrames /\ f.fn = "struct" /\ f.klass = R!Top.klass
        /\ f.obj = R!Top.obj
    BY <1>1, <1>3, <2>1 DEF ObjectFrames, Known
  <2>3. CASE fid \notin Fids(R!Top.klass)
    <3>1. rstack' = Append(R!WithTop(f), R!SkipFrame(1, <<>>)) /\ ret' = ret
      BY <2>0, <2>3
    <3>2. R!SkipFrame(1, <<>>) \in RFrame /\ R!SkipFrame(1, <<>>).fn = "skip"
          /\ R!SkipFrame(1, <<>>).value = <<>>
      BY DEF R!SkipFrame, SkipFrames, RFrame
    <3> HIDE DEF f
    <3> QED BY <1>1, <1>5, <2>2, <3>1, <3>2
  <2>4. CASE fid \in Fids(R!Top.klass) /\ R!TypesMatch(info, R!Event.type)
    <3>1. rstack' = Append(R!WithTop(fi), R!AnyFrame(R!Event.type, info)) /\ ret' = ret
      BY <2>0, <2>4
    <3>2. R!Top.klass \in Klasses /\ R!Top.klass = f.klass
      BY <1>3, <2>2 DEF ObjectFrames
    <3>3. info \in Infos
      BY <2>4, <3>2, FieldHasInfo
    <3>4. /\ fi.fn = "struct" /\ fi.klass = R!Top.klass /\ fi.obj = R!Top.obj
          /\ fi.info = info
      BY <2>2 DEF ObjectFrames
    <3>5. Known(fi)
      BY <2>4, <3>4 DEF Known
    <3>6. fi \in ObjectFrames
      <4> HIDE DEF fid, info, f
      <4>1. f \in [fn : {"struct", "union"}, pc : {"first", "value", "second", "leaving"},
                   klass : Klasses, obj : Nat, info : Infos \cup {NULL}, last : Int]
        BY <2>2 DEF ObjectFrames
      <4>2. f.fn = "union" <=> f.klass \in Unions
        BY <2>2 DEF ObjectFrames
      <4>3. fi \in [fn : {"struct", "union"}, pc : {"first", "value", "second", "leaving"},
                   klass : Klasses, obj : Nat, info : Infos \cup {NULL}, last : Int]
        BY <3>3, <4>1
      <4>4. fi.fn = f.fn /\ fi.klass = f.klass
        BY <4>1
      <4> QED BY <3>5, <4>2, <4>3, <4>4 DEF ObjectFrames
    <3>7. /\ R!AnyFrame(R!Event.type, info) \in RFrame
          /\ R!AnyFrame(R!Event.type, info).fn = "any"
          /\ R!AnyFrame(R!Event.type, info).info = info
          /\ R!AnyFrame(R!Event.type, info).type = R!Event.type
      BY <1>2, <1>5, <3>3, EventKinds DEF R!AnyFrame, AnyFrames, RFrame, WireType
    <3>8. FieldInfo[info].ftype = R!Event.type
      BY <2>4 DEF R!TypesMatch
    <3> HIDE DEF fi, info
    <3> QED BY <1>1, <1>5, <3>1, <3>4, <3>5, <3>6, <3>7, <3>8
  <2>5. CASE fid \in Fids(R!Top.klass) /\ ~R!TypesMatch(info, R!Event.type)
    BY <2>0, <2>5 DEF R!End, R!Running
  <2> QED BY <2>3, <2>4, <2>5
<1> QED BY <1>1, <1>4, <1>5

\* A frame whose pc, info or last id has changed is one.
LEMMA ObjectFrameIsFrame ==
  ASSUME NEW f \in ObjectFrames, NEW g, NEW pc \in {"first", "value", "second", "leaving"},
         NEW info \in Infos \cup {NULL}, NEW last \in Int,
         g = [f EXCEPT !.pc = pc, !.info = info, !.last = last],
         info = NULL \/ Known(g), pc = "value" => Known(g)
  PROVE  /\ g \in ObjectFrames /\ g \in RFrame
         /\ g.fn = f.fn /\ g.klass = f.klass /\ g.obj = f.obj
         /\ g.pc = pc /\ g.info = info
<1>1. f \in [fn : {"struct", "union"}, pc : {"first", "value", "second", "leaving"},
             klass : Klasses, obj : Nat, info : Infos \cup {NULL}, last : Int]
  BY DEF ObjectFrames
<1>2. f.fn = "union" <=> f.klass \in Unions
  BY DEF ObjectFrames
<1>3. g \in [fn : {"struct", "union"}, pc : {"first", "value", "second", "leaving"},
             klass : Klasses, obj : Nat, info : Infos \cup {NULL}, last : Int]
  BY <1>1
<1>4. /\ g.fn = f.fn /\ g.klass = f.klass /\ g.obj = f.obj
      /\ g.pc = pc /\ g.info = info
  BY <1>1
<1>5. g \in ObjectFrames
  BY <1>2, <1>3, <1>4 DEF ObjectFrames
<1> QED BY <1>4, <1>5 DEF RFrame

\* The same for readUnion.
LEMMA ReadUnionFieldFrames ==
  ASSUME ReaderTypes, input # NULL, R!ReadUnionField
  PROVE  \/ R!Event.ev = "stop" /\ rstack' = R!Pop /\ ret' = <<R!Top.obj>>
         \/ \E f \in ObjectFrames, g \in RFrame :
              /\ rstack' = Append(R!WithTop(f), g) /\ ret' = ret
              /\ f.fn = "union" /\ f.klass = R!Top.klass /\ f.obj = R!Top.obj
              /\ \/ f.pc = "leaving" /\ g.fn = "skip" /\ g.value = <<>>
                 \/ f.pc = "value" /\ g.fn = "any"
<1>1. /\ rstack \in Seq(RFrame) /\ rstack # <<>> /\ R!Top.fn = "union"
      /\ pos <= Len(input) /\ R!Event.ev \in {"field", "stop"}
  BY DEF ReaderTypes, R!ReadUnionField, R!Reading, R!Expecting, R!Headers
<1>2. R!Event \in WireEvent
  BY <1>1, EventIsEvent
<1>3. R!Top \in ObjectFrames
  BY <1>1, RTopIsFrame, FrameKinds DEF HasObject
<1>4. CASE R!Event.ev = "stop"
  BY <1>4 DEF R!ReadUnionField, R!Return
<1>5. CASE R!Event.ev = "field"
  <2> DEFINE fid == R!FieldId(R!Top.last)
             info == InfoOf(R!Top.klass, fid)
             l == [R!Top EXCEPT !.pc = "leaving"]
             f == [R!Top EXCEPT !.pc = "value", !.info = info, !.last = fid]
  <2>1. IF fid \notin Fids(R!Top.klass)
        THEN rstack' = Append(R!WithTop(l), R!SkipFrame(1, <<>>)) /\ UNCHANGED ret
        ELSE rstack' = Append(R!WithTop(f), R!AnyFrame(R!Event.type, info)) /\ UNCHANGED ret
    <3>1. R!Event.ev # "stop"
      BY <1>5
    <3> QED BY <3>1, Zenon DEF R!ReadUnionField, R!Fids, R!InfoOf, Fids, InfoOf
  <2>2. fid \in Int /\ R!Top.last \in Int /\ R!Top.klass \in Klasses
        /\ R!Top.info \in Infos \cup {NULL} /\ (R!Top.info = NULL \/ Known(R!Top))
    <3>1. R!Top.last \in Int /\ R!Top.klass \in Klasses
          /\ R!Top.info \in Infos \cup {NULL} /\ (R!Top.info = NULL \/ Known(R!Top))
      BY <1>3 DEF ObjectFrames
    <3> QED BY <1>2, <1>5, <3>1, EventKinds DEF R!FieldId
  <2>3. CASE fid \notin Fids(R!Top.klass)
    <3>1. /\ l.klass = R!Top.klass /\ l.info = R!Top.info /\ l.fn = "union"
          /\ l.obj = R!Top.obj /\ l.pc = "leaving"
      BY <1>1, <1>3 DEF ObjectFrames
    <3>2. l \in ObjectFrames
      BY <1>3, <3>1 DEF ObjectFrames, Known
    <3>3. R!SkipFrame(1, <<>>) \in RFrame /\ R!SkipFrame(1, <<>>).fn = "skip"
          /\ R!SkipFrame(1, <<>>).value = <<>>
      BY DEF R!SkipFrame, SkipFrames, RFrame
    <3> HIDE DEF l
    <3> QED BY <2>1, <2>3, <3>1, <3>2, <3>3
  <2>4. CASE fid \in Fids(R!Top.klass)
    <3>1. info \in Infos
      BY <2>2, <2>4, FieldHasInfo
    <3>2. /\ f.klass = R!Top.klass /\ f.info = info /\ f.fn = "union"
          /\ f.obj = R!Top.obj /\ f.pc = "value"
      BY <1>1, <1>3 DEF ObjectFrames
    <3>3. Known(f)
      BY <2>4, <3>2 DEF Known
    <3>4. f \in ObjectFrames
      <4> HIDE DEF fid, info
      <4> QED BY <1>3, <2>2, <3>1, <3>3, ObjectFrameIsFrame
    <3>5. /\ R!AnyFrame(R!Event.type, info) \in RFrame
          /\ R!AnyFrame(R!Event.type, info).fn = "any"
      BY <1>2, <1>5, <3>1, EventKinds DEF R!AnyFrame, AnyFrames, RFrame, WireType
    <3> HIDE DEF f, info
    <3> QED BY <2>1, <2>4, <3>2, <3>4, <3>5
  <2> QED BY <2>3, <2>4
<1> QED BY <1>1, <1>4, <1>5

\* readUnion after its field.
LEMMA StoreUnionFieldFrames ==
  ASSUME ReaderTypes, R!StoreUnionField
  PROVE  \E f \in ObjectFrames :
           /\ rstack' = R!WithTop(f)
           /\ f.fn = "union" /\ f.klass = R!Top.klass /\ f.obj = R!Top.obj
           /\ f.pc = "second"
<1>1. rstack \in Seq(RFrame) /\ rstack # <<>> /\ R!Top.fn = "union"
      /\ rstack' = R!WithTop([R!Top EXCEPT !.pc = "second"])
  BY DEF ReaderTypes, R!StoreUnionField, R!Reading
<1>2. R!Top \in ObjectFrames
  BY <1>1, RTopIsFrame, FrameKinds DEF HasObject
<1> DEFINE f == [R!Top EXCEPT !.pc = "second"]
<1>3. /\ f.klass = R!Top.klass /\ f.info = R!Top.info /\ f.fn = "union"
      /\ f.obj = R!Top.obj /\ f.pc = "second"
  BY <1>1, <1>2 DEF ObjectFrames
<1>4. f \in ObjectFrames
  BY <1>2, <1>3 DEF ObjectFrames, Known
<1> HIDE DEF f
<1> QED BY <1>1, <1>3, <1>4 DEF f

\* A list, set or map is read element by element or skipped.
LEMMA ContainerFrames ==
  ASSUME ReaderTypes, input # NULL, R!ReadSequence \/ R!ReadMap
  PROVE  /\ R!Top \in AnyFrames
         /\ \E f \in RFrame :
              /\ rstack' = R!WithTop(f) /\ ret' = ret
              /\ \/ f.fn = "skip" /\ f.value = <<nil>>
                    /\ R!Top.type \in SequenceTypes \cup {"MAP"}
                 \/ /\ f \in ItemsFrames /\ f.type = R!Top.type /\ f.info = R!Top.info
                    /\ f.got = <<>>
                    /\ f.type \in SequenceTypes =>
                         /\ R!Event.ev = "list"
                         /\ f.types[1] = R!Event.elem /\ f.left = R!Event.size
<1>1. /\ rstack \in Seq(RFrame) /\ rstack # <<>> /\ R!Top.fn = "any" /\ pos <= Len(input)
  BY DEF ReaderTypes, R!ReadSequence, R!ReadMap, R!Reading, R!Expecting
<1>2. R!Event \in WireEvent
  BY <1>1, EventIsEvent
<1>3. R!Top \in AnyFrames /\ R!Top.info \in Infos
  BY <1>1, RTopIsFrame, FrameKinds DEF AnyFrames
<1>4. ASSUME NEW n \in Nat
      PROVE  /\ R!SkipFrame(n, <<nil>>) \in RFrame /\ R!SkipFrame(n, <<nil>>).fn = "skip"
             /\ R!SkipFrame(n, <<nil>>).value = <<nil>>
  BY DEF R!SkipFrame, SkipFrames, RFrame
<1>5. <<>> \in Seq(Ref)
  BY EmptySeq
<1>6. CASE R!ReadSequence
  <2>1. R!Event.ev = "list" /\ R!Event.elem \in TType /\ R!Event.size \in Nat
    BY <1>2, <1>6, EventKinds DEF R!ReadSequence, R!Expecting
  <2>2. R!Top.type \in SequenceTypes /\ ret' = ret
    BY <1>6 DEF R!ReadSequence, R!SequenceTypes, SequenceTypes
  <2> DEFINE elem == FieldInfo[R!Top.info].elementType
             f == R!ItemsFrame(R!Top.type, R!Top.info, <<R!Event.elem>>, R!Event.size)
  <2>3. rstack' = IF elem = NULL \/ R!Event.elem # FieldInfo[elem].ftype
                  THEN R!WithTop(R!SkipFrame(R!Event.size, <<nil>>)) ELSE R!WithTop(f)
    BY <1>6, Zenon DEF R!ReadSequence
  <2>4. CASE elem = NULL \/ R!Event.elem # FieldInfo[elem].ftype
    BY <1>3, <1>4, <2>1, <2>2, <2>3, <2>4
  <2>5. CASE ~(elem = NULL \/ R!Event.elem # FieldInfo[elem].ftype)
    <3>1. elem \in Infos
      BY <1>3, <2>5, InfoIsWellFormed
    <3>2. /\ f.type = R!Top.type /\ f.info = R!Top.info /\ f.got = <<>>
          /\ f.types = <<R!Event.elem>> /\ f.left = R!Event.size
      BY DEF R!ItemsFrame
    <3>3. f.types[1] = R!Event.elem
      BY <3>2
    <3>4. <<R!Event.elem>> \in Seq(WireType)
      BY <2>1 DEF WireType
    <3>5. R!Top.type # "MAP" /\ R!Top.type \in {"LIST", "SET", "MAP"}
      BY <2>2 DEF SequenceTypes
    <3>6. f \in ItemsFrames
      BY <1>3, <1>5, <2>1, <2>5, <3>1, <3>4, <3>5 DEF R!ItemsFrame, ItemsFrames
    <3>7. rstack' = R!WithTop(f)
      BY <2>3, <2>5
    <3> HIDE DEF f
    <3> QED BY <1>3, <2>1, <2>2, <3>2, <3>3, <3>6, <3>7 DEF RFrame
  <2> QED BY <2>4, <2>5
<1>7. CASE R!ReadMap
  <2>1. /\ R!Event.ev = "map" /\ R!Event.elem \in TType /\ R!Event.key \in TType
        /\ R!Event.size \in Nat
    BY <1>2, <1>7, EventKinds DEF R!ReadMap, R!Expecting
  <2>2. R!Top.type = "MAP" /\ ret' = ret
    BY <1>7 DEF R!ReadMap
  <2> DEFINE i == FieldInfo[R!Top.info]
             f == R!ItemsFrame("MAP", R!Top.info, R!MapTypes, 2 * R!Event.size)
  <2>3. rstack' = IF i.keyType = NULL \/ i.elementType = NULL
                  THEN R!WithTop(R!SkipFrame(2 * R!Event.size, <<nil>>)) ELSE R!WithTop(f)
    BY <1>7, Zenon DEF R!ReadMap
  <2>4. CASE i.keyType = NULL \/ i.elementType = NULL
    <3>1. 2 * R!Event.size \in Nat
      BY <2>1
    <3> QED BY <1>3, <1>4, <2>2, <2>3, <2>4, <3>1
  <2>5. CASE ~(i.keyType = NULL \/ i.elementType = NULL)
    <3>1. i.elementType \in Infos /\ i.keyType \in Infos
      BY <1>3, <2>5, InfoIsWellFormed
    <3>2. /\ f.type = "MAP" /\ f.info = R!Top.info /\ f.got = <<>>
      BY DEF R!ItemsFrame
    <3>3. R!MapTypes \in Seq(WireType) /\ Len(R!MapTypes) = 2
      <4>1. \A a, b \in WireType : <<a, b>> \in Seq(WireType) /\ Len(<<a, b>>) = 2
        OBVIOUS
      <4>2. /\ R!Event.key \in WireType /\ R!Event.elem \in WireType
            /\ "STOP" \in WireType
        BY <2>1 DEF WireType
      <4> QED BY <4>1, <4>2 DEF R!MapTypes
    <3>4. 2 * R!Event.size \in Nat
      BY <2>1
    <3>5. f \in ItemsFrames
      BY <1>3, <1>5, <3>1, <3>3, <3>4 DEF R!ItemsFrame, ItemsFrames
    <3>6. rstack' = R!WithTop(f)
      BY <2>3, <2>5
    <3> HIDE DEF f
    <3> QED BY <1>3, <2>2, <3>2, <3>5, <3>6 DEF RFrame, SequenceTypes
  <2> QED BY <2>4, <2>5
<1> QED BY <1>6, <1>7

\* A struct or union is made and its frame takes over, or there is no class.
LEMMA ReadStructOrUnionFrames ==
  ASSUME ReaderTypes, R!ReadStructOrUnion
  PROVE  \/ rstack' = rstack /\ mem' = mem /\ rres'.st = "crash"
         \/ \E k \in Klasses :
              /\ k = FieldInfo[R!Top.info].klass
              /\ mem' = Append(mem, R!New(k))
              /\ rstack' = R!WithTop(R!StructFrame(k, Len(mem) + 1))
<1>1. /\ rstack \in Seq(RFrame) /\ rstack # <<>> /\ R!Top.fn = "any"
  BY DEF ReaderTypes, R!ReadStructOrUnion, R!Reading
<1>2. R!Top \in AnyFrames /\ R!Top.info \in Infos
  BY <1>1, RTopIsFrame, FrameKinds DEF AnyFrames
<1>3. FieldInfo[R!Top.info].klass \in Klasses \cup {NULL}
  BY <1>2, InfoIsWellFormed
<1>4. CASE FieldInfo[R!Top.info].klass = NULL
  BY <1>4 DEF R!ReadStructOrUnion, R!End, R!Running
<1>5. CASE FieldInfo[R!Top.info].klass # NULL
  BY <1>3, <1>5 DEF R!ReadStructOrUnion
<1> QED BY <1>4, <1>5

\* A container asks for its next element.
LEMMA NextItemFrames ==
  ASSUME ReaderTypes, R!NextItem
  PROVE  \E f \in ItemsFrames, g \in AnyFrames :
           /\ rstack' = Append(R!WithTop(f), g)
           /\ R!Top \in ItemsFrames /\ R!Top.left > 0 /\ f.left = R!Top.left - 1
           /\ f.type = R!Top.type /\ f.info = R!Top.info /\ f.got = R!Top.got
           /\ f.types = R!Top.types
           /\ g.info = R!Alternate(R!Top, FieldInfo[f.info].keyType, FieldInfo[f.info].elementType)
           /\ f.type # "MAP" => /\ g.info = FieldInfo[f.info].elementType
                                /\ g.type = FieldInfo[g.info].ftype
<1>1. /\ rstack \in Seq(RFrame) /\ rstack # <<>> /\ R!Top.fn = "items" /\ R!Top.left > 0
  BY DEF ReaderTypes, R!NextItem, R!Reading
<1>2. R!Top \in ItemsFrames
  BY <1>1, RTopIsFrame, FrameKinds
<1> DEFINE i == FieldInfo[R!Top.info]
           f == [R!Top EXCEPT !.left = @ - 1]
           t == R!Alternate(R!Top, R!Top.types[1], R!Top.types[Len(R!Top.types)])
           info == R!Alternate(R!Top, i.keyType, i.elementType)
           g == R!AnyFrame(t, info)
<1>3. rstack' = Append(R!WithTop(f), g)
  BY Zenon DEF R!NextItem
<1>4. R!Top.left \in Nat /\ R!Top.left - 1 \in Nat
  BY <1>1, <1>2 DEF ItemsFrames
<1>5. /\ f.type = R!Top.type /\ f.info = R!Top.info /\ f.got = R!Top.got
      /\ f.types = R!Top.types /\ f.left = R!Top.left - 1
  BY <1>2 DEF ItemsFrames
<1>6. f \in ItemsFrames
  BY <1>2, <1>4, <1>5 DEF ItemsFrames
<1>7. /\ R!Top.types \in Seq(WireType) /\ i.elementType \in Infos
      /\ IF R!Top.type = "MAP" THEN i.keyType \in Infos /\ Len(R!Top.types) = 2
         ELSE R!Top.types = <<FieldInfo[i.elementType].ftype>>
  BY <1>2 DEF ItemsFrames
<1>8. /\ Len(R!Top.types) \in {1, 2}
      /\ R!Top.type # "MAP" => Len(R!Top.types) = 1 /\ R!Top.types[1] = FieldInfo[i.elementType].ftype
  <2>1. \A x : Len(<<x>>) = 1 /\ <<x>>[1] = x
    OBVIOUS
  <2> HIDE DEF i
  <2> QED BY <1>7, <2>1
<1>9. R!Top.types[1] \in WireType /\ R!Top.types[Len(R!Top.types)] \in WireType
  <2>1. 1 \in 1..Len(R!Top.types) /\ Len(R!Top.types) \in 1..Len(R!Top.types)
    <3>1. \A n \in {1, 2} : 1 \in 1..n /\ n \in 1..n
      OBVIOUS
    <3> QED BY <1>8, <3>1
  <2> QED BY <1>7, <2>1, ElementOfSeq
<1>10. t \in WireType /\ info \in Infos
  BY <1>7, <1>9 DEF R!Alternate
<1>11. g \in AnyFrames /\ g.type = t /\ g.info = info
  BY <1>10 DEF R!AnyFrame, AnyFrames
<1>12. ASSUME R!Top.type # "MAP"
       PROVE  info = i.elementType /\ t = FieldInfo[i.elementType].ftype
  <2>1. R!Top.types[Len(R!Top.types)] = FieldInfo[i.elementType].ftype
    BY <1>8, <1>12
  <2> QED BY <1>12, <2>1 DEF R!Alternate
<1>13. info = R!Alternate(R!Top, FieldInfo[f.info].keyType, FieldInfo[f.info].elementType)
  BY <1>5
<1> HIDE DEF t, info, f, g
<1> QED BY <1>1, <1>2, <1>3, <1>5, <1>6, <1>11, <1>12, <1>13

\* It takes up what it is given.
LEMMA StoreItemFrames ==
  ASSUME ReaderTypes, R!StoreItem
  PROVE  \E f \in ItemsFrames, v \in Ref :
           /\ rstack' = R!WithTop(f) /\ ret = <<v>>
           /\ R!Top \in ItemsFrames /\ f.left = R!Top.left
           /\ f.type = R!Top.type /\ f.info = R!Top.info /\ f.types = R!Top.types
           /\ f.got = Append(R!Top.got, v)
<1>1. /\ rstack \in Seq(RFrame) /\ rstack # <<>> /\ R!Top.fn = "items" /\ ret # <<>>
  BY DEF ReaderTypes, R!StoreItem, R!Reading
<1>2. R!Top \in ItemsFrames
  BY <1>1, RTopIsFrame, FrameKinds
<1>3. PICK v \in Ref : ret = <<v>>
  BY <1>1 DEF ReaderTypes
<1> DEFINE f == [R!Top EXCEPT !.got = Append(@, v)]
<1>4. rstack' = R!WithTop(f)
  BY <1>3 DEF R!StoreItem
<1>5. R!Top.got \in Seq(Ref)
  BY <1>2 DEF ItemsFrames
<1>6. Append(R!Top.got, v) \in Seq(Ref)
  BY <1>5, AppendProperties
<1>7. /\ f.type = R!Top.type /\ f.info = R!Top.info /\ f.got = Append(R!Top.got, v)
      /\ f.types = R!Top.types /\ f.left = R!Top.left
  BY <1>2 DEF ItemsFrames
<1>8. f \in ItemsFrames
  BY <1>2, <1>6, <1>7 DEF ItemsFrames
<1> HIDE DEF f
<1> QED BY <1>2, <1>3, <1>4, <1>7, <1>8

\* It is done.
LEMMA ReturnItemsFrames ==
  ASSUME ReaderTypes, R!ReturnItems
  PROVE  \E o \in RObject :
           /\ R!Top \in ItemsFrames /\ R!Top.left = 0
           /\ mem' = Append(mem, o) /\ rstack' = R!Pop /\ ret' = <<Len(mem) + 1>>
           /\ o.klass = NULL /\ o.type = R!Top.type /\ o.items = R!Built(R!Top)
<1>1. /\ rstack \in Seq(RFrame) /\ rstack # <<>> /\ R!Top.fn = "items" /\ R!Top.left = 0
  BY DEF ReaderTypes, R!ReturnItems, R!Reading
<1>2. R!Top \in ItemsFrames
  BY <1>1, RTopIsFrame, FrameKinds
<1>3. mem' = Append(mem, R!Object(R!Top.type, NULL, R!Built(R!Top), R!Unset))
      /\ rstack' = R!Pop /\ ret' = <<Len(mem) + 1>>
  BY DEF R!ReturnItems, R!Return
<1> QED BY <1>1, <1>2, <1>3, BuiltIsObject

\* One more event of what is skipped.
LEMMA SkipFrameStays ==
  ASSUME ReaderTypes, input # NULL, R!Skip
  PROVE  \E f \in SkipFrames : /\ rstack' = R!WithTop(f) /\ R!Top \in SkipFrames
                               /\ f.value = R!Top.value
<1>1. /\ rstack \in Seq(RFrame) /\ rstack # <<>> /\ R!Top.fn = "skip"
      /\ R!Top.left > 0 /\ pos <= Len(input)
  BY DEF ReaderTypes, R!Skip, R!Reading
<1>2. R!Top \in SkipFrames
  BY <1>1, RTopIsFrame, FrameKinds
<1>3. R!Event \in WireEvent
  BY <1>1, EventIsEvent
<1>4. R!Weight(R!Event) \in Nat
  BY <1>3, EventKinds DEF R!Weight
<1> DEFINE f == [R!Top EXCEPT !.left = @ - 1 + R!Weight(R!Event)]
<1>5. rstack' = R!WithTop(f)
  BY DEF R!Skip
<1>6. R!Top.left \in Nat /\ R!Top.left - 1 + R!Weight(R!Event) \in Nat
  BY <1>1, <1>2, <1>4 DEF SkipFrames
<1>7. f \in SkipFrames /\ f.value = R!Top.value
  BY <1>2, <1>6 DEF SkipFrames
<1> HIDE DEF f
<1> QED BY <1>2, <1>5, <1>7

(****************************************************************************)
(* Storing a field.                                                          *)
(****************************************************************************)

SetsIvar(o, name, v) == mem' = [mem EXCEPT ![o].ivars[name] = v]
SetsUnion(o, name, v) == mem' = [mem EXCEPT ![o].setfield = name, ![o].ivars[name] = v]

\* An instance variable of an object is set.
LEMMA IvarSet ==
  ASSUME mem \in Seq(RObject), NEW o \in 1..Len(mem), NEW name, NEW v \in Ref,
         SetsIvar(o, name, v)
  PROVE  /\ mem' \in Seq(RObject) /\ Len(mem') = Len(mem)
         /\ \A n \in 1..Len(mem) : n # o => mem'[n] = mem[n]
         /\ mem'[o].klass = mem[o].klass /\ mem'[o].type = mem[o].type
         /\ mem'[o].items = mem[o].items /\ mem'[o].setfield = mem[o].setfield
         /\ \A x \in Names : mem'[o].ivars[x] = IF x = name THEN v ELSE mem[o].ivars[x]
<1> DEFINE e == [mem[o] EXCEPT !.ivars = [mem[o].ivars EXCEPT ![name] = v]]
<1>1. mem' = [mem EXCEPT ![o] = e]
  BY DEF SetsIvar
<1>2. mem[o] \in RObject
  BY ElementOfSeq
<1>3. /\ e \in RObject /\ e.klass = mem[o].klass /\ e.type = mem[o].type
      /\ e.items = mem[o].items /\ e.setfield = mem[o].setfield
      /\ \A x \in Names : e.ivars[x] = IF x = name THEN v ELSE mem[o].ivars[x]
  BY <1>2 DEF RObject
<1> HIDE DEF e
<1>4. /\ mem' \in Seq(RObject) /\ Len(mem') = Len(mem)
      /\ \A n \in 1..Len(mem) : mem'[n] = IF n = o THEN e ELSE mem[n]
  <2>1. /\ [mem EXCEPT ![o] = e] \in Seq(RObject) /\ Len([mem EXCEPT ![o] = e]) = Len(mem)
        /\ \A n \in 1..Len(mem) : [mem EXCEPT ![o] = e][n] = IF n = o THEN e ELSE mem[n]
    BY <1>3, ExceptSeq
  <2> QED BY <1>1, <2>1
<1> QED BY <1>3, <1>4

\* And @setfield with it.
LEMMA UnionSet ==
  ASSUME mem \in Seq(RObject), NEW o \in 1..Len(mem), NEW name \in Names, NEW v \in Ref,
         SetsUnion(o, name, v)
  PROVE  /\ mem' \in Seq(RObject) /\ Len(mem') = Len(mem)
         /\ \A n \in 1..Len(mem) : n # o => mem'[n] = mem[n]
         /\ mem'[o].klass = mem[o].klass /\ mem'[o].type = mem[o].type
         /\ mem'[o].items = mem[o].items /\ mem'[o].setfield = name
         /\ \A x \in Names : mem'[o].ivars[x] = IF x = name THEN v ELSE mem[o].ivars[x]
<1> DEFINE e == [mem[o] EXCEPT !.setfield = name, !.ivars = [mem[o].ivars EXCEPT ![name] = v]]
<1>1. mem[o] \in RObject
  BY ElementOfSeq
<1>2. mem' = [mem EXCEPT ![o] = e]
  BY <1>1 DEF RObject, SetsUnion
<1>3. /\ e \in RObject /\ e.klass = mem[o].klass /\ e.type = mem[o].type
      /\ e.items = mem[o].items /\ e.setfield = name
      /\ \A x \in Names : e.ivars[x] = IF x = name THEN v ELSE mem[o].ivars[x]
  BY <1>1 DEF RObject
<1> HIDE DEF e
<1>4. /\ mem' \in Seq(RObject) /\ Len(mem') = Len(mem)
      /\ \A n \in 1..Len(mem) : mem'[n] = IF n = o THEN e ELSE mem[n]
  <2>1. /\ [mem EXCEPT ![o] = e] \in Seq(RObject) /\ Len([mem EXCEPT ![o] = e]) = Len(mem)
        /\ \A n \in 1..Len(mem) : [mem EXCEPT ![o] = e][n] = IF n = o THEN e ELSE mem[n]
    BY <1>3, ExceptSeq
  <2> QED BY <1>2, <2>1
<1> QED BY <1>3, <1>4

\* readStruct stores a field, or not.
LEMMA StoreFieldEffect ==
  ASSUME ReaderTypes, ObjectsInv, R!StoreField
  PROVE  /\ R!Top \in ObjectFrames /\ R!Top.fn = "struct" /\ R!Top.obj \in 1..Len(mem)
         /\ mem[R!Top.obj].klass = R!Top.klass
         /\ rstack' = rstack /\ ret' = <<>>
         /\ \E v \in Ref :
              /\ ret = <<v>>
              /\ IF v = nil THEN mem' = mem
                 ELSE SetsIvar(R!Top.obj, FieldInfo[R!Top.info].symName, v)
<1>1. /\ rstack \in Seq(RFrame) /\ rstack # <<>> /\ R!Top.fn = "struct" /\ ret # <<>>
  BY DEF ReaderTypes, R!StoreField, R!Reading
<1>2. /\ R!Top \in ObjectFrames /\ R!Top = rstack[Len(rstack)] /\ HasObject(R!Top)
      /\ Len(rstack) \in 1..Len(rstack)
  BY <1>1, RTopIsFrame, FrameKinds DEF HasObject
<1>3. R!Top.obj \in 1..Len(mem) /\ mem[R!Top.obj].klass = R!Top.klass
  BY <1>2 DEF ObjectsInv, Owns
<1>4. PICK v \in Ref : ret = <<v>>
  BY <1>1 DEF ReaderTypes
<1>5. ret[1] = v
  BY <1>4
<1>6. IF v = nil THEN mem' = mem
      ELSE SetsIvar(R!Top.obj, FieldInfo[R!Top.info].symName, v)
  BY <1>5 DEF R!StoreField, SetsIvar
<1> QED BY <1>1, <1>2, <1>3, <1>4, <1>6 DEF R!StoreField

\* readUnion does.
LEMMA StoreUnionFieldEffect ==
  ASSUME ReaderTypes, ObjectsInv, R!StoreUnionField
  PROVE  /\ R!Top \in ObjectFrames /\ R!Top.fn = "union" /\ R!Top.pc = "value"
         /\ R!Top.obj \in 1..Len(mem) /\ mem[R!Top.obj].klass = R!Top.klass
         /\ ret' = <<>> /\ FieldInfo[R!Top.info].symName \in Names
         /\ \E v \in Ref :
              /\ ret = <<v>>
              /\ IF v = nil THEN mem' = mem
                 ELSE SetsUnion(R!Top.obj, FieldInfo[R!Top.info].symName, v)
<1>1. /\ rstack \in Seq(RFrame) /\ rstack # <<>> /\ R!Top.fn = "union"
      /\ R!Top.pc = "value" /\ ret # <<>>
  BY DEF ReaderTypes, R!StoreUnionField, R!Reading
<1>2. /\ R!Top \in ObjectFrames /\ R!Top = rstack[Len(rstack)] /\ HasObject(R!Top)
      /\ Len(rstack) \in 1..Len(rstack)
  BY <1>1, RTopIsFrame, FrameKinds DEF HasObject
<1>3. R!Top.obj \in 1..Len(mem) /\ mem[R!Top.obj].klass = R!Top.klass
  BY <1>2 DEF ObjectsInv, Owns
<1>4. PICK v \in Ref : ret = <<v>>
  BY <1>1 DEF ReaderTypes
<1>5. ret[1] = v
  BY <1>4
<1>6. IF v = nil THEN mem' = mem
      ELSE SetsUnion(R!Top.obj, FieldInfo[R!Top.info].symName, v)
  BY <1>5 DEF R!StoreUnionField, SetsUnion
<1>7. FieldInfo[R!Top.info].symName \in Names
  BY <1>1, <1>2, FieldHasInfo DEF ObjectFrames, Known
<1> QED BY <1>1, <1>2, <1>3, <1>4, <1>6, <1>7 DEF R!StoreUnionField

\* Every step keeps the types.
LEMMA TypesStep ==
  ASSUME ReaderTypes, ObjectsInv, input # NULL, R!Next, readerKlass' = readerKlass,
         input' = input
  PROVE  ReaderTypes'
<1>0. pos \in Nat \ {0} /\ pos + 1 \in Nat \ {0} /\ rstack \in Seq(RFrame) /\ mem \in Seq(RObject)
  BY DEF ReaderTypes
<1>1. CASE R!Deserialize
  <2>1. rstack' = <<R!StructFrame(readerKlass, 1)>> /\ mem' = <<R!New(readerKlass)>>
        /\ pos' = pos /\ ret' = ret
    BY <1>1 DEF R!Deserialize
  <2>2. R!StructFrame(readerKlass, 1) \in RFrame /\ R!New(readerKlass) \in RObject
    BY StructFrameIsFrame, NewIsObject DEF ReaderTypes
  <2>3. \A S : \A x \in S : <<x>> \in Seq(S)
    OBVIOUS
  <2>4. rstack' \in Seq(RFrame) /\ mem' \in Seq(RObject)
    BY <2>1, <2>2, <2>3
  <2> QED BY <2>1, <2>4 DEF ReaderTypes
<1>2. CASE R!ReadField
  <2>1. pos' = pos + 1 /\ mem' = mem /\ rstack # <<>>
    BY <1>2 DEF R!ReadField, R!Reading
  <2>2. CASE rstack' = R!Pop /\ ret' = <<R!Top.obj>>
    <3>1. R!Top.obj \in Ref
      BY <1>0, <1>2, RTopIsFrame, FrameKinds DEF R!ReadField, R!Reading, HasObject, ObjectFrames, Ref
    <3>2. rstack' \in Seq(RFrame)
      BY <1>0, <2>1, <2>2, RPop
    <3> QED BY <1>0, <2>1, <2>2, <3>1, <3>2 DEF ReaderTypes
  <2>3. CASE \E f \in ObjectFrames, g \in RFrame :
               rstack' = Append(R!WithTop(f), g) /\ ret' = <<>>
    <3>1. rstack' \in Seq(RFrame)
      BY <1>0, <2>1, <2>3, RPush DEF RFrame
    <3> QED BY <1>0, <2>1, <2>3, <3>1 DEF ReaderTypes
  <2>4. CASE rstack' = rstack /\ ret' = ret
    BY <1>0, <2>1, <2>4 DEF ReaderTypes
  <2> QED BY <1>2, <2>2, <2>3, <2>4, ReadFieldFrames
<1>3. CASE R!StoreField
  <2>1. pos' = pos
    BY <1>3 DEF R!StoreField
  <2>2. PICK v \in Ref :
          /\ rstack' = rstack /\ ret' = <<>> /\ R!Top.obj \in 1..Len(mem)
          /\ IF v = nil THEN mem' = mem
             ELSE SetsIvar(R!Top.obj, FieldInfo[R!Top.info].symName, v)
    BY <1>3, StoreFieldEffect
  <2>3. mem' \in Seq(RObject)
    <3>1. CASE v = nil
      BY <1>0, <2>2, <3>1
    <3>2. CASE v # nil
      <4>1. SetsIvar(R!Top.obj, FieldInfo[R!Top.info].symName, v)
        BY <2>2, <3>2
      <4> QED BY <1>0, <2>2, <4>1, IvarSet
    <3> QED BY <3>1, <3>2
  <2> QED BY <2>1, <2>2, <2>3 DEF ReaderTypes
<1>4. CASE R!ReadUnionField
  <2>1. pos' = pos + 1 /\ mem' = mem /\ rstack # <<>>
    BY <1>4 DEF R!ReadUnionField, R!Reading
  <2>2. CASE rstack' = R!Pop /\ ret' = <<R!Top.obj>>
    <3>1. R!Top.obj \in Ref
      BY <1>0, <1>4, RTopIsFrame, FrameKinds DEF R!ReadUnionField, R!Reading, HasObject, ObjectFrames, Ref
    <3>2. rstack' \in Seq(RFrame)
      BY <1>0, <2>1, <2>2, RPop
    <3> QED BY <1>0, <2>1, <2>2, <3>1, <3>2 DEF ReaderTypes
  <2>3. CASE \E f \in ObjectFrames, g \in RFrame :
               rstack' = Append(R!WithTop(f), g) /\ ret' = ret
    <3>1. rstack' \in Seq(RFrame)
      BY <1>0, <2>1, <2>3, RPush DEF RFrame
    <3> QED BY <1>0, <2>1, <2>3, <3>1 DEF ReaderTypes
  <2> QED BY <1>4, <2>2, <2>3, ReadUnionFieldFrames
<1>5. CASE R!StoreUnionField
  <2>1. pos' = pos /\ rstack # <<>>
    BY <1>5 DEF R!StoreUnionField, R!Reading
  <2>2. PICK v \in Ref :
          /\ ret' = <<>> /\ R!Top.obj \in 1..Len(mem) /\ FieldInfo[R!Top.info].symName \in Names
          /\ IF v = nil THEN mem' = mem
             ELSE SetsUnion(R!Top.obj, FieldInfo[R!Top.info].symName, v)
    BY <1>5, StoreUnionFieldEffect
  <2>3. mem' \in Seq(RObject)
    <3>1. CASE v = nil
      BY <1>0, <2>2, <3>1
    <3>2. CASE v # nil
      <4>1. SetsUnion(R!Top.obj, FieldInfo[R!Top.info].symName, v)
        BY <2>2, <3>2
      <4> QED BY <1>0, <2>2, <4>1, UnionSet
    <3> QED BY <3>1, <3>2
  <2>4. rstack' \in Seq(RFrame)
    BY <1>0, <1>5, <2>1, StoreUnionFieldFrames, RReplace DEF RFrame
  <2> QED BY <2>1, <2>2, <2>3, <2>4 DEF ReaderTypes
<1>6. CASE R!ReadUnionStop \/ R!LeaveUnion
  <2>1. pos' \in Nat \ {0} /\ mem' = mem /\ rstack # <<>> /\ R!Top.fn = "union"
    BY <1>0, <1>6 DEF R!ReadUnionStop, R!LeaveUnion, R!Reading
  <2>2. \/ rstack' = R!Pop /\ ret' = <<R!Top.obj>>
        \/ rstack' = rstack /\ ret' = ret
    BY <1>6 DEF R!ReadUnionStop, R!LeaveUnion, R!Return
  <2>3. R!Top.obj \in Ref
    BY <1>0, <2>1, RTopIsFrame, FrameKinds DEF HasObject, ObjectFrames, Ref
  <2>4. rstack' \in Seq(RFrame)
    BY <1>0, <2>1, <2>2, RPop
  <2> QED BY <2>1, <2>2, <2>3, <2>4 DEF ReaderTypes
<1>7. CASE R!ReadScalar
  <2>1. /\ rstack # <<>> /\ rstack' = R!Pop /\ ret' = <<R!Event.val>> /\ mem' = mem
        /\ pos' = pos + 1 /\ pos <= Len(input) /\ R!Event.ev = "scalar"
    BY <1>7 DEF R!ReadScalar, R!Reading, R!Expecting, R!Return
  <2>2. R!Event.val \in Ref
    BY <2>1, EventIsEvent, EventKinds DEF Ref
  <2>3. rstack' \in Seq(RFrame)
    BY <1>0, <2>1, RPop
  <2> QED BY <1>0, <2>1, <2>2, <2>3 DEF ReaderTypes
<1>8. CASE R!ReadSequence \/ R!ReadMap
  <2>1. rstack # <<>> /\ mem' = mem /\ pos' = pos + 1
    BY <1>8 DEF R!ReadSequence, R!ReadMap, R!Reading
  <2>2. rstack' \in Seq(RFrame) /\ ret' = ret
    BY <1>0, <1>8, <2>1, ContainerFrames, RReplace
  <2> QED BY <1>0, <2>1, <2>2 DEF ReaderTypes
<1>9. CASE R!ReadStructOrUnion
  <2>1. rstack # <<>> /\ pos' = pos /\ ret' = ret
    BY <1>9 DEF R!ReadStructOrUnion, R!Reading
  <2>2. Len(mem) + 1 \in Nat
    BY <1>0, LenProperties
  <2>3. CASE rstack' = rstack /\ mem' = mem
    BY <2>1, <2>3 DEF ReaderTypes
  <2>4. ASSUME NEW k \in Klasses, mem' = Append(mem, R!New(k)),
               rstack' = R!WithTop(R!StructFrame(k, Len(mem) + 1))
        PROVE  ReaderTypes'
    <3>1. mem' \in Seq(RObject)
      BY <1>0, <2>4, NewIsObject, AppendProperties
    <3>2. R!StructFrame(k, Len(mem) + 1) \in RFrame
      BY <2>2, StructFrameIsFrame
    <3>3. rstack' \in Seq(RFrame)
      BY <1>0, <2>1, <2>4, <3>2, RReplace
    <3> QED BY <2>1, <3>1, <3>3 DEF ReaderTypes
  <2> QED BY <1>9, <2>3, <2>4, ReadStructOrUnionFrames
<1>10. CASE R!NextItem
  <2>1. rstack # <<>> /\ pos' = pos /\ ret' = ret /\ mem' = mem
    BY <1>10 DEF R!NextItem, R!Reading
  <2>2. rstack' \in Seq(RFrame)
    BY <1>0, <1>10, <2>1, NextItemFrames, RPush DEF RFrame
  <2> QED BY <2>1, <2>2 DEF ReaderTypes
<1>11. CASE R!StoreItem
  <2>1. rstack # <<>> /\ pos' = pos /\ ret' = <<>> /\ mem' = mem
    BY <1>11 DEF R!StoreItem, R!Reading
  <2>2. rstack' \in Seq(RFrame)
    BY <1>0, <1>11, <2>1, StoreItemFrames, RReplace DEF RFrame
  <2> QED BY <2>1, <2>2 DEF ReaderTypes
<1>12. CASE R!ReturnItems
  <2>1. rstack # <<>> /\ pos' = pos
    BY <1>12 DEF R!ReturnItems, R!Reading
  <2>2. Len(mem) + 1 \in Ref
    BY <1>0, LenProperties DEF Ref
  <2>3. PICK o \in RObject : /\ mem' = Append(mem, o) /\ rstack' = R!Pop
                             /\ ret' = <<Len(mem) + 1>>
    BY <1>12, ReturnItemsFrames
  <2>4. mem' \in Seq(RObject)
    BY <1>0, <2>3, AppendProperties
  <2>5. rstack' \in Seq(RFrame)
    BY <1>0, <2>1, <2>3, RPop
  <2> QED BY <2>1, <2>2, <2>3, <2>4, <2>5 DEF ReaderTypes
<1>13. CASE R!Skip
  <2>1. rstack # <<>> /\ pos' = pos + 1 /\ ret' = ret /\ mem' = mem
    BY <1>13 DEF R!Skip, R!Reading
  <2>2. rstack' \in Seq(RFrame)
    BY <1>0, <1>13, <2>1, SkipFrameStays, RReplace DEF RFrame
  <2> QED BY <1>0, <2>1, <2>2 DEF ReaderTypes
<1>14. CASE R!Skipped
  <2>1. /\ rstack # <<>> /\ pos' = pos /\ mem' = mem /\ R!Top.fn = "skip"
        /\ ret' = R!Top.value /\ rstack' = R!Pop
    BY <1>14 DEF R!Skipped, R!Reading
  <2>2. R!Top.value \in {<<>>, <<nil>>}
    BY <1>0, <2>1, RTopIsFrame, FrameKinds DEF SkipFrames
  <2>3. nil \in Ref
    BY SchemaAssumption DEF Ref
  <2>4. rstack' \in Seq(RFrame)
    BY <1>0, <2>1, RPop
  <2> QED BY <2>1, <2>2, <2>3, <2>4 DEF ReaderTypes
<1>15. CASE R!EndOfFile \/ R!Garble \/ R!DeserializeEnd
  BY <1>15 DEF R!EndOfFile, R!Garble, R!DeserializeEnd, ReaderTypes
<1> QED BY <1>1, <1>2, <1>3, <1>4, <1>5, <1>6, <1>7, <1>8, <1>9, <1>10, <1>11, <1>12,
          <1>13, <1>14, <1>15 DEF R!Next

(****************************************************************************)
(* The objects of the frames.                                                *)
(****************************************************************************)

\* A step that fills no object leaves them as they are, as long as the frames it
\* leaves are for the objects they were for, and none starts to wait.
LEMMA ObjectsKept ==
  ASSUME ObjectsInv, rstack \in Seq(RFrame), rstack' \in Seq(RFrame), mem' = mem,
         \A n \in 1..Len(rstack') :
           HasObject(rstack'[n]) =>
             /\ n \in 1..Len(rstack) /\ HasObject(rstack[n])
             /\ rstack'[n].obj = rstack[n].obj /\ rstack'[n].klass = rstack[n].klass
             /\ Waiting(rstack'[n]) => Waiting(rstack[n])
  PROVE  ObjectsInv'
<1>1. Owns'
  BY DEF ObjectsInv, Owns
<1>2. Younger'
  BY DEF ObjectsInv, Younger
<1>3. Fresh'
  BY DEF ObjectsInv, Fresh, Waiting, HasObject, R!Unset
<1>4. UnionsHoldTheirSetField'
  BY DEF ObjectsInv, UnionsHoldTheirSetField
<1> QED BY <1>1, <1>2, <1>3, <1>4 DEF ObjectsInv

\* The same, when an object is made that no frame is for.
LEMMA ObjectsKeptBelow ==
  ASSUME ObjectsInv, rstack \in Seq(RFrame), rstack' \in Seq(RFrame), mem \in Seq(RObject),
         NEW o \in RObject, o.klass \notin Unions, mem' = Append(mem, o),
         \A n \in 1..Len(rstack') :
           n \in 1..Len(rstack) /\ rstack'[n] = rstack[n]
  PROVE  ObjectsInv'
<1>1. /\ Len(mem) \in Nat /\ Len(mem') = Len(mem) + 1 /\ mem'[Len(mem) + 1] = o
      /\ \A n \in 1..Len(mem) : mem'[n] = mem[n] /\ n \in 1..Len(mem')
      /\ \A n \in 1..Len(mem') : n \in 1..Len(mem) \/ n = Len(mem) + 1
  BY AppendProperties, LenProperties
<1>2. Owns'
  BY <1>1 DEF ObjectsInv, Owns
<1>3. Younger'
  BY DEF ObjectsInv, Younger
<1>4. Fresh'
  BY <1>1 DEF ObjectsInv, Owns, Fresh, Waiting, HasObject, R!Unset
<1>5. UnionsHoldTheirSetField'
  BY <1>1 DEF ObjectsInv, UnionsHoldTheirSetField
<1> QED BY <1>2, <1>3, <1>4, <1>5 DEF ObjectsInv

\* A frame for a new object takes over from the one on top.
LEMMA ObjectMade ==
  ASSUME ReaderTypes, ObjectsInv, NEW k \in Klasses, mem' = Append(mem, R!New(k)),
         rstack # <<>>, R!Top.fn = "any", rstack' = R!WithTop(R!StructFrame(k, Len(mem) + 1))
  PROVE  ObjectsInv'
<1>0. /\ mem \in Seq(RObject) /\ rstack \in Seq(RFrame) /\ Len(mem) \in Nat
      /\ Len(mem) + 1 \in Nat /\ Len(rstack) \in Nat \ {0}
  BY LenProperties, RTopIsFrame DEF ReaderTypes
<1> DEFINE o == R!New(k)
           g == R!StructFrame(k, Len(mem) + 1)
<1>1. o \in RObject /\ o.klass = k /\ o.setfield = NULL
      /\ o.ivars = IF k \in Unions THEN R!Unset ELSE Defaults[k]
  BY NewIsObject
<1>2. /\ g \in RFrame /\ g.klass = k /\ g.obj = Len(mem) + 1
      /\ g.fn = IF k \in Unions THEN "union" ELSE "struct"
  BY <1>0, StructFrameIsFrame
<1>3. mem' = Append(mem, o) /\ rstack' = R!WithTop(g)
  OBVIOUS
<1> HIDE DEF o, g
<1>4. /\ Len(mem') = Len(mem) + 1 /\ mem'[Len(mem) + 1] = o
      /\ \A n \in 1..Len(mem) : mem'[n] = mem[n]
  BY <1>0, <1>1, <1>3, AppendProperties
<1>5. /\ Len(rstack') = Len(rstack)
      /\ \A n \in 1..Len(rstack) : rstack'[n] = IF n = Len(rstack) THEN g ELSE rstack[n]
  BY <1>0, <1>2, <1>3, RReplace
<1>6. 1..Len(mem') = 1..Len(mem) \cup {Len(mem) + 1}
  BY <1>0, <1>4
<1>7. Owns'
  BY <1>0, <1>2, <1>1, <1>4, <1>5, <1>6 DEF ObjectsInv, Owns
<1>8. Younger'
  BY <1>0, <1>2, <1>5 DEF ObjectsInv, Owns, Younger
<1>9. Fresh'
  <2>1. ASSUME NEW n \in 1..Len(rstack'), Waiting(rstack'[n])
        PROVE  mem'[rstack'[n].obj].ivars = R!Unset /\ mem'[rstack'[n].obj].setfield = NULL
    <3>1. CASE n = Len(rstack)
      BY <1>1, <1>2, <1>4, <1>5, <2>1, <3>1 DEF Waiting
    <3>2. CASE n # Len(rstack)
      <4>1. rstack'[n] = rstack[n] /\ n \in 1..Len(rstack)
        BY <1>5, <2>1, <3>2
      <4>2. rstack[n].obj \in 1..Len(mem)
        BY <2>1, <4>1 DEF ObjectsInv, Owns, Waiting, HasObject
      <4> QED BY <1>4, <2>1, <4>1, <4>2 DEF ObjectsInv, Fresh
    <3> QED BY <3>1, <3>2
  <2> QED BY <2>1 DEF Fresh, R!Unset
<1>10. UnionsHoldTheirSetField'
  <2>1. ASSUME k \in Unions, NEW n \in Names
        PROVE  o.ivars[n] # nil <=> n = o.setfield
    BY <1>1, <2>1, SchemaAssumption DEF R!Unset
  <2> QED BY <1>1, <1>4, <1>6, <2>1 DEF ObjectsInv, UnionsHoldTheirSetField
<1> QED BY <1>7, <1>8, <1>9, <1>10 DEF ObjectsInv

\* A field of a struct is stored.
LEMMA ObjectsAfterStoreField ==
  ASSUME ReaderTypes, ObjectsInv, R!StoreField
  PROVE  ObjectsInv'
<1>0. /\ mem \in Seq(RObject) /\ rstack \in Seq(RFrame) /\ rstack # <<>>
  BY DEF ReaderTypes, R!StoreField, R!Reading
<1>1. PICK o \in 1..Len(mem), v \in Ref :
        /\ o = R!Top.obj /\ R!Top \in ObjectFrames /\ R!Top.fn = "struct"
        /\ mem[o].klass = R!Top.klass /\ rstack' = rstack
        /\ IF v = nil THEN mem' = mem
           ELSE SetsIvar(o, FieldInfo[R!Top.info].symName, v)
  BY StoreFieldEffect
<1>2. mem[o].klass \notin Unions
  BY <1>1 DEF ObjectFrames
<1>3. CASE mem' = mem
  BY <1>0, <1>1, <1>3, ObjectsKept
<1>4. CASE mem' # mem
  <2>1. /\ Len(mem') = Len(mem) /\ mem'[o].klass = mem[o].klass
        /\ \A n \in 1..Len(mem) : n # o => mem'[n] = mem[n]
    <3>1. SetsIvar(o, FieldInfo[R!Top.info].symName, v)
      BY <1>1, <1>4
    <3> QED BY <1>0, <3>1, IvarSet
  <2>2. Owns'
    BY <1>1, <2>1 DEF ObjectsInv, Owns
  <2>3. Younger'
    BY <1>1 DEF ObjectsInv, Younger
  <2>4. Fresh'
    <3>1. ASSUME NEW n \in 1..Len(rstack), Waiting(rstack[n])
          PROVE  rstack[n].obj \in 1..Len(mem) /\ rstack[n].obj # o
      <4>1. /\ rstack[n].obj \in 1..Len(mem) /\ rstack[n] \in ObjectFrames
            /\ mem[rstack[n].obj].klass = rstack[n].klass
        BY <1>0, <3>1, ElementOfSeq, FrameKinds DEF ObjectsInv, Owns, Waiting, HasObject
      <4>2. rstack[n].klass \in Unions
        BY <3>1, <4>1 DEF Waiting, ObjectFrames
      <4> QED BY <1>2, <4>1, <4>2
    <3> QED BY <1>1, <2>1, <3>1 DEF ObjectsInv, Fresh, R!Unset
  <2>5. UnionsHoldTheirSetField'
    BY <1>2, <2>1 DEF ObjectsInv, UnionsHoldTheirSetField
  <2> QED BY <2>2, <2>3, <2>4, <2>5 DEF ObjectsInv
<1> QED BY <1>3, <1>4

\* The field of a union is stored: the union waited for it, and had none.
LEMMA ObjectsAfterStoreUnionField ==
  ASSUME ReaderTypes, ObjectsInv, R!StoreUnionField
  PROVE  ObjectsInv'
<1>0. /\ mem \in Seq(RObject) /\ rstack \in Seq(RFrame) /\ rstack # <<>>
      /\ Len(rstack) \in 1..Len(rstack) /\ R!Top = rstack[Len(rstack)]
  BY RTopIsFrame DEF ReaderTypes, R!StoreUnionField, R!Reading
<1>1. PICK o \in 1..Len(mem), v \in Ref, name \in Names :
        /\ o = R!Top.obj /\ R!Top \in ObjectFrames /\ R!Top.fn = "union" /\ R!Top.pc = "value"
        /\ IF v = nil THEN mem' = mem
           ELSE SetsUnion(o, name, v)
  BY StoreUnionFieldEffect
<1>2. PICK f \in ObjectFrames :
        /\ rstack' = R!WithTop(f)
        /\ f.fn = "union" /\ f.klass = R!Top.klass /\ f.obj = o /\ f.pc = "second"
  BY <1>1, StoreUnionFieldFrames
<1>3. /\ rstack' \in Seq(RFrame) /\ Len(rstack') = Len(rstack)
      /\ \A n \in 1..Len(rstack) : rstack'[n] = IF n = Len(rstack) THEN f ELSE rstack[n]
  BY <1>0, <1>2, RReplace DEF RFrame
<1>4. ~Waiting(f) /\ HasObject(f) /\ HasObject(R!Top) /\ Waiting(R!Top)
  BY <1>1, <1>2 DEF Waiting, HasObject
<1>5. CASE mem' = mem
  BY <1>0, <1>1, <1>2, <1>3, <1>4, <1>5, ObjectsKept
<1>6. CASE mem' # mem
  <2>1. /\ Len(mem') = Len(mem) /\ mem'[o].klass = mem[o].klass
        /\ \A n \in 1..Len(mem) : n # o => mem'[n] = mem[n]
        /\ mem'[o].setfield = name
        /\ \A x \in Names : mem'[o].ivars[x] = IF x = name THEN v ELSE mem[o].ivars[x]
    <3>1. SetsUnion(o, name, v)
      BY <1>1, <1>6
    <3>2. o \in 1..Len(mem) /\ name \in Names /\ v \in Ref
      BY <1>1
    <3> QED BY <1>0, <3>1, <3>2, UnionSet
  <2>2. Owns'
    <3>1. ASSUME NEW n \in 1..Len(rstack'), HasObject(rstack'[n])
          PROVE  HasObject(rstack[n]) /\ rstack'[n].obj = rstack[n].obj
                 /\ rstack'[n].klass = rstack[n].klass
      BY <1>0, <1>1, <1>2, <1>3, <1>4, <3>1
    <3> QED BY <1>3, <2>1, <3>1 DEF ObjectsInv, Owns
  <2>3. Younger'
    BY <1>0, <1>1, <1>2, <1>3, <1>4 DEF ObjectsInv, Younger
  <2>4. Fresh'
    <3>1. ASSUME NEW n \in 1..Len(rstack), Waiting(rstack'[n])
          PROVE  rstack'[n] = rstack[n] /\ rstack[n].obj \in 1..Len(mem) /\ rstack[n].obj # o
      <4>1. n # Len(rstack) /\ rstack'[n] = rstack[n]
        BY <1>3, <1>4, <3>1
      <4>2. rstack[n].obj < o /\ rstack[n].obj \in 1..Len(mem)
        BY <1>0, <1>1, <1>4, <3>1, <4>1 DEF ObjectsInv, Owns, Younger, Waiting, HasObject
      <4> QED BY <4>1, <4>2
    <3> QED BY <1>3, <2>1, <3>1 DEF ObjectsInv, Fresh, R!Unset
  <2>5. UnionsHoldTheirSetField'
    <3>1. mem[o].ivars = R!Unset
      BY <1>0, <1>1, <1>4 DEF ObjectsInv, Fresh
    <3>2. v # nil
      BY <1>1, <1>6
    <3>3. \A n \in Names : mem'[o].ivars[n] # nil <=> n = mem'[o].setfield
      BY <2>1, <3>1, <3>2 DEF R!Unset
    <3> QED BY <2>1, <3>3 DEF ObjectsInv, UnionsHoldTheirSetField
  <2> QED BY <2>2, <2>3, <2>4, <2>5 DEF ObjectsInv
<1> QED BY <1>5, <1>6

\* The frame on top returns.
LEMMA ObjectsKeptByPop ==
  ASSUME ObjectsInv, rstack \in Seq(RFrame), rstack # <<>>, rstack' = R!Pop, mem' = mem
  PROVE  ObjectsInv'
<1>1. /\ rstack' \in Seq(RFrame) /\ Len(rstack') = Len(rstack) - 1
      /\ \A n \in 1..Len(rstack) - 1 : rstack'[n] = rstack[n]
  BY RPop
<1>2. Len(rstack) \in Nat
  BY LenProperties
<1>3. ASSUME NEW n \in 1..Len(rstack')
      PROVE  n \in 1..Len(rstack) /\ rstack'[n] = rstack[n]
  BY <1>1, <1>2
<1> QED BY <1>1, <1>3, ObjectsKept

\* It is replaced by one that fills no object.
LEMMA ObjectsKeptByReplace ==
  ASSUME ObjectsInv, rstack \in Seq(RFrame), rstack # <<>>, NEW f \in RFrame,
         ~HasObject(f), rstack' = R!WithTop(f), mem' = mem
  PROVE  ObjectsInv'
<1>1. /\ rstack' \in Seq(RFrame) /\ Len(rstack') = Len(rstack)
      /\ \A n \in 1..Len(rstack) : rstack'[n] = IF n = Len(rstack) THEN f ELSE rstack[n]
  BY RReplace
<1>2. ASSUME NEW n \in 1..Len(rstack'), HasObject(rstack'[n])
      PROVE  n \in 1..Len(rstack) /\ rstack'[n] = rstack[n]
  BY <1>1, <1>2
<1> QED BY <1>1, <1>2, ObjectsKept

\* It calls readAny or skip.
LEMMA ObjectsKeptByPush ==
  ASSUME ObjectsInv, rstack \in Seq(RFrame), rstack # <<>>, NEW f \in RFrame, NEW g \in RFrame,
         rstack' = Append(R!WithTop(f), g), mem' = mem, g.fn \in {"any", "skip"},
         HasObject(f) => /\ HasObject(R!Top) /\ f.obj = R!Top.obj /\ f.klass = R!Top.klass
                         /\ Waiting(f) => Waiting(R!Top)
  PROVE  ObjectsInv'
<1>1. /\ rstack' \in Seq(RFrame) /\ Len(rstack') = Len(rstack) + 1
      /\ \A n \in 1..Len(rstack) : rstack'[n] = IF n = Len(rstack) THEN f ELSE rstack[n]
      /\ rstack'[Len(rstack) + 1] = g
  BY RPush
<1>2. Len(rstack) \in Nat /\ R!Top = rstack[Len(rstack)]
  BY RTopIsFrame
<1>3. ~HasObject(g)
  BY DEF HasObject
<1>4. ASSUME NEW n \in 1..Len(rstack'), HasObject(rstack'[n])
      PROVE  /\ n \in 1..Len(rstack) /\ HasObject(rstack[n])
             /\ rstack'[n].obj = rstack[n].obj /\ rstack'[n].klass = rstack[n].klass
             /\ Waiting(rstack'[n]) => Waiting(rstack[n])
  <2>1. n \in 1..Len(rstack)
    BY <1>1, <1>2, <1>3, <1>4
  <2>2. CASE n = Len(rstack)
    BY <1>1, <1>2, <1>4, <2>1, <2>2
  <2>3. CASE n # Len(rstack)
    BY <1>1, <1>4, <2>1, <2>3
  <2> QED BY <2>1, <2>2, <2>3
<1> QED BY <1>1, <1>4, ObjectsKept

\* Every step keeps the invariant.
LEMMA ObjectsStep ==
  ASSUME ReaderTypes, ObjectsInv, input # NULL, R!Next
  PROVE  ObjectsInv'
<1>0. rstack \in Seq(RFrame) /\ mem \in Seq(RObject)
  BY DEF ReaderTypes
<1>1. CASE R!Deserialize
  <2> DEFINE f == R!StructFrame(readerKlass, 1)
             o == R!New(readerKlass)
  <2>1. rstack' = <<f>> /\ mem' = <<o>>
    BY <1>1 DEF R!Deserialize
  <2>2. f.obj = 1 /\ f.klass = readerKlass
    BY StructFrameIsFrame DEF ReaderTypes
  <2>3. /\ o.klass = readerKlass /\ o.setfield = NULL
        /\ readerKlass \in Unions => o.ivars = R!Unset
    BY NewIsObject DEF ReaderTypes
  <2>4. f.fn = "union" => readerKlass \in Unions
    BY StructFrameIsFrame DEF ReaderTypes
  <2> HIDE DEF f, o
  <2>5. Len(rstack') = 1 /\ rstack'[1] = f /\ Len(mem') = 1 /\ mem'[1] = o
    BY <2>1
  <2>6. 1..1 = {1}
    OBVIOUS
  <2>7. Owns' /\ Younger'
    BY <2>2, <2>3, <2>5, <2>6 DEF Owns, Younger
  <2>8. Fresh'
    BY <2>2, <2>3, <2>4, <2>5, <2>6 DEF Fresh, Waiting, R!Unset
  <2>9. UnionsHoldTheirSetField'
    <3>1. readerKlass \in Unions => \A n \in Names : o.ivars[n] # nil <=> n = o.setfield
      BY <2>3, SchemaAssumption DEF R!Unset
    <3> QED BY <2>3, <2>5, <2>6, <3>1 DEF UnionsHoldTheirSetField
  <2> QED BY <2>7, <2>8, <2>9 DEF ObjectsInv
<1>2. CASE R!ReadField
  <2>1. mem' = mem /\ rstack # <<>> /\ R!Top.fn = "struct"
    BY <1>2 DEF R!ReadField, R!Reading
  <2>2. CASE rstack' = R!Pop
    BY <1>0, <2>1, <2>2, ObjectsKeptByPop
  <2>3. ASSUME NEW f \in ObjectFrames, NEW g \in RFrame, g.fn \in {"any", "skip"},
               rstack' = Append(R!WithTop(f), g),
               f.fn = "struct", f.klass = R!Top.klass, f.obj = R!Top.obj
        PROVE  ObjectsInv'
    BY <1>0, <2>1, <2>3, ObjectsKeptByPush DEF HasObject, Waiting, RFrame
  <2>4. CASE rstack' = rstack
    BY <1>0, <2>1, <2>4, ObjectsKept
  <2> QED BY <1>2, <2>2, <2>3, <2>4, ReadFieldFrames
<1>3. CASE R!StoreField
  BY <1>3, ObjectsAfterStoreField
<1>4. CASE R!ReadUnionField
  <2>1. mem' = mem /\ rstack # <<>> /\ R!Top.fn = "union" /\ R!Top.pc = "first"
    BY <1>4 DEF R!ReadUnionField, R!Reading
  <2>2. CASE rstack' = R!Pop
    BY <1>0, <2>1, <2>2, ObjectsKeptByPop
  <2>3. ASSUME NEW f \in ObjectFrames, NEW g \in RFrame, g.fn \in {"any", "skip"},
               rstack' = Append(R!WithTop(f), g), f.klass = R!Top.klass, f.obj = R!Top.obj
        PROVE  ObjectsInv'
    BY <1>0, <2>1, <2>3, ObjectsKeptByPush DEF HasObject, Waiting, RFrame
  <2> QED BY <1>4, <2>2, <2>3, ReadUnionFieldFrames
<1>5. CASE R!StoreUnionField
  BY <1>5, ObjectsAfterStoreUnionField
<1>6. CASE R!ReadUnionStop \/ R!LeaveUnion \/ R!ReadScalar \/ R!Skipped
  <2>1. /\ rstack # <<>> /\ mem' = mem
        /\ rstack' = R!Pop \/ rstack' = rstack
    BY <1>6 DEF R!ReadUnionStop, R!LeaveUnion, R!ReadScalar, R!Skipped, R!Reading, R!Return
  <2> QED BY <1>0, <2>1, ObjectsKeptByPop, ObjectsKept
<1>7. CASE R!ReadSequence \/ R!ReadMap
  <2>1. rstack # <<>> /\ mem' = mem
    BY <1>7 DEF R!ReadSequence, R!ReadMap, R!Reading
  <2>2. PICK f \in RFrame : rstack' = R!WithTop(f) /\ (f.fn = "skip" \/ f \in ItemsFrames)
    BY <1>7, ContainerFrames
  <2>3. ~HasObject(f)
    BY <2>2 DEF HasObject, ItemsFrames
  <2> QED BY <1>0, <2>1, <2>2, <2>3, ObjectsKeptByReplace
<1>8. CASE R!ReadStructOrUnion
  <2>1. rstack # <<>> /\ R!Top.fn = "any"
    BY <1>8 DEF R!ReadStructOrUnion, R!Reading
  <2>2. CASE rstack' = rstack /\ mem' = mem
    BY <1>0, <2>2, ObjectsKept
  <2> QED BY <1>8, <2>1, <2>2, ReadStructOrUnionFrames, ObjectMade
<1>9. CASE R!NextItem
  <2>1. rstack # <<>> /\ mem' = mem
    BY <1>9 DEF R!NextItem, R!Reading
  <2>2. PICK f \in ItemsFrames, g \in AnyFrames : rstack' = Append(R!WithTop(f), g)
    BY <1>9, NextItemFrames
  <2>3. ~HasObject(f) /\ f \in RFrame /\ g \in RFrame /\ g.fn = "any"
    BY <2>2 DEF HasObject, ItemsFrames, AnyFrames, RFrame
  <2> QED BY <1>0, <2>1, <2>2, <2>3, ObjectsKeptByPush
<1>10. CASE R!StoreItem
  <2>1. rstack # <<>> /\ mem' = mem
    BY <1>10 DEF R!StoreItem, R!Reading
  <2>2. PICK f \in ItemsFrames : rstack' = R!WithTop(f)
    BY <1>10, StoreItemFrames
  <2>3. ~HasObject(f) /\ f \in RFrame
    BY <2>2 DEF HasObject, ItemsFrames, RFrame
  <2> QED BY <1>0, <2>1, <2>2, <2>3, ObjectsKeptByReplace
<1>11. CASE R!ReturnItems
  <2>1. rstack # <<>>
    BY <1>11 DEF R!ReturnItems, R!Reading
  <2>2. PICK o \in RObject : mem' = Append(mem, o) /\ rstack' = R!Pop /\ o.klass = NULL
    BY <1>11, ReturnItemsFrames
  <2>3. o.klass \notin Unions
    BY <2>2, SchemaAssumption
  <2>4. /\ rstack' \in Seq(RFrame) /\ Len(rstack') = Len(rstack) - 1
        /\ \A n \in 1..Len(rstack) - 1 : rstack'[n] = rstack[n]
    BY <1>0, <2>1, <2>2, RPop
  <2>5. Len(rstack) \in Nat
    BY <1>0, LenProperties
  <2>6. ASSUME NEW n \in 1..Len(rstack')
        PROVE  n \in 1..Len(rstack) /\ rstack'[n] = rstack[n]
    BY <2>4, <2>5
  <2> QED BY <1>0, <2>2, <2>3, <2>4, <2>6, ObjectsKeptBelow
<1>12. CASE R!Skip
  <2>1. rstack # <<>> /\ mem' = mem
    BY <1>12 DEF R!Skip, R!Reading
  <2>2. PICK f \in SkipFrames : rstack' = R!WithTop(f)
    BY <1>12, SkipFrameStays
  <2>3. ~HasObject(f) /\ f \in RFrame
    BY <2>2 DEF HasObject, SkipFrames, RFrame
  <2> QED BY <1>0, <2>1, <2>2, <2>3, ObjectsKeptByReplace
<1>13. CASE R!EndOfFile \/ R!Garble \/ R!DeserializeEnd
  <2>1. rstack' = rstack /\ mem' = mem
    BY <1>13 DEF R!EndOfFile, R!Garble, R!DeserializeEnd
  <2> QED BY <1>0, <2>1, ObjectsKept
<1> QED BY <1>1, <1>2, <1>3, <1>4, <1>5, <1>6, <1>7, <1>8, <1>9, <1>10, <1>11, <1>12,
          <1>13 DEF R!Next

(****************************************************************************)
(* The two together.                                                         *)
(****************************************************************************)

RTInv == ShapeInv /\ OutTyped /\ ReaderTypes /\ ObjectsInv

\* It holds at the start.
LEMMA RTInvInit == RTInit => RTInv
<1> SUFFICES ASSUME RTInit PROVE RTInv
  OBVIOUS
<1>1. ShapeInv /\ Klass \in Klasses
  BY InitShape DEF RTInit, ShapeInv, TypeOK
<1>2. OutTyped
  BY EmptySeq DEF RTInit, Init, OutTyped
<1>3. mem = <<>> /\ rstack = <<>> /\ ret = <<>> /\ pos = 1
  BY DEF RTInit, R!Init
<1>4. ReaderTypes
  <2>1. readerKlass \in Klasses
    BY <1>1, RoundTripAssumption DEF RTInit
  <2>2. mem \in Seq(RObject) /\ rstack \in Seq(RFrame)
    BY <1>3, EmptySeq
  <2> QED BY <1>3, <2>1, <2>2 DEF ReaderTypes, RTInit
<1>5. ObjectsInv
  <2>1. Len(mem) = 0 /\ Len(rstack) = 0 /\ 1..0 = {}
    BY <1>3, EmptySeq
  <2> QED BY <2>1 DEF ObjectsInv, Owns, Younger, Fresh, UnionsHoldTheirSetField
<1> QED BY <1>1, <1>2, <1>4, <1>5 DEF RTInv

\* Every step of either keeps it.
LEMMA RTInvStep == RTInv /\ [RTNext]_<<vars, rvars>> => RTInv'
<1> SUFFICES ASSUME RTInv, [RTNext]_<<vars, rvars>> PROVE RTInv'
  OBVIOUS
<1>0. ShapeInv /\ OutTyped /\ ReaderTypes /\ ObjectsInv
  BY DEF RTInv
<1>1. CASE Write
  <2>1. ShapeInv' /\ OutTyped'
    BY <1>0, <1>1, NextShape, OutStep DEF Write
  <2>2. UNCHANGED <<readerKlass, input, pos, mem, rstack, ret>>
    BY <1>1 DEF Write, rvars
  <2>3. ReaderTypes'
    BY <1>0, <2>2 DEF ReaderTypes
  <2>4. ObjectsInv'
    BY <1>0, <2>2, ObjectsKept DEF ReaderTypes
  <2> QED BY <2>1, <2>3, <2>4 DEF RTInv
<1>2. CASE Deliver
  <2>1. UNCHANGED <<readerKlass, pos, mem, rstack, ret>> /\ UNCHANGED vars
    BY <1>2 DEF Deliver
  <2>2. ShapeInv' /\ OutTyped'
    BY <1>0, <2>1, NextShape, OutStep
  <2>3. PICK n \in 0..Len(out) : input' = SubSeq(out, 1, n)
    BY <1>2 DEF Deliver
  <2>4. input' \in Seq(WireEvent)
    BY <1>0, <2>3, SubSeqProperties DEF OutTyped
  <2>5. ReaderTypes'
    BY <1>0, <2>1, <2>4 DEF ReaderTypes
  <2>6. ObjectsInv'
    BY <1>0, <2>1, ObjectsKept DEF ReaderTypes
  <2> QED BY <2>2, <2>5, <2>6 DEF RTInv
<1>3. CASE Read
  <2>1. input # NULL /\ R!Next /\ UNCHANGED vars
    BY <1>3 DEF Read
  <2>2. ShapeInv' /\ OutTyped'
    BY <1>0, <2>1, NextShape, OutStep
  <2>3. readerKlass' = readerKlass /\ input' = input
    BY <2>1 DEF R!Next, R!Deserialize, R!ReadField, R!StoreField, R!ReadUnionField,
       R!StoreUnionField, R!ReadUnionStop, R!LeaveUnion, R!ReadScalar, R!ReadSequence,
       R!ReadMap, R!ReadStructOrUnion, R!NextItem, R!StoreItem, R!ReturnItems, R!Skip,
       R!Skipped, R!EndOfFile, R!Garble, R!DeserializeEnd
  <2>4. ReaderTypes' /\ ObjectsInv'
    BY <1>0, <2>1, <2>3, TypesStep, ObjectsStep
  <2> QED BY <2>2, <2>4 DEF RTInv
<1>4. CASE UNCHANGED <<vars, rvars>>
  <2>1. UNCHANGED <<readerKlass, input, pos, mem, rstack, ret>> /\ UNCHANGED vars
    BY <1>4 DEF rvars
  <2>2. ShapeInv' /\ OutTyped'
    BY <1>0, <2>1, NextShape, OutStep
  <2>3. ReaderTypes'
    BY <1>0, <2>1 DEF ReaderTypes
  <2>4. ObjectsInv'
    BY <1>0, <2>1, ObjectsKept DEF ReaderTypes
  <2> QED BY <2>2, <2>3, <2>4 DEF RTInv
<1> QED BY <1>1, <1>2, <1>3, <1>4 DEF RTNext

\* A union that was read has at most one field, the one its @setfield names,
\* whatever was written and wherever the buffer ends: also while it is being read,
\* and when reading it is given up.
THEOREM UnionsAreRegisters == RTSpec => []UnionsHoldTheirSetField
<1>1. RTInv => UnionsHoldTheirSetField
  BY DEF RTInv, ObjectsInv
<1> QED BY <1>1, RTInvInit, RTInvStep, PTL DEF RTSpec

(****************************************************************************)
(* The types of what is read.                                                *)
(****************************************************************************)

\* A value of the program that wrote, or an object that was made.
Allocated(v) == v \in VALUE \/ v \in 1..Len(mem)

\* v is a value for a field with FieldInfo w.
Fit(v, w) ==
  /\ w \in Infos /\ Allocated(v)
  /\ FieldHasType(v, FieldInfo[w])
  /\ FieldInfo[w].ftype \in SequenceTypes =>
       \A i \in DOMAIN mem[v].items : Allocated(mem[v].items[i])

\* A frame that holds what it reads to a type, and the FieldInfo of what it reads.
Typed(g) == g.fn = "struct" \/ (g.fn = "items" /\ g.type \in SequenceTypes)
Wanted(g) == IF g.fn = "struct" THEN g.info ELSE FieldInfo[g.info].elementType

\* f reads what g wants.  (Where it skips, g gets nil, or nothing.)
Serves(f, g) ==
  LET w == Wanted(g) IN
  /\ f.fn \in {"any", "items"} => f.info = w /\ f.type = FieldInfo[w].ftype
  /\ HasObject(f) => w \in Infos /\ FieldInfo[w].ftype = "STRUCT"
                                 /\ f.klass = FieldInfo[w].klass
  /\ f.fn = "skip" => (g.fn = "items" => FieldInfo[w].ftype \notin ScalarTypes)

\* f is called by g.
CalledBy(f, g) ==
  /\ g.fn \notin {"any", "skip"}
  /\ g.fn = "union" /\ g.pc # "value" => f.fn = "skip" /\ f.value = <<>>
  /\ Typed(g) => Serves(f, g)

CallsInv == \A n \in 1..Len(rstack) - 1 : CalledBy(rstack[n + 1], rstack[n])

\* A value is returned to a frame that takes it up, and fits.
Takes(g) == g.fn \in {"struct", "items"} \/ (g.fn = "union" /\ g.pc = "value")

RetInv ==
  ret # <<>> /\ rstack # <<>> =>
    /\ Takes(R!Top)
    /\ Typed(R!Top) => ret[1] = nil \/ Fit(ret[1], Wanted(R!Top))

\* So do the elements a list or set has so far ...
ElementFits(v, g) ==
  LET e == FieldInfo[Wanted(g)] IN
  v = nil \/ (Allocated(v) /\ HasType(v, e.ftype, e.klass))

GotInv ==
  \A n \in 1..Len(rstack) :
    rstack[n].fn = "items" /\ rstack[n].type \in SequenceTypes =>
      \A i \in DOMAIN rstack[n].got : ElementFits(rstack[n].got[i], rstack[n])

\* ... and those that it has not yet read are there, if they are scalars.
OfScalars(g) ==
  /\ g.fn = "items" /\ g.type \in SequenceTypes
  /\ FieldInfo[Wanted(g)].ftype \in ScalarTypes

RunInv ==
  /\ \A n \in 1..Len(rstack) :
       OfScalars(rstack[n]) => Run(input, pos, rstack[n].left + (Len(rstack) - n),
                                   FieldInfo[Wanted(rstack[n])].ftype)
  /\ Len(rstack) > 1 /\ R!Top.fn = "any" /\ R!Top.type \in ScalarTypes
     /\ Typed(rstack[Len(rstack) - 1]) => Run(input, pos, 1, R!Top.type)

\* What is in an object fits, or is as the class has it.
FieldFits(o, k, fid) ==
  LET w == InfoOf(k, fid)
      v == mem[o].ivars[FieldInfo[w].symName]
  IN v = Defaults[k][FieldInfo[w].symName] \/ Fit(v, w)

FieldsInv ==
  \A o \in 1..Len(mem) : \A k \in Klasses \ Unions :
    mem[o].klass = k => \A fid \in Fids(k) : FieldFits(o, k, fid)

ObjectsAreObjects ==
  \A o \in 1..Len(mem) : mem[o].klass \in Klasses => mem[o].type = "object"

\* Until reading has begun, there is nothing.
Starting == rres.st = "called" => mem = <<>> /\ rstack = <<>> /\ ret = <<>>

TypedInv == CallsInv /\ RetInv /\ GotInv /\ RunInv /\ FieldsInv
            /\ ObjectsAreObjects /\ Starting

(****************************************************************************)
(* Objects keep their type, their class and their elements.                  *)
(****************************************************************************)

ObjectsStay ==
  \A o \in 1..Len(mem) :
    /\ o \in 1..Len(mem')
    /\ mem'[o].type = mem[o].type /\ mem'[o].klass = mem[o].klass
    /\ mem'[o].items = mem[o].items

\* What has a type keeps it.
LEMMA HasTypeStays ==
  ASSUME ObjectsStay, heap' = heap, NEW v, NEW t, NEW k, Allocated(v), HasType(v, t, k)
  PROVE  Allocated(v)' /\ HasType(v, t, k)'
BY DEF ObjectsStay, Allocated, HasType

\* What fits goes on fitting.
LEMMA FitStays ==
  ASSUME ObjectsStay, heap' = heap, NEW v, NEW w, Fit(v, w)
  PROVE  Fit(v, w)'
<1>1. /\ w \in Infos /\ Allocated(v) /\ HasType(v, FieldInfo[w].ftype, FieldInfo[w].klass)
      /\ Allocated(v)' /\ HasType(v, FieldInfo[w].ftype, FieldInfo[w].klass)'
  BY HasTypeStays DEF Fit, FieldHasType
<1>2. CASE FieldInfo[w].ftype \notin SequenceTypes
  BY <1>1, <1>2 DEF Fit, FieldHasType
<1>3. CASE FieldInfo[w].ftype \in SequenceTypes
  <2>1. v \in 1..Len(mem) /\ mem'[v].items = mem[v].items
    <3>1. v \notin VALUE
      BY <1>1, <1>3 DEF HasType, ScalarTypes, SequenceTypes
    <3> QED BY <1>1, <3>1 DEF Allocated, ObjectsStay
  <2>2. PICK e : e = FieldInfo[FieldInfo[w].elementType]
    OBVIOUS
  <2>3. ASSUME NEW i \in DOMAIN mem[v].items, NEW x, x = mem[v].items[i]
        PROVE  Allocated(x) /\ (x = nil \/ HasType(x, e.ftype, e.klass))
    <3>1. Allocated(x)
      BY <1>3, <2>3 DEF Fit
    <3>2. FieldHasType(v, FieldInfo[w])
      BY DEF Fit
    <3>3. x = nil \/ HasType(x, e.ftype, e.klass)
      BY <1>3, <2>2, <2>3, <3>2 DEF FieldHasType
    <3> QED BY <3>1, <3>3
  <2>4. ASSUME NEW i \in DOMAIN mem[v].items, NEW x, x = mem[v].items[i]
        PROVE  Allocated(x)' /\ (x = nil \/ HasType(x, e.ftype, e.klass)')
    <3>1. CASE x = nil
      BY <3>1, SchemaAssumption DEF Allocated
    <3>2. CASE x # nil
      BY <2>3, <2>4, <3>2, HasTypeStays
    <3> QED BY <3>1, <3>2
  <2>5. FieldHasType(v, FieldInfo[w])'
    BY <1>1, <2>1, <2>2, <2>4 DEF FieldHasType
  <2>6. \A i \in DOMAIN mem'[v].items : Allocated(mem[v].items[i])'
    <3>1. SUFFICES ASSUME NEW i \in DOMAIN mem'[v].items
                   PROVE  mem'[v].items[i] \in VALUE \/ mem'[v].items[i] \in 1..Len(mem')
      BY DEF Allocated
    <3>2. PICK x : x = mem[v].items[i]
      OBVIOUS
    <3>3. i \in DOMAIN mem[v].items
      BY <2>1
    <3>4. Allocated(x)'
      BY <2>4, <3>2, <3>3
    <3> QED BY <2>1, <3>2, <3>4 DEF Allocated
  <2> QED BY <1>1, <2>5, <2>6 DEF Fit
<1> QED BY <1>2, <1>3

\* No object is touched.
LEMMA MemStays ==
  ASSUME mem' = mem
  PROVE  ObjectsStay
BY DEF ObjectsStay

\* An object is made.
LEMMA AppendStays ==
  ASSUME mem \in Seq(RObject), NEW o \in RObject, mem' = Append(mem, o)
  PROVE  ObjectsStay
<1>1. /\ Len(mem') = Len(mem) + 1 /\ \A n \in 1..Len(mem) : mem'[n] = mem[n]
  BY AppendProperties
<1>2. Len(mem) \in Nat
  BY LenProperties
<1> QED BY <1>1, <1>2 DEF ObjectsStay

(****************************************************************************)
(* Who calls whom.                                                           *)
(****************************************************************************)

\* The frame on top is replaced by another that its caller calls as well.
LEMMA CallsKeptByReplace ==
  ASSUME rstack \in Seq(RFrame), rstack # <<>>, CallsInv, NEW f \in RFrame,
         rstack' = R!WithTop(f), \A h \in RFrame : CalledBy(R!Top, h) => CalledBy(f, h)
  PROVE  CallsInv'
<1>1. /\ Len(rstack') = Len(rstack) /\ Len(rstack) \in Nat
      /\ \A n \in 1..Len(rstack) : rstack'[n] = IF n = Len(rstack) THEN f ELSE rstack[n]
  BY RReplace, LenProperties
<1>2. SUFFICES ASSUME NEW n \in 1..Len(rstack) - 1
               PROVE  CalledBy(rstack'[n + 1], rstack'[n])
  BY <1>1 DEF CallsInv
<1>3. n \in 1..Len(rstack) /\ n + 1 \in 1..Len(rstack) /\ n # Len(rstack)
  BY <1>1
<1>4. CalledBy(rstack[n + 1], rstack[n]) /\ rstack[n] \in RFrame
  BY <1>3, ElementOfSeq DEF CallsInv
<1>5. rstack'[n] = rstack[n]
  BY <1>1, <1>3
<1>6. CASE n + 1 = Len(rstack)
  <2>1. rstack'[n + 1] = f /\ rstack[n + 1] = R!Top
    BY <1>1, <1>3, <1>6 DEF R!Top
  <2> QED BY <1>4, <1>5, <2>1
<1>7. CASE n + 1 # Len(rstack)
  BY <1>1, <1>3, <1>4, <1>5, <1>7
<1> QED BY <1>6, <1>7

\* It is replaced, and calls.
LEMMA CallsKeptByPush ==
  ASSUME rstack \in Seq(RFrame), rstack # <<>>, CallsInv, NEW f \in RFrame, NEW g \in RFrame,
         rstack' = Append(R!WithTop(f), g),
         \A h \in RFrame : CalledBy(R!Top, h) => CalledBy(f, h), CalledBy(g, f)
  PROVE  CallsInv'
<1>1. /\ Len(rstack') = Len(rstack) + 1 /\ Len(rstack) \in Nat
      /\ \A n \in 1..Len(rstack) : rstack'[n] = IF n = Len(rstack) THEN f ELSE rstack[n]
      /\ rstack'[Len(rstack) + 1] = g
  BY RPush, LenProperties
<1>2. SUFFICES ASSUME NEW n \in 1..Len(rstack)
               PROVE  CalledBy(rstack'[n + 1], rstack'[n])
  <2>1. 1..Len(rstack') - 1 = 1..Len(rstack)
    BY <1>1
  <2> QED BY <1>2, <2>1 DEF CallsInv
<1>3. CASE n = Len(rstack)
  BY <1>1, <1>3
<1>4. CASE n # Len(rstack)
  <2>1. n \in 1..Len(rstack) - 1 /\ n + 1 \in 1..Len(rstack)
    BY <1>1, <1>4
  <2>2. CalledBy(rstack[n + 1], rstack[n]) /\ rstack[n] \in RFrame
    BY <1>2, <2>1, ElementOfSeq DEF CallsInv
  <2>3. rstack'[n] = rstack[n]
    BY <1>1, <1>2, <1>4
  <2>4. CASE n + 1 = Len(rstack)
    <3>1. rstack'[n + 1] = f /\ rstack[n + 1] = R!Top
      BY <1>1, <2>1, <2>4 DEF R!Top
    <3> QED BY <2>2, <2>3, <3>1
  <2>5. CASE n + 1 # Len(rstack)
    BY <1>1, <2>1, <2>2, <2>3, <2>5
  <2> QED BY <2>4, <2>5
<1> QED BY <1>3, <1>4

\* It returns.
LEMMA CallsKeptByPop ==
  ASSUME rstack \in Seq(RFrame), rstack # <<>>, CallsInv, rstack' = R!Pop
  PROVE  CallsInv'
<1>1. /\ Len(rstack') = Len(rstack) - 1 /\ Len(rstack) \in Nat
      /\ \A n \in 1..Len(rstack) - 1 : rstack'[n] = rstack[n]
  BY RPop, LenProperties
<1>2. SUFFICES ASSUME NEW n \in 1..Len(rstack) - 2
               PROVE  CalledBy(rstack'[n + 1], rstack'[n])
  <2>1. 1..Len(rstack') - 1 = 1..Len(rstack) - 2
    BY <1>1
  <2> QED BY <1>2, <2>1 DEF CallsInv
<1>3. n \in 1..Len(rstack) - 1 /\ n + 1 \in 1..Len(rstack) - 1
  BY <1>1
<1> QED BY <1>1, <1>3 DEF CallsInv

\* What a frame may become without its caller noticing.
LEMMA SameObjectSameCaller ==
  ASSUME NEW f, NEW g, NEW h, HasObject(f), HasObject(g), g.klass = f.klass, CalledBy(f, h)
  PROVE  CalledBy(g, h)
BY DEF CalledBy, Serves, HasObject

\* A readAny of a list, set or map comes to its loop,
LEMMA AnyBecomesItems ==
  ASSUME NEW f \in AnyFrames, NEW g \in ItemsFrames, NEW h,
         g.type = f.type, g.info = f.info, CalledBy(f, h)
  PROVE  CalledBy(g, h)
BY DEF CalledBy, Serves, HasObject, AnyFrames, ItemsFrames

\* ... skips it,
LEMMA AnyBecomesSkip ==
  ASSUME NEW f \in AnyFrames, NEW g \in SkipFrames, NEW h,
         f.type \in SequenceTypes \cup {"MAP"}, CalledBy(f, h)
  PROVE  CalledBy(g, h)
BY DEF CalledBy, Serves, HasObject, AnyFrames, SkipFrames, SequenceTypes, ScalarTypes

\* ... or calls readStruct or readUnion.
LEMMA AnyBecomesObject ==
  ASSUME NEW f \in AnyFrames, NEW g, HasObject(g), NEW h,
         f.type = "STRUCT", g.klass = FieldInfo[f.info].klass, CalledBy(f, h)
  PROVE  CalledBy(g, h)
BY DEF CalledBy, Serves, HasObject, AnyFrames

\* A loop goes on.
LEMMA ItemsStayItems ==
  ASSUME NEW f \in ItemsFrames, NEW g \in ItemsFrames, NEW h,
         g.type = f.type, g.info = f.info, CalledBy(f, h)
  PROVE  CalledBy(g, h)
BY DEF CalledBy, Serves, HasObject, ItemsFrames

\* A skip goes on.
LEMMA SkipStaysSkip ==
  ASSUME NEW f \in SkipFrames, NEW g \in SkipFrames, NEW h,
         g.value = f.value, CalledBy(f, h)
  PROVE  CalledBy(g, h)
BY DEF CalledBy, Serves, HasObject, SkipFrames

\* The top frame of each kind.
LEMMA TopKinds ==
  ASSUME rstack \in Seq(RFrame), rstack # <<>>
  PROVE  /\ R!Top \in RFrame
         /\ R!Top.fn = "any" => R!Top \in AnyFrames
         /\ HasObject(R!Top) => R!Top \in ObjectFrames
         /\ R!Top.fn = "items" => R!Top \in ItemsFrames
         /\ R!Top.fn = "skip" => R!Top \in SkipFrames
BY RTopIsFrame, FrameKinds

\* Every step keeps it.
LEMMA CallsStep ==
  ASSUME ReaderTypes, ObjectsInv, CallsInv, input # NULL, R!Next
  PROVE  CallsInv'
<1>0. rstack \in Seq(RFrame)
  BY DEF ReaderTypes
<1>1. CASE R!Deserialize
  <2>1. Len(rstack') = 1
    BY <1>1 DEF R!Deserialize
  <2> QED BY <2>1 DEF CallsInv
<1>2. CASE R!ReadField
  <2>1. rstack # <<>> /\ R!Top.fn = "struct"
    BY <1>2 DEF R!ReadField, R!Reading
  <2>2. CASE rstack' = R!Pop
    BY <1>0, <2>1, <2>2, CallsKeptByPop
  <2>3. ASSUME NEW f \in ObjectFrames, NEW g \in RFrame,
               rstack' = Append(R!WithTop(f), g),
               f.fn = "struct", f.klass = R!Top.klass,
               \/ g.fn = "skip" /\ g.value = <<>>
               \/ /\ Known(f) /\ g.fn = "any" /\ g.info = f.info
                  /\ g.type = R!Event.type /\ FieldInfo[f.info].ftype = R!Event.type
        PROVE  CallsInv'
    <3>1. CalledBy(g, f)
      BY <2>3 DEF CalledBy, Serves, Wanted, Typed, HasObject
    <3>2. \A h \in RFrame : CalledBy(R!Top, h) => CalledBy(f, h)
      BY <2>1, <2>3, SameObjectSameCaller DEF HasObject
    <3>3. f \in RFrame
      BY DEF RFrame
    <3> QED BY <1>0, <2>1, <2>3, <3>1, <3>2, <3>3, CallsKeptByPush
  <2>4. CASE rstack' = rstack
    BY <2>4 DEF CallsInv
  <2> QED BY <1>2, <2>2, <2>3, <2>4, ReadFieldFrames
<1>3. CASE R!StoreField \/ R!EndOfFile \/ R!Garble \/ R!DeserializeEnd
  <2>1. rstack' = rstack
    BY <1>3 DEF R!StoreField, R!EndOfFile, R!Garble, R!DeserializeEnd
  <2> QED BY <2>1 DEF CallsInv
<1>4. CASE R!ReadUnionField
  <2>1. rstack # <<>> /\ R!Top.fn = "union"
    BY <1>4 DEF R!ReadUnionField, R!Reading
  <2>2. CASE rstack' = R!Pop
    BY <1>0, <2>1, <2>2, CallsKeptByPop
  <2>3. ASSUME NEW f \in ObjectFrames, NEW g \in RFrame,
               rstack' = Append(R!WithTop(f), g),
               f.fn = "union", f.klass = R!Top.klass,
               \/ f.pc = "leaving" /\ g.fn = "skip" /\ g.value = <<>>
               \/ f.pc = "value" /\ g.fn = "any"
        PROVE  CallsInv'
    <3>1. CalledBy(g, f)
      BY <2>3 DEF CalledBy, Typed
    <3>2. \A h \in RFrame : CalledBy(R!Top, h) => CalledBy(f, h)
      BY <2>1, <2>3, SameObjectSameCaller DEF HasObject
    <3>3. f \in RFrame
      BY DEF RFrame
    <3> QED BY <1>0, <2>1, <2>3, <3>1, <3>2, <3>3, CallsKeptByPush
  <2> QED BY <1>4, <2>2, <2>3, ReadUnionFieldFrames
<1>5. CASE R!StoreUnionField
  <2>1. rstack # <<>> /\ R!Top.fn = "union"
    BY <1>5 DEF R!StoreUnionField, R!Reading
  <2>2. PICK f \in ObjectFrames :
          rstack' = R!WithTop(f) /\ f.fn = "union" /\ f.klass = R!Top.klass
    BY <1>5, StoreUnionFieldFrames
  <2>3. \A h \in RFrame : CalledBy(R!Top, h) => CalledBy(f, h)
    BY <2>1, <2>2, SameObjectSameCaller DEF HasObject
  <2>4. f \in RFrame
    BY DEF RFrame
  <2> QED BY <1>0, <2>1, <2>2, <2>3, <2>4, CallsKeptByReplace
<1>6. CASE R!ReadUnionStop \/ R!LeaveUnion \/ R!ReadScalar \/ R!Skipped
  <2>1. /\ rstack # <<>>
        /\ rstack' = R!Pop \/ rstack' = rstack
    BY <1>6 DEF R!ReadUnionStop, R!LeaveUnion, R!ReadScalar, R!Skipped, R!Reading, R!Return
  <2>2. CASE rstack' = rstack
    BY <2>2 DEF CallsInv
  <2> QED BY <1>0, <2>1, <2>2, CallsKeptByPop
<1>7. CASE R!ReadSequence \/ R!ReadMap
  <2>1. rstack # <<>>
    BY <1>7 DEF R!ReadSequence, R!ReadMap, R!Reading
  <2>2. R!Top \in AnyFrames
    BY <1>7, ContainerFrames
  <2>3. PICK f \in RFrame :
          /\ rstack' = R!WithTop(f)
          /\ \/ f.fn = "skip" /\ R!Top.type \in SequenceTypes \cup {"MAP"}
             \/ f \in ItemsFrames /\ f.type = R!Top.type /\ f.info = R!Top.info
    BY <1>7, ContainerFrames
  <2>4. \A h \in RFrame : CalledBy(R!Top, h) => CalledBy(f, h)
    <3>1. f.fn = "skip" => f \in SkipFrames
      BY FrameKinds
    <3> QED BY <2>2, <2>3, <3>1, AnyBecomesSkip, AnyBecomesItems
  <2> QED BY <1>0, <2>1, <2>3, <2>4, CallsKeptByReplace
<1>8. CASE R!ReadStructOrUnion
  <2>1. rstack # <<>> /\ R!Top.fn = "any" /\ R!Top.type = "STRUCT" /\ R!Top \in AnyFrames
    BY <1>0, <1>8, TopKinds DEF R!ReadStructOrUnion, R!Reading
  <2>2. CASE rstack' = rstack
    BY <2>2 DEF CallsInv
  <2>3. ASSUME NEW k \in Klasses, k = FieldInfo[R!Top.info].klass,
               rstack' = R!WithTop(R!StructFrame(k, Len(mem) + 1))
        PROVE  CallsInv'
    <3>1. PICK f : f = R!StructFrame(k, Len(mem) + 1)
      OBVIOUS
    <3>2. Len(mem) + 1 \in Nat
      BY LenProperties DEF ReaderTypes
    <3>3. f \in RFrame /\ f.klass = k /\ HasObject(f)
      BY <3>1, <3>2, StructFrameIsFrame DEF HasObject
    <3>4. \A h \in RFrame : CalledBy(R!Top, h) => CalledBy(f, h)
      BY <2>1, <2>3, <3>3, AnyBecomesObject
    <3> QED BY <1>0, <2>1, <2>3, <3>1, <3>3, <3>4, CallsKeptByReplace
  <2> QED BY <1>8, <2>2, <2>3, ReadStructOrUnionFrames
<1>9. CASE R!NextItem
  <2>1. rstack # <<>>
    BY <1>9 DEF R!NextItem, R!Reading
  <2>2. PICK f \in ItemsFrames, g \in AnyFrames :
          /\ rstack' = Append(R!WithTop(f), g)
          /\ R!Top \in ItemsFrames /\ f.type = R!Top.type /\ f.info = R!Top.info
          /\ f.type # "MAP" => /\ g.info = FieldInfo[f.info].elementType
                               /\ g.type = FieldInfo[g.info].ftype
    BY <1>9, NextItemFrames
  <2>3. CalledBy(g, f)
    BY <2>2 DEF CalledBy, Serves, Wanted, Typed, HasObject, AnyFrames, ItemsFrames, SequenceTypes
  <2>4. \A h \in RFrame : CalledBy(R!Top, h) => CalledBy(f, h)
    BY <2>2, ItemsStayItems
  <2>5. f \in RFrame /\ g \in RFrame
    BY DEF RFrame
  <2> QED BY <1>0, <2>1, <2>2, <2>3, <2>4, <2>5, CallsKeptByPush
<1>10. CASE R!StoreItem
  <2>1. rstack # <<>>
    BY <1>10 DEF R!StoreItem, R!Reading
  <2>2. PICK f \in ItemsFrames :
          /\ rstack' = R!WithTop(f)
          /\ R!Top \in ItemsFrames /\ f.type = R!Top.type /\ f.info = R!Top.info
    BY <1>10, StoreItemFrames
  <2>3. \A h \in RFrame : CalledBy(R!Top, h) => CalledBy(f, h)
    BY <2>2, ItemsStayItems
  <2>4. f \in RFrame
    BY DEF RFrame
  <2> QED BY <1>0, <2>1, <2>2, <2>3, <2>4, CallsKeptByReplace
<1>11. CASE R!ReturnItems
  <2>1. rstack # <<>> /\ rstack' = R!Pop
    BY <1>11 DEF R!ReturnItems, R!Reading, R!Return
  <2> QED BY <1>0, <2>1, CallsKeptByPop
<1>12. CASE R!Skip
  <2>1. rstack # <<>>
    BY <1>12 DEF R!Skip, R!Reading
  <2>2. PICK f \in SkipFrames : /\ rstack' = R!WithTop(f) /\ R!Top \in SkipFrames
                               /\ f.value = R!Top.value
    BY <1>12, SkipFrameStays
  <2>3. \A h \in RFrame : CalledBy(R!Top, h) => CalledBy(f, h)
    BY <2>2, SkipStaysSkip
  <2>4. f \in RFrame
    BY DEF RFrame
  <2> QED BY <1>0, <2>1, <2>2, <2>3, <2>4, CallsKeptByReplace
<1> QED BY <1>1, <1>2, <1>3, <1>4, <1>5, <1>6, <1>7, <1>8, <1>9, <1>10, <1>11, <1>12
        DEF R!Next

(****************************************************************************)
(* The objects.                                                              *)
(****************************************************************************)

\* How a step changes them.
LEMMA ObjectSteps ==
  ASSUME ReaderTypes, ObjectsInv, Starting, input # NULL, R!Next
  PROVE  \/ mem' = mem
         \/ \E k \in Klasses : mem' = Append(mem, R!New(k))
         \/ \E o \in RObject : mem' = Append(mem, o) /\ o.klass = NULL
         \/ R!StoreField \/ R!StoreUnionField
<1>1. CASE R!Deserialize
  <2>1. mem' = <<R!New(readerKlass)>> /\ mem = <<>> /\ readerKlass \in Klasses
    BY <1>1 DEF R!Deserialize, Starting, ReaderTypes
  <2>2. PICK o : o = R!New(readerKlass)
    OBVIOUS
  <2>3. <<o>> = Append(<<>>, o)
    OBVIOUS
  <2> QED BY <2>1, <2>2, <2>3
<1>2. CASE R!ReadStructOrUnion
  BY <1>2, ReadStructOrUnionFrames
<1>3. CASE R!ReturnItems
  BY <1>3, ReturnItemsFrames
<1>4. CASE ~(R!Deserialize \/ R!ReadStructOrUnion \/ R!ReturnItems)
  BY <1>4 DEF R!Next, R!ReadField, R!ReadUnionField, R!ReadUnionStop, R!LeaveUnion,
     R!ReadScalar, R!ReadSequence, R!ReadMap, R!NextItem, R!StoreItem, R!Skip, R!Skipped,
     R!EndOfFile, R!Garble, R!DeserializeEnd
<1> QED BY <1>1, <1>2, <1>3, <1>4

\* Only instance variables of objects that are there change.
LEMMA ObjectsStayStep ==
  ASSUME ReaderTypes, ObjectsInv, Starting, input # NULL, R!Next
  PROVE  ObjectsStay
<1>0. mem \in Seq(RObject)
  BY DEF ReaderTypes
<1>1. CASE mem' = mem
  BY <1>1, MemStays
<1>2. CASE \E o \in RObject : mem' = Append(mem, o)
  BY <1>0, <1>2, AppendStays
<1>3. CASE R!StoreField
  <2>1. PICK v \in Ref : IF v = nil THEN mem' = mem
                         ELSE SetsIvar(R!Top.obj, FieldInfo[R!Top.info].symName, v)
    BY <1>3, StoreFieldEffect
  <2>2. R!Top.obj \in 1..Len(mem)
    BY <1>3, StoreFieldEffect
  <2>3. CASE v # nil
    <3>1. PICK name : SetsIvar(R!Top.obj, name, v)
      BY <2>1, <2>2, <2>3
    <3>0. PICK o \in 1..Len(mem) : o = R!Top.obj
      BY <2>2
    <3>2. /\ Len(mem') = Len(mem)
          /\ \A n \in 1..Len(mem) : n # o => mem'[n] = mem[n]
          /\ mem'[o].klass = mem[o].klass /\ mem'[o].type = mem[o].type
          /\ mem'[o].items = mem[o].items
      BY <1>0, <3>0, <3>1, IvarSet
    <3> QED BY <3>2 DEF ObjectsStay
  <2> QED BY <2>1, <2>3, MemStays
<1>4. CASE R!StoreUnionField
  <2>1. PICK v \in Ref : IF v = nil THEN mem' = mem
                         ELSE SetsUnion(R!Top.obj, FieldInfo[R!Top.info].symName, v)
    BY <1>4, StoreUnionFieldEffect
  <2>2. R!Top.obj \in 1..Len(mem) /\ FieldInfo[R!Top.info].symName \in Names
    BY <1>4, StoreUnionFieldEffect
  <2>3. CASE v # nil
    <3>1. PICK o \in 1..Len(mem), name \in Names : SetsUnion(o, name, v)
      BY <2>1, <2>2, <2>3
    <3>2. /\ Len(mem') = Len(mem)
          /\ \A n \in 1..Len(mem) : n # o => mem'[n] = mem[n]
          /\ mem'[o].klass = mem[o].klass /\ mem'[o].type = mem[o].type
          /\ mem'[o].items = mem[o].items
      BY <1>0, <3>1, UnionSet
    <3> QED BY <3>2 DEF ObjectsStay
  <2> QED BY <2>1, <2>3, MemStays
<1> QED BY <1>1, <1>2, <1>3, <1>4, ObjectSteps, NewIsObject

\* What is an instance of a class stays an object.
LEMMA ObjectsAreObjectsStep ==
  ASSUME ReaderTypes, ObjectsInv, ObjectsAreObjects, Starting, input # NULL, R!Next
  PROVE  ObjectsAreObjects'
<1>0. mem \in Seq(RObject) /\ ObjectsStay
  BY ObjectsStayStep DEF ReaderTypes
<1>1. CASE Len(mem') = Len(mem)
  BY <1>0, <1>1 DEF ObjectsAreObjects, ObjectsStay
<1>2. ASSUME NEW o \in RObject, mem' = Append(mem, o),
             o.klass = NULL \/ o.type = "object"
      PROVE  ObjectsAreObjects'
  <2>1. Len(mem') = Len(mem) + 1 /\ mem'[Len(mem) + 1] = o /\ Len(mem) \in Nat
    BY <1>0, <1>2, AppendProperties, LenProperties
  <2>2. \A n \in 1..Len(mem') : n \in 1..Len(mem) \/ n = Len(mem) + 1
    BY <2>1
  <2>3. NULL \notin Klasses
    BY SchemaAssumption
  <2> QED BY <1>0, <1>2, <2>1, <2>2, <2>3 DEF ObjectsAreObjects, ObjectsStay
<1>3. ASSUME NEW k \in Klasses, mem' = Append(mem, R!New(k))
      PROVE  ObjectsAreObjects'
  <2>1. PICK o \in RObject : o = R!New(k) /\ o.type = "object"
    BY NewIsObject
  <2> QED BY <1>2, <1>3, <2>1
<1>4. CASE R!StoreField \/ R!StoreUnionField
  <2>1. CASE R!StoreField
    <3>1. PICK v \in Ref : IF v = nil THEN mem' = mem
                           ELSE SetsIvar(R!Top.obj, FieldInfo[R!Top.info].symName, v)
      BY <2>1, StoreFieldEffect
    <3>2. PICK o : o = R!Top.obj
      OBVIOUS
    <3>3. o \in 1..Len(mem)
      BY <2>1, <3>2, StoreFieldEffect
    <3> QED BY <1>0, <1>1, <3>1, <3>2, <3>3, IvarSet
  <2>2. CASE R!StoreUnionField
    <3>1. PICK v \in Ref : IF v = nil THEN mem' = mem
                           ELSE SetsUnion(R!Top.obj, FieldInfo[R!Top.info].symName, v)
      BY <2>2, StoreUnionFieldEffect
    <3>2. PICK o, name : o = R!Top.obj /\ name = FieldInfo[R!Top.info].symName
      OBVIOUS
    <3>3. o \in 1..Len(mem) /\ name \in Names
      BY <2>2, <3>2, StoreUnionFieldEffect
    <3> QED BY <1>0, <1>1, <3>1, <3>2, <3>3, UnionSet
  <2> QED BY <1>4, <2>1, <2>2
<1>5. CASE mem' = mem
  BY <1>1, <1>5
<1> QED BY <1>2, <1>3, <1>4, <1>5, ObjectSteps

\* Reading begins once.
LEMMA StartingStep ==
  ASSUME Starting, R!Next
  PROVE  Starting'
<1>1. CASE R!Deserialize
  BY <1>1 DEF R!Deserialize, R!Running, Starting
<1>2. CASE R!ReadField
  BY <1>2 DEF R!ReadField, R!Reading, R!End, R!Running, Starting
<1>3. CASE R!StoreField \/ R!ReadUnionField \/ R!StoreUnionField \/ R!ReadUnionStop
           \/ R!LeaveUnion \/ R!ReadScalar
  BY <1>3 DEF R!StoreField, R!ReadUnionField, R!StoreUnionField, R!ReadUnionStop,
     R!LeaveUnion, R!ReadScalar, R!Reading, R!End, R!Running, Starting
<1>4. CASE R!ReadSequence \/ R!ReadMap \/ R!ReadStructOrUnion
  BY <1>4 DEF R!ReadSequence, R!ReadMap, R!ReadStructOrUnion, R!Reading, R!End, R!Running,
     Starting
<1>5. CASE R!NextItem \/ R!StoreItem \/ R!ReturnItems \/ R!Skip \/ R!Skipped
  BY <1>5 DEF R!NextItem, R!StoreItem, R!ReturnItems, R!Skip, R!Skipped, R!Reading, Starting
<1>6. CASE R!EndOfFile \/ R!Garble \/ R!DeserializeEnd
  BY <1>6 DEF R!EndOfFile, R!Garble, R!DeserializeEnd, R!End, R!Running, Starting
<1> QED BY <1>1, <1>2, <1>3, <1>4, <1>5, <1>6 DEF R!Next

(****************************************************************************)
(* What is returned.                                                         *)
(****************************************************************************)

\* A struct or union that a typed caller waits for is what it asked for.
LEMMA ObjectFits ==
  ASSUME Owns, ObjectsAreObjects, rstack \in Seq(RFrame), rstack # <<>>, HasObject(R!Top),
         NEW h, CalledBy(R!Top, h), Typed(h)
  PROVE  Fit(R!Top.obj, Wanted(h))
<1>1. PICK o, w : o = R!Top.obj /\ w = Wanted(h)
  OBVIOUS
<1>2. o \in 1..Len(mem) /\ mem[o].klass = R!Top.klass /\ R!Top.klass \in Klasses
  BY <1>1, RTopIsFrame, TopKinds DEF Owns, ObjectFrames
<1>3. mem[o].type = "object"
  BY <1>2 DEF ObjectsAreObjects
<1>4. w \in Infos /\ FieldInfo[w].ftype = "STRUCT" /\ R!Top.klass = FieldInfo[w].klass
  BY <1>1 DEF CalledBy, Serves
<1>5. o \notin VALUE
  BY <1>2, RoundTripAssumption
<1>6. FieldInfo[w].ftype \notin SequenceTypes
  BY <1>4 DEF SequenceTypes
<1> QED BY <1>1, <1>2, <1>3, <1>4, <1>5, <1>6 DEF Fit, Allocated, FieldHasType, HasType

\* The wire has of a scalar what it says.
LEMMA ScalarFits ==
  ASSUME ReaderTypes, WireTyped(input), R!Expecting({"scalar"}), input # NULL,
         NEW w \in Infos, FieldInfo[w].ftype \in ScalarTypes,
         Run(input, pos, 1, FieldInfo[w].ftype)
  PROVE  Fit(R!Event.val, w)
<1>1. pos \in 1..Len(input) /\ R!Event = input[pos] /\ R!Event.ev = "scalar"
      /\ R!Event \in WireEvent
  BY EventIsEvent DEF R!Expecting, R!Event, ReaderTypes
<1>2. R!Event.val \in VALUE /\ R!Event.type \in ScalarTypes
  BY <1>1, EventKinds
<1>3. R!Event.type = FieldInfo[w].ftype
  <2>1. pos \in pos..(pos + 1 - 1) /\ pos <= Len(input)
    BY <1>1
  <2> QED BY <1>1, <2>1 DEF Run
<1>4. R!Event.type = "STRING" <=> heap[R!Event.val].type = "string"
  BY <1>1 DEF WireTyped, ScalarsAsSaid
<1>5. FieldInfo[w].ftype \notin SequenceTypes
  BY DEF SequenceTypes, ScalarTypes
<1> QED BY <1>2, <1>3, <1>4, <1>5 DEF Fit, Allocated, FieldHasType, HasType

\* The frame on top returns a value that fits.
LEMMA ReturnFits ==
  ASSUME rstack \in Seq(RFrame), rstack # <<>>, CallsInv, NEW v,
         rstack' = R!Pop, ret' = <<v>>,
         R!Top.fn = "skip" => R!Top.value # <<>>,
         \A h \in RFrame : Len(rstack) > 1 /\ h = rstack[Len(rstack) - 1]
                           /\ CalledBy(R!Top, h) /\ Typed(h)
                           => v = nil \/ Fit(v, Wanted(h))'
  PROVE  RetInv'
<1>1. /\ rstack' \in Seq(RFrame) /\ Len(rstack') = Len(rstack) - 1
      /\ \A n \in 1..Len(rstack) - 1 : rstack'[n] = rstack[n]
      /\ Len(rstack) \in Nat \ {0}
  BY RPop, RTopIsFrame
<1>2. CASE rstack' = <<>>
  BY <1>2 DEF RetInv
<1>3. CASE rstack' # <<>>
  <2>1. Len(rstack') \in Nat \ {0}
    BY <1>1, <1>3, EmptySeq
  <2>2. Len(rstack) > 1 /\ Len(rstack) - 1 \in 1..Len(rstack) - 1
        /\ Len(rstack) - 1 \in 1..Len(rstack)
    BY <1>1, <2>1
  <2>3. PICK h \in RFrame : h = rstack[Len(rstack) - 1]
    BY <2>2, ElementOfSeq
  <2>4. rstack'[Len(rstack')] = h
    BY <1>1, <2>2, <2>3
  <2>5. CalledBy(R!Top, h)
    <3>1. CalledBy(rstack[(Len(rstack) - 1) + 1], rstack[Len(rstack) - 1])
      BY <2>2 DEF CallsInv
    <3>2. rstack[(Len(rstack) - 1) + 1] = R!Top
      BY <1>1 DEF R!Top
    <3> QED BY <2>3, <3>1, <3>2
  <2>6. Takes(h)
    BY <2>3, <2>5, FrameKinds DEF CalledBy, Takes
  <2>7. Typed(h) => v = nil \/ Fit(v, Wanted(h))'
    BY <2>2, <2>3, <2>5
  <2> QED BY <2>4, <2>6, <2>7 DEF RetInv, R!Top
<1> QED BY <1>2, <1>3

\* A list, set or map that a typed caller waits for is what it asked for.
LEMMA ContainerFits ==
  ASSUME ReaderTypes, GotInv, rstack # <<>>, R!ReturnItems, heap' = heap,
         NEW h, CalledBy(R!Top, h), Typed(h)
  PROVE  \A v : v = Len(mem) + 1 => Fit(v, Wanted(h))'
<1>0. mem \in Seq(RObject) /\ rstack \in Seq(RFrame)
  BY DEF ReaderTypes
<1>1. PICK o \in RObject :
        /\ R!Top \in ItemsFrames
        /\ mem' = Append(mem, o)
        /\ o.klass = NULL /\ o.type = R!Top.type /\ o.items = R!Built(R!Top)
  BY ReturnItemsFrames
<1>2. PICK f \in ItemsFrames : f = R!Top
  BY <1>1
<1>3. PICK w, v : w = Wanted(h) /\ v = Len(mem) + 1
  OBVIOUS
<1>4. w \in Infos /\ f.info = w /\ f.type = FieldInfo[w].ftype
      /\ f.type \in {"LIST", "SET", "MAP"}
  BY <1>2, <1>3 DEF CalledBy, Serves, ItemsFrames
<1>5. /\ Len(mem') = Len(mem) + 1 /\ mem'[v] = o /\ v \in 1..Len(mem') /\ v \notin VALUE
  <2>1. Len(mem) \in Nat
    BY <1>0, LenProperties
  <2> QED BY <1>0, <1>1, <1>3, <2>1, AppendProperties, RoundTripAssumption
<1>6. FieldInfo[w].klass = NULL
  BY <1>4, InfoIsWellFormed
<1>7. ASSUME f.type \in SequenceTypes, NEW e, e = FieldInfo[FieldInfo[w].elementType],
             NEW i \in DOMAIN mem'[v].items, NEW x, x = mem'[v].items[i]
      PROVE  Allocated(x)' /\ (x = nil \/ HasType(x, e.ftype, e.klass)')
  <2> DEFINE S == {y \in Ref : ElementFits(y, f)}
  <2>1. f.got \in Seq(S)
    <3>1. f.got \in Seq(Ref)
      BY DEF ItemsFrames
    <3>2. \A j \in 1..Len(f.got) : f.got[j] \in S
      <4>1. ASSUME NEW j \in 1..Len(f.got) PROVE ElementFits(f.got[j], f)
        <5>1. Len(rstack) \in 1..Len(rstack) /\ rstack[Len(rstack)] = f
          BY <1>0, <1>2, RTopIsFrame
        <5>2. f.fn = "items" /\ j \in DOMAIN f.got
          BY <3>1, LenProperties DEF ItemsFrames
        <5> QED BY <1>7, <5>1, <5>2 DEF GotInv
      <4> QED BY <3>1, <4>1, ElementOfSeq
    <3> HIDE DEF S
    <3>3. Len(f.got) \in Nat /\ f.got = [j \in 1..Len(f.got) |-> f.got[j]]
      BY <3>1, LenProperties
    <3>4. [j \in 1..Len(f.got) |-> f.got[j]] \in Seq(S)
      BY <3>2, <3>3, IsASeq
    <3> QED BY <3>3, <3>4
  <2>2. R!Built(f) \in Seq(S)
    <3> HIDE DEF S
    <3>1. f.type \in {"LIST", "SET"}
      BY <1>7 DEF SequenceTypes
    <3> QED BY <2>1, <3>1, SetOfArrayType DEF R!Built
  <2>3. mem'[v].items = R!Built(f)
    BY <1>1, <1>2, <1>5
  <2>4. x \in S
    <3> HIDE DEF S
    <3>1. i \in 1..Len(R!Built(f)) /\ x = R!Built(f)[i]
      BY <1>7, <2>2, <2>3, LenProperties
    <3> QED BY <2>2, <3>1, ElementOfSeq
  <2>5. x = nil \/ (Allocated(x) /\ HasType(x, e.ftype, e.klass))
    <3>1. ElementFits(x, f) /\ Wanted(f) = FieldInfo[w].elementType
      BY <1>4, <2>4 DEF Wanted, ItemsFrames
    <3> QED BY <1>7, <3>1 DEF ElementFits
  <2>6. ObjectsStay
    BY <1>0, <1>1, AppendStays
  <2>7. CASE x = nil
    BY <2>7, SchemaAssumption DEF Allocated
  <2> QED BY <2>5, <2>6, <2>7, HasTypeStays
<1>8. HasType(v, FieldInfo[w].ftype, FieldInfo[w].klass)'
  BY <1>1, <1>2, <1>4, <1>5, <1>6 DEF HasType
<1>9. ASSUME FieldInfo[w].ftype \in SequenceTypes, NEW i \in DOMAIN mem'[v].items
      PROVE  /\ mem'[v].items[i] \in VALUE \/ mem'[v].items[i] \in 1..Len(mem')
             /\ mem'[v].items[i] = nil
                \/ HasType(mem[v].items[i], FieldInfo[FieldInfo[w].elementType].ftype,
                           FieldInfo[FieldInfo[w].elementType].klass)'
  <2>1. PICK x, e : x = mem'[v].items[i] /\ e = FieldInfo[FieldInfo[w].elementType]
    OBVIOUS
  <2>2. Allocated(x)' /\ (x = nil \/ HasType(x, e.ftype, e.klass)')
    BY <1>4, <1>7, <1>9, <2>1
  <2> QED BY <2>1, <2>2 DEF Allocated, HasType
<1>10. FieldHasType(v, FieldInfo[w])'
  BY <1>8, <1>9 DEF FieldHasType
<1>11. Allocated(v)'
  BY <1>5 DEF Allocated
<1>12. Fit(v, w)'
  BY <1>4, <1>9, <1>10, <1>11 DEF Fit, Allocated
<1> QED BY <1>3, <1>12

\* Nothing is returned, or nothing is taken up.
LEMMA RetNothing ==
  ASSUME ret' = <<>>
  PROVE  RetInv'
BY DEF RetInv

\* An object is returned.
LEMMA ReturnObject ==
  ASSUME ReaderTypes, Owns, ObjectsAreObjects, CallsInv, rstack # <<>>, HasObject(R!Top),
         rstack' = R!Pop, ret' = <<R!Top.obj>>, mem' = mem, heap' = heap
  PROVE  RetInv'
<1>1. rstack \in Seq(RFrame) /\ ObjectsStay
  BY MemStays DEF ReaderTypes
<1>2. PICK v : v = R!Top.obj
  OBVIOUS
<1>3. ASSUME NEW h \in RFrame, CalledBy(R!Top, h), Typed(h)
      PROVE  Fit(v, Wanted(h))'
  <2>1. PICK w : w = Wanted(h)
    OBVIOUS
  <2>2. Fit(v, w)
    BY <1>1, <1>2, <1>3, <2>1, ObjectFits
  <2>3. Fit(v, w)'
    BY <1>1, <2>2, FitStays
  <2> QED BY <2>1, <2>3
<1>4. R!Top.fn # "skip"
  BY DEF HasObject
<1>5. ret' = <<v>>
  BY <1>2
<1> QED BY <1>1, <1>3, <1>4, <1>5, ReturnFits

\* A frame that takes up nothing is not returned to.
LEMMA NothingToTake ==
  ASSUME ReaderTypes, RetInv, rstack # <<>>, ~Takes(R!Top)
  PROVE  ret = <<>>
BY DEF RetInv

\* A scalar is returned.
LEMMA ReturnScalar ==
  ASSUME ReaderTypes, CallsInv, RunInv, WireTyped(input), input # NULL, heap' = heap,
         R!ReadScalar
  PROVE  RetInv'
<1>0. rstack \in Seq(RFrame) /\ ObjectsStay
  BY MemStays DEF ReaderTypes, R!ReadScalar
<1>1. /\ rstack # <<>> /\ R!Top.fn = "any" /\ R!Top.type \in ScalarTypes
      /\ R!Expecting({"scalar"}) /\ rstack' = R!Pop /\ ret' = <<R!Event.val>>
  <2>1. R!Reading("any") /\ R!Top.type \in ScalarTypes /\ R!Expecting({"scalar"})
    BY DEF R!ReadScalar, ScalarTypes, R!ScalarTypes
  <2>2. R!Return(R!Event.val)
    BY DEF R!ReadScalar
  <2> QED BY <2>1, <2>2 DEF R!Reading, R!Return
<1>2. PICK v : v = R!Event.val
  OBVIOUS
<1>3. ASSUME NEW h \in RFrame, Len(rstack) > 1, h = rstack[Len(rstack) - 1],
             CalledBy(R!Top, h), Typed(h)
      PROVE  Fit(v, Wanted(h))'
  <2>1. PICK w : w = Wanted(h)
    OBVIOUS
  <2>2. R!Top.info = w /\ R!Top.type = FieldInfo[w].ftype
    BY <1>1, <1>3, <2>1 DEF CalledBy, Serves
  <2>3. w \in Infos
    BY <1>0, <1>1, <2>2, TopKinds DEF AnyFrames
  <2>4. Run(input, pos, 1, FieldInfo[w].ftype)
    BY <1>1, <1>3, <2>2 DEF RunInv
  <2>5. Fit(v, w)
    BY <1>1, <1>2, <2>2, <2>3, <2>4, ScalarFits
  <2>6. Fit(v, w)'
    BY <1>0, <2>5, FitStays
  <2> QED BY <2>1, <2>6
<1>4. ret' = <<v>>
  BY <1>1, <1>2
<1>5. R!Top.fn # "skip"
  BY <1>1
<1> QED BY <1>0, <1>1, <1>3, <1>4, <1>5, ReturnFits

\* Every step keeps it.
LEMMA RetStep ==
  ASSUME ReaderTypes, ObjectsInv, TypedInv, WireTyped(input), input # NULL, R!Next,
         heap' = heap
  PROVE  RetInv'
<1>0. /\ rstack \in Seq(RFrame) /\ CallsInv /\ RetInv /\ GotInv /\ RunInv
      /\ ObjectsAreObjects /\ Starting /\ Owns
  BY DEF ReaderTypes, TypedInv, ObjectsInv
<1>1. CASE ret' = <<>>
  BY <1>1, RetNothing
<1>2. CASE ret' = ret /\ rstack' = rstack /\ mem' = mem
  <2>1. ObjectsStay
    BY <1>2, MemStays
  <2>2. CASE ret # <<>> /\ rstack # <<>>
    <3>1. PICK v, w, f : v = ret[1] /\ f = R!Top /\ w = Wanted(f)
      OBVIOUS
    <3>2. Takes(f) /\ (Typed(f) => v = nil \/ Fit(v, w))
      BY <1>0, <2>2, <3>1 DEF RetInv
    <3>3. Typed(f) => v = nil \/ Fit(v, w)'
      BY <2>1, <3>2, FitStays
    <3>4. ret'[1] = v /\ R!Top' = f
      BY <1>2, <3>1 DEF R!Top
    <3> QED BY <3>1, <3>2, <3>3, <3>4 DEF RetInv
  <2>3. CASE ret = <<>> \/ rstack = <<>>
    BY <1>2, <2>3 DEF RetInv
  <2> QED BY <2>2, <2>3
<1>3. CASE R!Deserialize
  BY <1>0, <1>1, <1>3 DEF R!Deserialize, Starting
<1>4. CASE R!ReadField
  <2>1. rstack # <<>> /\ R!Top.fn = "struct" /\ mem' = mem
    BY <1>4 DEF R!ReadField, R!Reading
  <2>2. CASE rstack' = R!Pop /\ ret' = <<R!Top.obj>>
    BY <1>0, <2>1, <2>2, ReturnObject DEF HasObject
  <2> QED BY <1>1, <1>2, <1>4, <2>1, <2>2, ReadFieldFrames
<1>5. CASE R!StoreField \/ R!StoreUnionField \/ R!StoreItem
  BY <1>1, <1>5 DEF R!StoreField, R!StoreUnionField, R!StoreItem
<1>6. CASE R!ReadUnionField
  <2>1. rstack # <<>> /\ R!Top.fn = "union" /\ R!Top.pc = "first" /\ mem' = mem
    BY <1>6 DEF R!ReadUnionField, R!Reading
  <2>2. ret = <<>>
    BY <1>0, <2>1, NothingToTake DEF Takes
  <2>3. CASE rstack' = R!Pop /\ ret' = <<R!Top.obj>>
    BY <1>0, <2>1, <2>3, ReturnObject DEF HasObject
  <2> QED BY <1>1, <1>6, <2>2, <2>3, ReadUnionFieldFrames
<1>7. CASE R!ReadUnionStop \/ R!LeaveUnion
  <2>1. rstack # <<>> /\ R!Top.fn = "union" /\ mem' = mem
    BY <1>7 DEF R!ReadUnionStop, R!LeaveUnion, R!Reading
  <2>2. CASE rstack' = R!Pop /\ ret' = <<R!Top.obj>>
    BY <1>0, <2>1, <2>2, ReturnObject DEF HasObject
  <2> QED BY <1>2, <1>7, <2>1, <2>2 DEF R!ReadUnionStop, R!LeaveUnion, R!Return
<1>8. CASE R!ReadScalar
  BY <1>0, <1>8, ReturnScalar
<1>9. CASE R!ReadSequence \/ R!ReadMap \/ R!ReadStructOrUnion
  <2>1. rstack # <<>> /\ R!Top.fn = "any" /\ ret' = ret
    BY <1>9 DEF R!ReadSequence, R!ReadMap, R!ReadStructOrUnion, R!Reading
  <2>2. ret = <<>>
    BY <1>0, <2>1, NothingToTake DEF Takes
  <2> QED BY <1>1, <2>1, <2>2
<1>10. CASE R!NextItem
  BY <1>1, <1>10 DEF R!NextItem
<1>11. CASE R!ReturnItems
  <2>1. /\ rstack # <<>> /\ R!Top.fn = "items" /\ rstack' = R!Pop
        /\ ret' = <<Len(mem) + 1>>
    BY <1>11 DEF R!ReturnItems, R!Reading, R!Return
  <2>2. PICK v : v = Len(mem) + 1
    OBVIOUS
  <2>3. ASSUME NEW h \in RFrame, CalledBy(R!Top, h), Typed(h)
        PROVE  Fit(v, Wanted(h))'
    BY <1>0, <1>11, <2>1, <2>2, <2>3, ContainerFits
  <2>4. ret' = <<v>> /\ R!Top.fn # "skip"
    BY <2>1, <2>2
  <2> QED BY <1>0, <2>1, <2>3, <2>4, ReturnFits
<1>12. CASE R!Skip
  <2>1. rstack # <<>> /\ R!Top.fn = "skip" /\ ret' = ret
    BY <1>12 DEF R!Skip, R!Reading
  <2>2. ret = <<>>
    BY <1>0, <2>1, NothingToTake DEF Takes
  <2> QED BY <1>1, <2>1, <2>2
<1>13. CASE R!Skipped
  <2>1. rstack # <<>> /\ R!Top.fn = "skip" /\ rstack' = R!Pop /\ ret' = R!Top.value
    BY <1>13 DEF R!Skipped, R!Reading
  <2>2. R!Top.value = <<>> \/ R!Top.value = <<nil>>
    BY <1>0, <2>1, TopKinds DEF SkipFrames
  <2>3. CASE R!Top.value = <<nil>>
    <3>1. PICK v : v = nil
      OBVIOUS
    <3>2. ret' = <<v>> /\ R!Top.value # <<>>
      BY <2>1, <2>3, <3>1
    <3> QED BY <1>0, <2>1, <3>1, <3>2, ReturnFits
  <2> QED BY <1>1, <2>1, <2>2, <2>3
<1>14. CASE R!EndOfFile \/ R!Garble \/ R!DeserializeEnd
  BY <1>2, <1>14 DEF R!EndOfFile, R!Garble, R!DeserializeEnd
<1> QED BY <1>3, <1>4, <1>5, <1>6, <1>7, <1>8, <1>9, <1>10, <1>11, <1>12, <1>13, <1>14
        DEF R!Next

(****************************************************************************)
(* What a list or a set has so far.                                          *)
(****************************************************************************)

\* It stays as it is.
LEMMA ElementStays ==
  ASSUME ObjectsStay, heap' = heap, NEW x, NEW g, ElementFits(x, g)
  PROVE  ElementFits(x, g)'
<1>1. PICK e : e = FieldInfo[Wanted(g)]
  OBVIOUS
<1>2. x = nil \/ (Allocated(x) /\ HasType(x, e.ftype, e.klass))
  BY <1>1 DEF ElementFits
<1>3. x = nil \/ (Allocated(x)' /\ HasType(x, e.ftype, e.klass)')
  BY <1>2, HasTypeStays
<1> QED BY <1>1, <1>3 DEF ElementFits

\* The elements of g are those of f, or none.
SameItems(g, f) ==
  g.fn = "items" /\ g.type \in SequenceTypes =>
    g.got = <<>> \/ (f.fn = "items" /\ f.type = g.type /\ f.info = g.info /\ f.got = g.got)

\* No frame gets an element.
LEMMA GotKept ==
  ASSUME GotInv, ObjectsStay, heap' = heap,
         \A n \in 1..Len(rstack') :
           \/ rstack'[n].fn # "items"
           \/ n \in 1..Len(rstack) /\ SameItems(rstack'[n], rstack[n])
  PROVE  GotInv'
<1>1. SUFFICES ASSUME NEW n \in 1..Len(rstack'), NEW g, g = rstack'[n],
                      g.fn = "items", g.type \in SequenceTypes, NEW i \in DOMAIN g.got
               PROVE  ElementFits(g.got[i], g)'
  BY DEF GotInv, ElementFits
<1>2. g.got # <<>>
  BY <1>1
<1>3. PICK f : f = rstack[n] /\ n \in 1..Len(rstack) /\ f.fn = "items" /\ f.type = g.type
               /\ f.info = g.info /\ f.got = g.got
  BY <1>1, <1>2 DEF SameItems
<1>4. PICK x : x = g.got[i]
  OBVIOUS
<1>5. ElementFits(x, f)
  BY <1>1, <1>3, <1>4 DEF GotInv
<1>6. ElementFits(x, g)
  BY <1>1, <1>3, <1>5 DEF ElementFits, Wanted
<1> QED BY <1>4, <1>6, ElementStays

\* The frame on top is replaced.
LEMMA GotKeptByReplace ==
  ASSUME rstack \in Seq(RFrame), rstack # <<>>, GotInv, ObjectsStay, heap' = heap,
         NEW f \in RFrame, rstack' = R!WithTop(f), SameItems(f, R!Top)
  PROVE  GotInv'
<1>1. /\ Len(rstack') = Len(rstack)
      /\ \A n \in 1..Len(rstack) : rstack'[n] = IF n = Len(rstack) THEN f ELSE rstack[n]
  BY RReplace
<1>2. ASSUME NEW n \in 1..Len(rstack)
      PROVE  SameItems(rstack'[n], rstack[n])
  <2>1. CASE n = Len(rstack)
    BY <1>1, <2>1 DEF R!Top
  <2>2. CASE n # Len(rstack)
    BY <1>1, <2>2 DEF SameItems
  <2> QED BY <2>1, <2>2
<1> QED BY <1>1, <1>2, GotKept

\* It is replaced, and calls.
LEMMA GotKeptByPush ==
  ASSUME rstack \in Seq(RFrame), rstack # <<>>, GotInv, ObjectsStay, heap' = heap,
         NEW f \in RFrame, NEW g \in RFrame, rstack' = Append(R!WithTop(f), g),
         SameItems(f, R!Top), g.fn # "items"
  PROVE  GotInv'
<1>1. /\ Len(rstack') = Len(rstack) + 1 /\ Len(rstack) \in Nat
      /\ \A n \in 1..Len(rstack) : rstack'[n] = IF n = Len(rstack) THEN f ELSE rstack[n]
      /\ rstack'[Len(rstack) + 1] = g
  BY RPush, LenProperties
<1>2. ASSUME NEW n \in 1..Len(rstack)
      PROVE  SameItems(rstack'[n], rstack[n])
  <2>1. CASE n = Len(rstack)
    BY <1>1, <2>1 DEF R!Top
  <2>2. CASE n # Len(rstack)
    BY <1>1, <2>2 DEF SameItems
  <2> QED BY <2>1, <2>2
<1>3. \A n \in 1..Len(rstack') : n \in 1..Len(rstack) \/ n = Len(rstack) + 1
  BY <1>1
<1> QED BY <1>1, <1>2, <1>3, GotKept

\* It returns.
LEMMA GotKeptByPop ==
  ASSUME rstack \in Seq(RFrame), rstack # <<>>, GotInv, ObjectsStay, heap' = heap,
         rstack' = R!Pop
  PROVE  GotInv'
<1>1. /\ Len(rstack') = Len(rstack) - 1 /\ Len(rstack) \in Nat
      /\ \A n \in 1..Len(rstack) - 1 : rstack'[n] = rstack[n]
  BY RPop, LenProperties
<1>2. ASSUME NEW n \in 1..Len(rstack')
      PROVE  n \in 1..Len(rstack) /\ SameItems(rstack'[n], rstack[n])
  BY <1>1 DEF SameItems
<1> QED BY <1>2, GotKept

\* A frame takes up an element that fits.
LEMMA GotAfterStoreItem ==
  ASSUME ReaderTypes, GotInv, RetInv, heap' = heap, R!StoreItem
  PROVE  GotInv'
<1>0. rstack \in Seq(RFrame) /\ rstack # <<>> /\ ObjectsStay
  BY MemStays DEF ReaderTypes, R!StoreItem, R!Reading
<1>1. PICK f \in ItemsFrames, v \in Ref :
        /\ rstack' = R!WithTop(f) /\ ret = <<v>> /\ R!Top \in ItemsFrames
        /\ f.type = R!Top.type /\ f.info = R!Top.info /\ f.got = Append(R!Top.got, v)
  BY StoreItemFrames
<1>2. f \in RFrame
  BY DEF RFrame
<1>3. /\ Len(rstack') = Len(rstack)
      /\ \A n \in 1..Len(rstack) : rstack'[n] = IF n = Len(rstack) THEN f ELSE rstack[n]
  BY <1>0, <1>1, <1>2, RReplace
<1>4. PICK t \in ItemsFrames : t = R!Top
  BY <1>1
<1>5. SUFFICES ASSUME NEW n \in 1..Len(rstack), NEW g, g = rstack'[n],
                      g.fn = "items", g.type \in SequenceTypes, NEW i \in DOMAIN g.got
               PROVE  ElementFits(g.got[i], g)'
  BY <1>3 DEF GotInv, ElementFits
<1>6. CASE n # Len(rstack)
  <2>1. PICK x : x = g.got[i]
    OBVIOUS
  <2>2. ElementFits(x, g)
    BY <1>3, <1>5, <1>6, <2>1 DEF GotInv
  <2> QED BY <1>0, <2>1, <2>2, ElementStays
<1>7. CASE n = Len(rstack)
  <2>1. g = f
    BY <1>3, <1>5, <1>7
  <2>2. t.got \in Seq(Ref) /\ t.fn = "items" /\ f.fn = "items"
    BY DEF ItemsFrames
  <2>3. f.got = Append(t.got, v) /\ f.type = t.type /\ f.info = t.info
    BY <1>1, <1>4
  <2>4. Wanted(f) = Wanted(t)
    BY <2>2, <2>3 DEF Wanted
  <2>5. /\ DOMAIN f.got = 1..Len(t.got) + 1 /\ Len(t.got) \in Nat
        /\ \A j \in 1..Len(t.got) : f.got[j] = t.got[j]
        /\ f.got[Len(t.got) + 1] = v
    BY <2>2, <2>3, AppendProperties, LenProperties
  <2>6. CASE i \in 1..Len(t.got)
    <3>1. PICK x : x = t.got[i]
      OBVIOUS
    <3>2. Len(rstack) \in 1..Len(rstack) /\ rstack[Len(rstack)] = t
      BY <1>0, <1>4, RTopIsFrame
    <3>3. i \in DOMAIN t.got
      BY <2>2, <2>6, LenProperties
    <3>4. ElementFits(x, t)
      BY <1>5, <2>1, <2>2, <2>3, <3>1, <3>2, <3>3 DEF GotInv
    <3>5. ElementFits(x, f)
      BY <2>4, <3>4 DEF ElementFits
    <3>6. ElementFits(x, f)'
      BY <1>0, <3>5, ElementStays
    <3> QED BY <2>1, <2>5, <2>6, <3>1, <3>6
  <2>7. CASE i = Len(t.got) + 1
    <3>1. Typed(t)
      BY <1>5, <2>1, <2>2, <2>3 DEF Typed
    <3>2. v = nil \/ Fit(v, Wanted(t))
      <4>1. ret # <<>> /\ ret[1] = v
        BY <1>1
      <4> QED BY <1>0, <1>4, <3>1, <4>1 DEF RetInv
    <3>3. ElementFits(v, f)
      BY <2>4, <3>2 DEF ElementFits, Fit, FieldHasType
    <3>4. ElementFits(v, f)'
      BY <1>0, <3>3, ElementStays
    <3> QED BY <2>1, <2>5, <2>7, <3>4
  <2>8. i \in 1..Len(t.got) \/ i = Len(t.got) + 1
    BY <1>5, <2>1, <2>5
  <2> QED BY <2>6, <2>7, <2>8
<1> QED BY <1>6, <1>7

\* Every step keeps it.
LEMMA GotStep ==
  ASSUME ReaderTypes, ObjectsInv, TypedInv, input # NULL, R!Next, heap' = heap
  PROVE  GotInv'
<1>0. rstack \in Seq(RFrame) /\ GotInv /\ RetInv /\ ObjectsStay
  BY ObjectsStayStep DEF ReaderTypes, TypedInv
<1>1. CASE R!Deserialize
  <2>1. PICK f : f = R!StructFrame(readerKlass, 1)
    OBVIOUS
  <2>2. f.fn # "items"
    BY <2>1, StructFrameIsFrame DEF ReaderTypes
  <2>3. rstack' = <<f>>
    BY <1>1, <2>1 DEF R!Deserialize
  <2>4. Len(rstack') = 1 /\ rstack'[1] = f
    BY <2>3
  <2> QED BY <2>2, <2>4 DEF GotInv
<1>2. CASE rstack' = rstack
  BY <1>0, <1>2, GotKept DEF SameItems
<1>3. CASE rstack # <<>> /\ rstack' = R!Pop
  BY <1>0, <1>3, GotKeptByPop
<1>4. CASE R!ReadField
  <2>1. rstack # <<>>
    BY <1>4 DEF R!ReadField, R!Reading
  <2>2. ASSUME NEW f \in ObjectFrames, NEW g \in RFrame, rstack' = Append(R!WithTop(f), g),
               g.fn \in {"any", "skip"}
        PROVE  GotInv'
    BY <1>0, <2>1, <2>2, GotKeptByPush DEF ObjectFrames, RFrame, SameItems
  <2> QED BY <1>2, <1>3, <1>4, <2>1, <2>2, ReadFieldFrames
<1>5. CASE R!ReadUnionField
  <2>1. rstack # <<>>
    BY <1>5 DEF R!ReadUnionField, R!Reading
  <2>2. ASSUME NEW f \in ObjectFrames, NEW g \in RFrame, rstack' = Append(R!WithTop(f), g),
               g.fn \in {"any", "skip"}
        PROVE  GotInv'
    BY <1>0, <2>1, <2>2, GotKeptByPush DEF ObjectFrames, RFrame, SameItems
  <2> QED BY <1>2, <1>3, <1>5, <2>1, <2>2, ReadUnionFieldFrames
<1>6. CASE R!StoreUnionField
  <2>1. rstack # <<>>
    BY <1>6 DEF R!StoreUnionField, R!Reading
  <2>2. PICK f \in ObjectFrames : rstack' = R!WithTop(f)
    BY <1>6, StoreUnionFieldFrames
  <2> QED BY <1>0, <2>1, <2>2, GotKeptByReplace DEF ObjectFrames, RFrame, SameItems
<1>7. CASE R!ReadSequence \/ R!ReadMap
  <2>1. rstack # <<>>
    BY <1>7 DEF R!ReadSequence, R!ReadMap, R!Reading
  <2>2. PICK f \in RFrame : rstack' = R!WithTop(f) /\ (f.fn = "skip" \/ f.got = <<>>)
    BY <1>7, ContainerFrames
  <2> QED BY <1>0, <2>1, <2>2, GotKeptByReplace DEF SameItems
<1>8. CASE R!ReadStructOrUnion
  <2>1. rstack # <<>>
    BY <1>8 DEF R!ReadStructOrUnion, R!Reading
  <2>2. ASSUME NEW k \in Klasses, rstack' = R!WithTop(R!StructFrame(k, Len(mem) + 1))
        PROVE  GotInv'
    <3>1. PICK f : f = R!StructFrame(k, Len(mem) + 1)
      OBVIOUS
    <3>2. Len(mem) + 1 \in Nat
      BY LenProperties DEF ReaderTypes
    <3>3. f \in RFrame /\ f.fn # "items"
      BY <3>1, <3>2, StructFrameIsFrame
    <3> QED BY <1>0, <2>1, <2>2, <3>1, <3>3, GotKeptByReplace DEF SameItems
  <2> QED BY <1>2, <1>8, <2>2, ReadStructOrUnionFrames
<1>9. CASE R!NextItem
  <2>1. rstack # <<>>
    BY <1>9 DEF R!NextItem, R!Reading
  <2>2. PICK f \in ItemsFrames, g \in AnyFrames :
          /\ rstack' = Append(R!WithTop(f), g) /\ R!Top \in ItemsFrames
          /\ f.type = R!Top.type /\ f.info = R!Top.info /\ f.got = R!Top.got
    BY <1>9, NextItemFrames
  <2>3. SameItems(f, R!Top) /\ g.fn # "items" /\ f \in RFrame /\ g \in RFrame
    BY <2>2 DEF SameItems, ItemsFrames, AnyFrames, RFrame
  <2> QED BY <1>0, <2>1, <2>2, <2>3, GotKeptByPush
<1>10. CASE R!StoreItem
  BY <1>0, <1>10, GotAfterStoreItem
<1>11. CASE R!Skip
  <2>1. rstack # <<>>
    BY <1>11 DEF R!Skip, R!Reading
  <2>2. PICK f \in SkipFrames : rstack' = R!WithTop(f)
    BY <1>11, SkipFrameStays
  <2> QED BY <1>0, <2>1, <2>2, GotKeptByReplace DEF SkipFrames, RFrame, SameItems
<1>12. CASE R!ReadUnionStop \/ R!LeaveUnion \/ R!ReadScalar \/ R!ReturnItems \/ R!Skipped
  <2>1. rstack # <<>> /\ (rstack' = R!Pop \/ rstack' = rstack)
    BY <1>12 DEF R!ReadUnionStop, R!LeaveUnion, R!ReadScalar, R!ReturnItems, R!Skipped,
       R!Reading, R!Return
  <2> QED BY <1>2, <1>3, <2>1
<1>13. CASE R!StoreField \/ R!EndOfFile \/ R!Garble \/ R!DeserializeEnd
  BY <1>2, <1>13 DEF R!StoreField, R!EndOfFile, R!Garble, R!DeserializeEnd
<1> QED BY <1>1, <1>4, <1>5, <1>6, <1>7, <1>8, <1>9, <1>10, <1>11, <1>12, <1>13 DEF R!Next

(****************************************************************************)
(* What a list or a set will have.                                           *)
(****************************************************************************)

ReadsScalar(f) == f.fn = "any" /\ f.type \in ScalarTypes

\* A list of scalars is being read by the frame on top, or by the one that called
\* the frame on top for one of them.
LEMMA NearTop ==
  ASSUME rstack \in Seq(RFrame), CallsInv, NEW n \in 1..Len(rstack), OfScalars(rstack[n])
  PROVE  \/ n = Len(rstack)
         \/ /\ n = Len(rstack) - 1 /\ ReadsScalar(R!Top)
            /\ R!Top.type = FieldInfo[Wanted(rstack[n])].ftype
<1>0. Len(rstack) \in Nat
  BY LenProperties
<1>1. SUFFICES ASSUME n # Len(rstack)
               PROVE  /\ n = Len(rstack) - 1 /\ ReadsScalar(R!Top)
                      /\ R!Top.type = FieldInfo[Wanted(rstack[n])].ftype
  OBVIOUS
<1>2. n \in 1..Len(rstack) - 1 /\ n + 1 \in 1..Len(rstack)
  BY <1>0, <1>1
<1>3. PICK f \in RFrame, h \in RFrame : f = rstack[n + 1] /\ h = rstack[n]
  BY <1>2, ElementOfSeq
<1>4. CalledBy(f, h) /\ OfScalars(h)
  BY <1>2, <1>3 DEF CallsInv
<1>5. Serves(f, h) /\ h.fn = "items" /\ FieldInfo[Wanted(h)].ftype \in ScalarTypes
  BY <1>4 DEF CalledBy, Typed, OfScalars
<1>6. f.fn = "any" /\ f.type = FieldInfo[Wanted(h)].ftype
  <2>1. ~HasObject(f) /\ f.fn # "skip"
    BY <1>5 DEF Serves, ScalarTypes
  <2>2. f.fn # "items"
    <3>1. SUFFICES ASSUME f.fn = "items" PROVE FALSE
      OBVIOUS
    <3>2. f.type \in {"LIST", "SET", "MAP"}
      BY <3>1, FrameKinds DEF ItemsFrames
    <3> QED BY <1>5, <3>1, <3>2 DEF Serves, ScalarTypes
  <2> QED BY <1>5, <2>1, <2>2, FrameKinds DEF Serves, HasObject
<1>7. n + 1 = Len(rstack)
  <2>1. SUFFICES ASSUME n + 1 # Len(rstack) PROVE FALSE
    OBVIOUS
  <2>2. n + 1 \in 1..Len(rstack) - 1
    BY <1>0, <1>2, <2>1
  <2>3. CalledBy(rstack[(n + 1) + 1], f)
    BY <1>3, <2>2 DEF CallsInv
  <2> QED BY <1>6, <2>3 DEF CalledBy
<1>8. n = Len(rstack) - 1 /\ R!Top = f
  BY <1>0, <1>3, <1>7 DEF R!Top
<1> QED BY <1>3, <1>5, <1>6, <1>8 DEF ReadsScalar

\* The frame on top returns, and has not read an element.
LEMMA RunAfterPop ==
  ASSUME rstack \in Seq(RFrame), rstack # <<>>, CallsInv, ~ReadsScalar(R!Top),
         rstack' = R!Pop
  PROVE  RunInv'
<1>1. /\ Len(rstack') = Len(rstack) - 1 /\ Len(rstack) \in Nat
      /\ \A n \in 1..Len(rstack) - 1 : rstack'[n] = rstack[n]
  BY RPop, LenProperties
<1>2. ASSUME NEW n \in 1..Len(rstack') PROVE ~OfScalars(rstack'[n])
  <2>1. n \in 1..Len(rstack) /\ n # Len(rstack) /\ rstack'[n] = rstack[n]
    BY <1>1
  <2> QED BY <2>1, NearTop
<1>3. Len(rstack') > 1 => R!Top'.fn # "any"
  <2>1. SUFFICES ASSUME Len(rstack') > 1 PROVE rstack'[Len(rstack')].fn # "any"
    BY DEF R!Top
  <2>2. /\ Len(rstack) - 1 \in 1..Len(rstack) - 1
        /\ rstack'[Len(rstack')] = rstack[Len(rstack) - 1]
    BY <1>1, <2>1
  <2> QED BY <2>2 DEF CallsInv, CalledBy
<1> QED BY <1>2, <1>3 DEF RunInv

\* It is replaced.
LEMMA RunAfterReplace ==
  ASSUME rstack \in Seq(RFrame), rstack # <<>>, CallsInv, ~ReadsScalar(R!Top),
         NEW f \in RFrame, rstack' = R!WithTop(f), f.fn # "any",
         OfScalars(f) => Run(input', pos', f.left, FieldInfo[Wanted(f)].ftype)
  PROVE  RunInv'
<1>1. /\ Len(rstack') = Len(rstack) /\ Len(rstack) \in Nat \ {0}
      /\ \A n \in 1..Len(rstack) : rstack'[n] = IF n = Len(rstack) THEN f ELSE rstack[n]
  BY RReplace, RTopIsFrame
<1>2. R!Top' = f
  BY <1>1 DEF R!Top
<1>3. ASSUME NEW n \in 1..Len(rstack), OfScalars(rstack'[n])
      PROVE  n = Len(rstack) /\ rstack'[n] = f
  <2>1. CASE n # Len(rstack)
    <3>1. rstack'[n] = rstack[n]
      BY <1>1, <2>1
    <3> QED BY <1>3, <2>1, <3>1, NearTop
  <2> QED BY <1>1, <2>1
<1>4. ASSUME NEW n \in 1..Len(rstack'), OfScalars(rstack'[n])
      PROVE  Run(input', pos', rstack'[n].left + (Len(rstack') - n),
                 FieldInfo[Wanted(rstack'[n])].ftype)
  <2>1. n = Len(rstack) /\ rstack'[n] = f
    BY <1>1, <1>3, <1>4
  <2>2. f.left \in Nat
    BY <1>4, <2>1, FrameKinds DEF OfScalars, ItemsFrames
  <2>3. f.left + (Len(rstack') - n) = f.left
    BY <1>1, <2>1, <2>2
  <2> QED BY <1>4, <2>1, <2>3
<1> QED BY <1>2, <1>4 DEF RunInv

\* It calls.
LEMMA RunAfterPush ==
  ASSUME rstack \in Seq(RFrame), rstack # <<>>, CallsInv, ~ReadsScalar(R!Top),
         NEW f \in RFrame, NEW g \in RFrame, rstack' = Append(R!WithTop(f), g),
         g.fn # "items",
         OfScalars(f) => Run(input', pos', f.left + 1, FieldInfo[Wanted(f)].ftype),
         ReadsScalar(g) /\ Typed(f) => Run(input', pos', 1, g.type)
  PROVE  RunInv'
<1>1. /\ Len(rstack') = Len(rstack) + 1 /\ Len(rstack) \in Nat \ {0}
      /\ \A n \in 1..Len(rstack) : rstack'[n] = IF n = Len(rstack) THEN f ELSE rstack[n]
      /\ rstack'[Len(rstack) + 1] = g
  BY RPush, RTopIsFrame
<1>2. R!Top' = g /\ rstack'[Len(rstack') - 1] = f
  BY <1>1 DEF R!Top
<1>3. ASSUME NEW n \in 1..Len(rstack'), OfScalars(rstack'[n])
      PROVE  n = Len(rstack) /\ rstack'[n] = f
  <2>1. n \in 1..Len(rstack)
    BY <1>1, <1>3 DEF OfScalars
  <2>2. CASE n # Len(rstack)
    <3>1. rstack'[n] = rstack[n]
      BY <1>1, <2>1, <2>2
    <3> QED BY <1>3, <2>1, <2>2, <3>1, NearTop
  <2> QED BY <1>1, <2>1, <2>2
<1>4. ASSUME NEW n \in 1..Len(rstack'), OfScalars(rstack'[n])
      PROVE  Run(input', pos', rstack'[n].left + (Len(rstack') - n),
                 FieldInfo[Wanted(rstack'[n])].ftype)
  <2>1. n = Len(rstack) /\ rstack'[n] = f
    BY <1>3, <1>4
  <2>2. f.left + (Len(rstack') - n) = f.left + 1
    BY <1>1, <2>1
  <2> QED BY <1>4, <2>1, <2>2
<1> QED BY <1>2, <1>4 DEF RunInv, ReadsScalar

\* Of a run something may be left out at either end.
LEMMA RunPart ==
  ASSUME NEW s, NEW p \in Nat, NEW n \in Nat, NEW t, NEW q \in Nat, NEW m \in Nat,
         Run(s, p, n, t), p <= q, q + m <= p + n
  PROVE  Run(s, q, m, t)
<1>1. \A i \in q..(q + m - 1) : i \in p..(p + n - 1)
  OBVIOUS
<1> QED BY <1>1 DEF Run

\* Nothing is read, and no frame comes or goes.
LEMMA RunKept ==
  ASSUME RunInv, rstack' = rstack, input' = input, pos' = pos
  PROVE  RunInv'
BY DEF RunInv, R!Top

\* An element is read.
LEMMA RunAfterScalar ==
  ASSUME ReaderTypes, CallsInv, RunInv, input' = input, R!ReadScalar
  PROVE  RunInv'
<1>1. /\ rstack \in Seq(RFrame) /\ rstack # <<>> /\ pos \in Nat /\ R!Top.fn = "any"
      /\ rstack' = R!Pop /\ pos' = pos + 1
  BY DEF ReaderTypes, R!ReadScalar, R!Reading, R!Return
<1>2. /\ Len(rstack') = Len(rstack) - 1 /\ Len(rstack) \in Nat
      /\ \A n \in 1..Len(rstack) - 1 : rstack'[n] = rstack[n]
  BY <1>1, RPop, LenProperties
<1>3. ASSUME NEW n \in 1..Len(rstack'), OfScalars(rstack'[n])
      PROVE  Run(input', pos', rstack'[n].left + (Len(rstack') - n),
                 FieldInfo[Wanted(rstack'[n])].ftype)
  <2>1. n \in 1..Len(rstack) - 1 /\ n \in 1..Len(rstack) /\ n # Len(rstack)
    BY <1>2
  <2>2. PICK g \in RFrame : g = rstack[n] /\ g = rstack'[n]
    BY <1>1, <1>2, <2>1, ElementOfSeq
  <2>3. n = Len(rstack) - 1
    BY <1>1, <1>3, <2>1, <2>2, NearTop
  <2>4. g.left \in Nat
    BY <1>3, <2>2, FrameKinds DEF OfScalars, ItemsFrames
  <2>5. Run(input, pos, g.left + (Len(rstack) - n), FieldInfo[Wanted(g)].ftype)
    BY <1>3, <2>1, <2>2 DEF RunInv
  <2>6. /\ g.left + (Len(rstack) - n) = g.left + 1
        /\ g.left + (Len(rstack') - n) = g.left
    BY <1>2, <2>3, <2>4
  <2>7. Run(input, pos + 1, g.left, FieldInfo[Wanted(g)].ftype)
    <3>0. PICK t : t = FieldInfo[Wanted(g)].ftype
      OBVIOUS
    <3>1. PICK L \in Nat, p \in Nat :
            L = g.left /\ p = pos /\ t = FieldInfo[Wanted(g)].ftype
      BY <1>1, <2>4, <3>0
    <3>2. Run(input, p, L + 1, t)
      BY <2>5, <2>6, <3>1
    <3>3. L + 1 \in Nat /\ p + 1 \in Nat /\ p <= p + 1 /\ (p + 1) + L <= p + (L + 1)
      OBVIOUS
    <3>4. Run(input, p + 1, L, t)
      BY <3>2, <3>3, RunPart
    <3> QED BY <3>1, <3>4
  <2> QED BY <1>1, <2>2, <2>6, <2>7
<1>4. Len(rstack') > 1 => R!Top'.fn # "any"
  <2>1. SUFFICES ASSUME Len(rstack') > 1 PROVE rstack'[Len(rstack')].fn # "any"
    BY DEF R!Top
  <2>2. /\ Len(rstack) - 1 \in 1..Len(rstack) - 1
        /\ rstack'[Len(rstack')] = rstack[Len(rstack) - 1]
    BY <1>2, <2>1
  <2> QED BY <2>2 DEF CallsInv, CalledBy
<1> QED BY <1>3, <1>4 DEF RunInv

\* A frame calls for one more of its elements.
LEMMA RunAfterNextItem ==
  ASSUME ReaderTypes, CallsInv, RunInv, input' = input, R!NextItem
  PROVE  RunInv'
<1>1. /\ rstack \in Seq(RFrame) /\ rstack # <<>> /\ pos \in Nat /\ R!Top.fn = "items"
      /\ pos' = pos
  BY DEF ReaderTypes, R!NextItem, R!Reading
<1>2. PICK f \in ItemsFrames, g \in AnyFrames :
        /\ rstack' = Append(R!WithTop(f), g)
        /\ R!Top \in ItemsFrames /\ R!Top.left > 0 /\ f.left = R!Top.left - 1
        /\ f.type = R!Top.type /\ f.info = R!Top.info
        /\ f.type # "MAP" => /\ g.info = FieldInfo[f.info].elementType
                             /\ g.type = FieldInfo[g.info].ftype
  BY NextItemFrames
<1>3. f \in RFrame /\ g \in RFrame /\ g.fn # "items" /\ f.fn = "items" /\ f.left \in Nat
  BY DEF AnyFrames, ItemsFrames, RFrame
<1>4. PICK t \in ItemsFrames : t = R!Top
  BY <1>2
<1>5. /\ t.left \in Nat /\ t.fn = "items" /\ Wanted(f) = Wanted(t) /\ t.left = f.left + 1
      /\ OfScalars(f) => OfScalars(t)
  BY <1>2, <1>3, <1>4 DEF ItemsFrames, Wanted, OfScalars
<1>6. OfScalars(f) => Run(input, pos, f.left + 1, FieldInfo[Wanted(f)].ftype)
  <2>1. SUFFICES ASSUME OfScalars(f)
                 PROVE  Run(input, pos, f.left + 1, FieldInfo[Wanted(f)].ftype)
    OBVIOUS
  <2>2. Len(rstack) \in 1..Len(rstack) /\ rstack[Len(rstack)] = t /\ Len(rstack) \in Nat
    BY <1>1, <1>4, RTopIsFrame
  <2>3. Run(input, pos, t.left + (Len(rstack) - Len(rstack)), FieldInfo[Wanted(t)].ftype)
    BY <1>5, <2>1, <2>2 DEF RunInv
  <2>4. t.left + (Len(rstack) - Len(rstack)) = f.left + 1
    BY <1>5, <2>2
  <2> QED BY <1>5, <2>3, <2>4
<1>7. ReadsScalar(g) /\ Typed(f) => Run(input, pos, 1, g.type)
  <2>1. SUFFICES ASSUME ReadsScalar(g), Typed(f) PROVE Run(input, pos, 1, g.type)
    OBVIOUS
  <2>2. f.type \in SequenceTypes /\ f.type # "MAP"
    BY <1>3, <2>1 DEF Typed, SequenceTypes
  <2>3. g.type = FieldInfo[Wanted(f)].ftype /\ OfScalars(f)
    BY <1>2, <1>3, <2>1, <2>2 DEF Wanted, ReadsScalar, OfScalars
  <2>0. PICK ty : ty = FieldInfo[Wanted(f)].ftype
    OBVIOUS
  <2>4. PICK L \in Nat, p \in Nat :
          L = f.left /\ p = pos /\ ty = FieldInfo[Wanted(f)].ftype
    BY <1>1, <1>3, <2>0
  <2>5. Run(input, p, L + 1, ty)
    BY <1>6, <2>3, <2>4
  <2>6. L + 1 \in Nat /\ 1 \in Nat /\ p <= p /\ p + 1 <= p + (L + 1)
    OBVIOUS
  <2>7. Run(input, p, 1, ty)
    BY <2>5, <2>6, RunPart
  <2> QED BY <2>3, <2>4, <2>7
<1>8. ~ReadsScalar(R!Top)
  BY <1>1 DEF ReadsScalar
<1>9. /\ OfScalars(f) => Run(input', pos', f.left + 1, FieldInfo[Wanted(f)].ftype)
      /\ ReadsScalar(g) /\ Typed(f) => Run(input', pos', 1, g.type)
  BY <1>1, <1>6, <1>7
<1> QED BY <1>1, <1>2, <1>3, <1>8, <1>9, RunAfterPush

\* A frame takes up an element.
LEMMA RunAfterStoreItem ==
  ASSUME ReaderTypes, CallsInv, RunInv, input' = input, R!StoreItem
  PROVE  RunInv'
<1>1. /\ rstack \in Seq(RFrame) /\ rstack # <<>> /\ R!Top.fn = "items" /\ pos' = pos
  BY DEF ReaderTypes, R!StoreItem, R!Reading
<1>2. PICK f \in ItemsFrames :
        /\ rstack' = R!WithTop(f) /\ R!Top \in ItemsFrames /\ f.left = R!Top.left
        /\ f.type = R!Top.type /\ f.info = R!Top.info
  BY StoreItemFrames
<1>3. PICK t \in ItemsFrames : t = R!Top
  BY <1>2
<1>4. /\ t.left \in Nat /\ t.fn = "items" /\ Wanted(f) = Wanted(t) /\ t.left = f.left
      /\ OfScalars(f) => OfScalars(t)
      /\ f \in RFrame /\ f.fn # "any"
  BY <1>2, <1>3 DEF ItemsFrames, Wanted, OfScalars, RFrame
<1>5. OfScalars(f) => Run(input, pos, f.left, FieldInfo[Wanted(f)].ftype)
  <2>1. SUFFICES ASSUME OfScalars(f)
                 PROVE  Run(input, pos, f.left, FieldInfo[Wanted(f)].ftype)
    OBVIOUS
  <2>2. Len(rstack) \in 1..Len(rstack) /\ rstack[Len(rstack)] = t /\ Len(rstack) \in Nat
    BY <1>1, <1>3, RTopIsFrame
  <2>3. Run(input, pos, t.left + (Len(rstack) - Len(rstack)), FieldInfo[Wanted(t)].ftype)
    BY <1>4, <2>1, <2>2 DEF RunInv
  <2>4. t.left + (Len(rstack) - Len(rstack)) = f.left
    BY <1>4, <2>2
  <2> QED BY <1>4, <2>3, <2>4
<1>6. ~ReadsScalar(R!Top)
  BY <1>1 DEF ReadsScalar
<1>7. OfScalars(f) => Run(input', pos', f.left, FieldInfo[Wanted(f)].ftype)
  BY <1>1, <1>5
<1> QED BY <1>1, <1>2, <1>4, <1>6, <1>7, RunAfterReplace

\* A list is begun.
LEMMA RunAfterContainer ==
  ASSUME ReaderTypes, CallsInv, WireTyped(input), input # NULL, input' = input,
         R!ReadSequence \/ R!ReadMap
  PROVE  RunInv'
<1>0. /\ rstack \in Seq(RFrame) /\ rstack # <<>> /\ R!Top.fn = "any" /\ pos' = pos + 1
  BY DEF ReaderTypes, R!ReadSequence, R!ReadMap, R!Reading
<1>1. pos \in 1..Len(input)
  <2>1. pos <= Len(input)
    BY DEF R!ReadSequence, R!ReadMap, R!Expecting
  <2> QED BY <2>1, LenProperties DEF ReaderTypes
<1>2. R!Top.type \in SequenceTypes \cup {"MAP"} /\ ~ReadsScalar(R!Top)
  <2>1. R!Top.type \in SequenceTypes \cup {"MAP"}
    BY DEF R!ReadSequence, R!ReadMap, SequenceTypes, R!SequenceTypes
  <2> QED BY <2>1 DEF ReadsScalar, ScalarTypes, SequenceTypes
<1>3. PICK f \in RFrame :
        /\ rstack' = R!WithTop(f)
        /\ \/ f.fn = "skip"
           \/ /\ f \in ItemsFrames
              /\ f.type \in SequenceTypes =>
                   /\ R!Event.ev = "list"
                   /\ f.types[1] = R!Event.elem /\ f.left = R!Event.size
  BY ContainerFrames
<1>4. f.fn # "any"
  BY <1>3 DEF ItemsFrames
<1>5. OfScalars(f) => Run(input', pos', f.left, FieldInfo[Wanted(f)].ftype)
  <2>1. SUFFICES ASSUME OfScalars(f)
                 PROVE  Run(input, pos + 1, f.left, FieldInfo[Wanted(f)].ftype)
    BY <1>0
  <2>2. f \in ItemsFrames /\ f.type \in SequenceTypes /\ f.fn = "items"
    BY <1>3, <2>1 DEF OfScalars
  <2>3. f.types = <<FieldInfo[Wanted(f)].ftype>>
    BY <2>2 DEF ItemsFrames, Wanted, SequenceTypes
  <2>4. /\ R!Event = input[pos] /\ R!Event.ev = "list" /\ f.left = R!Event.size
        /\ R!Event.elem = FieldInfo[Wanted(f)].ftype
    BY <1>3, <2>2, <2>3 DEF R!Event
  <2>5. FieldInfo[Wanted(f)].ftype \in ScalarTypes
    BY <2>1 DEF OfScalars
  <2> QED BY <1>1, <2>4, <2>5 DEF WireTyped, ListsAsSaid
<1> QED BY <1>0, <1>2, <1>3, <1>4, <1>5, RunAfterReplace

\* Every step keeps it.
LEMMA RunStep ==
  ASSUME ReaderTypes, ObjectsInv, TypedInv, WireTyped(input), input # NULL, R!Next,
         input' = input
  PROVE  RunInv'
<1>0. rstack \in Seq(RFrame) /\ CallsInv /\ RunInv
  BY DEF ReaderTypes, TypedInv
<1>1. CASE R!Deserialize
  <2>1. PICK f : f = R!StructFrame(readerKlass, 1)
    OBVIOUS
  <2>2. f.fn # "items"
    BY <2>1, StructFrameIsFrame DEF ReaderTypes
  <2>3. rstack' = <<f>>
    BY <1>1, <2>1 DEF R!Deserialize
  <2>4. Len(rstack') = 1 /\ rstack'[1] = f
    BY <2>3
  <2> QED BY <2>2, <2>4 DEF RunInv, OfScalars
<1>2. CASE rstack' = rstack /\ pos' = pos
  BY <1>0, <1>2, RunKept
<1>3. CASE rstack # <<>> /\ rstack' = R!Pop /\ ~ReadsScalar(R!Top)
  BY <1>0, <1>3, RunAfterPop
<1>4. CASE rstack # <<>> /\ rstack' = rstack /\ HasObject(R!Top)
  <2>1. R!Top.fn # "items" /\ R!Top.fn # "any" /\ ~ReadsScalar(R!Top)
    BY <1>4 DEF HasObject, ReadsScalar
  <2>2. \A n \in 1..Len(rstack) : ~OfScalars(rstack[n])
    <3>1. ~OfScalars(rstack[Len(rstack)])
      BY <2>1 DEF OfScalars, R!Top
    <3> QED BY <1>0, <2>1, <3>1, NearTop
  <2> QED BY <1>4, <2>1, <2>2 DEF RunInv, R!Top
<1>5. CASE R!ReadField
  <2>1. /\ rstack # <<>> /\ R!Top.fn = "struct" /\ pos' = pos + 1 /\ pos \in 1..Len(input)
    <3>1. rstack # <<>> /\ R!Top.fn = "struct" /\ pos' = pos + 1 /\ pos <= Len(input)
      BY <1>5 DEF R!ReadField, R!Reading, R!Expecting
    <3> QED BY <3>1, LenProperties DEF ReaderTypes
  <2>2. ASSUME NEW f \in ObjectFrames, NEW g \in RFrame,
               R!Event.ev = "field", rstack' = Append(R!WithTop(f), g),
               f.fn = "struct",
               \/ g.fn = "skip" /\ g.value = <<>>
               \/ /\ Known(f) /\ g.fn = "any" /\ g.info = f.info
                  /\ g.type = R!Event.type /\ FieldInfo[f.info].ftype = R!Event.type
        PROVE  RunInv'
    <3>1. f \in RFrame /\ g.fn # "items" /\ ~OfScalars(f) /\ ~ReadsScalar(R!Top)
      BY <2>1, <2>2 DEF RFrame, OfScalars, ReadsScalar
    <3>2. ReadsScalar(g) => Run(input', pos', 1, g.type)
      <4>1. SUFFICES ASSUME ReadsScalar(g) PROVE Run(input, pos + 1, 1, g.type)
        BY <2>1
      <4>2. /\ R!Event = input[pos] /\ input[pos].ev = "field"
            /\ g.type = input[pos].type /\ g.type \in ScalarTypes
        BY <2>2, <4>1 DEF R!Event, ReadsScalar
      <4> QED BY <2>1, <4>2 DEF WireTyped, FieldsAsSaid
    <3> QED BY <1>0, <2>1, <2>2, <3>1, <3>2, RunAfterPush
  <2>3. ~ReadsScalar(R!Top) /\ HasObject(R!Top)
    BY <2>1 DEF ReadsScalar, HasObject
  <2> QED BY <1>3, <1>4, <1>5, <2>1, <2>2, <2>3, ReadFieldFrames
<1>6. CASE R!ReadUnionField
  <2>1. rstack # <<>> /\ R!Top.fn = "union" /\ ~ReadsScalar(R!Top)
    BY <1>6 DEF R!ReadUnionField, R!Reading, ReadsScalar
  <2>2. ASSUME NEW f \in ObjectFrames, NEW g \in RFrame, rstack' = Append(R!WithTop(f), g),
               f.fn = "union", g.fn \in {"any", "skip"}
        PROVE  RunInv'
    <3>1. f \in RFrame /\ g.fn # "items" /\ ~OfScalars(f) /\ ~Typed(f)
      BY <2>2 DEF RFrame, OfScalars, Typed
    <3> QED BY <1>0, <2>1, <2>2, <3>1, RunAfterPush
  <2> QED BY <1>3, <1>6, <2>1, <2>2, ReadUnionFieldFrames
<1>7. CASE R!StoreUnionField
  <2>1. rstack # <<>> /\ R!Top.fn = "union" /\ ~ReadsScalar(R!Top)
    BY <1>7 DEF R!StoreUnionField, R!Reading, ReadsScalar
  <2>2. PICK f \in ObjectFrames : rstack' = R!WithTop(f) /\ f.fn = "union"
    BY <1>7, StoreUnionFieldFrames
  <2>3. f \in RFrame /\ f.fn # "any" /\ ~OfScalars(f)
    BY <2>2 DEF RFrame, OfScalars
  <2> QED BY <1>0, <2>1, <2>2, <2>3, RunAfterReplace
<1>8. CASE R!ReadUnionStop \/ R!LeaveUnion
  <2>1. /\ rstack # <<>> /\ R!Top.fn = "union"
        /\ rstack' = R!Pop \/ rstack' = rstack
    BY <1>8 DEF R!ReadUnionStop, R!LeaveUnion, R!Reading, R!Return
  <2>2. ~ReadsScalar(R!Top) /\ HasObject(R!Top)
    BY <2>1 DEF ReadsScalar, HasObject
  <2> QED BY <1>3, <1>4, <2>1, <2>2
<1>9. CASE R!ReadScalar
  BY <1>0, <1>9, RunAfterScalar
<1>10. CASE R!ReadSequence \/ R!ReadMap
  BY <1>0, <1>10, RunAfterContainer
<1>11. CASE R!ReadStructOrUnion
  <2>1. rstack # <<>> /\ R!Top.type = "STRUCT" /\ pos' = pos
    BY <1>11 DEF R!ReadStructOrUnion, R!Reading
  <2>2. ASSUME NEW k \in Klasses, rstack' = R!WithTop(R!StructFrame(k, Len(mem) + 1))
        PROVE  RunInv'
    <3>1. PICK f : f = R!StructFrame(k, Len(mem) + 1)
      OBVIOUS
    <3>2. Len(mem) + 1 \in Nat
      BY LenProperties DEF ReaderTypes
    <3>3. f \in RFrame /\ f.fn # "items" /\ f.fn # "any"
      BY <3>1, <3>2, StructFrameIsFrame
    <3>4. ~OfScalars(f) /\ ~ReadsScalar(R!Top)
      BY <2>1, <3>3 DEF OfScalars, ReadsScalar, ScalarTypes
    <3> QED BY <1>0, <2>1, <2>2, <3>1, <3>3, <3>4, RunAfterReplace
  <2> QED BY <1>2, <1>11, <2>1, <2>2, ReadStructOrUnionFrames
<1>12. CASE R!NextItem
  BY <1>0, <1>12, RunAfterNextItem
<1>13. CASE R!StoreItem
  BY <1>0, <1>13, RunAfterStoreItem
<1>14. CASE R!ReturnItems \/ R!Skipped
  <2>1. /\ rstack # <<>> /\ R!Top.fn \in {"items", "skip"} /\ rstack' = R!Pop
    BY <1>14 DEF R!ReturnItems, R!Skipped, R!Reading, R!Return
  <2> QED BY <1>3, <2>1 DEF ReadsScalar
<1>15. CASE R!Skip
  <2>1. rstack # <<>> /\ R!Top.fn = "skip" /\ ~ReadsScalar(R!Top)
    BY <1>15 DEF R!Skip, R!Reading, ReadsScalar
  <2>2. PICK f \in SkipFrames : rstack' = R!WithTop(f)
    BY <1>15, SkipFrameStays
  <2>3. f \in RFrame /\ f.fn # "any" /\ ~OfScalars(f)
    BY DEF RFrame, SkipFrames, OfScalars
  <2> QED BY <1>0, <2>1, <2>2, <2>3, RunAfterReplace
<1>16. CASE R!StoreField \/ R!EndOfFile \/ R!Garble \/ R!DeserializeEnd
  BY <1>2, <1>16 DEF R!StoreField, R!EndOfFile, R!Garble, R!DeserializeEnd
<1> QED BY <1>1, <1>5, <1>6, <1>7, <1>8, <1>9, <1>10, <1>11, <1>12, <1>13, <1>14, <1>15,
          <1>16 DEF R!Next

(****************************************************************************)
(* What the objects hold.                                                    *)
(****************************************************************************)

\* The field fid of an instance of k holds v.
Holds(k, fid, v) ==
  LET w == InfoOf(k, fid) IN v = Defaults[k][FieldInfo[w].symName] \/ Fit(v, w)

\* What it holds goes on fitting.
LEMMA HoldsStays ==
  ASSUME ObjectsStay, heap' = heap, NEW k, NEW fid, NEW v, Holds(k, fid, v)
  PROVE  Holds(k, fid, v)'
<1>1. PICK w : w = InfoOf(k, fid)
  OBVIOUS
<1>2. v = Defaults[k][FieldInfo[w].symName] \/ Fit(v, w)
  BY <1>1 DEF Holds
<1>3. v = Defaults[k][FieldInfo[w].symName] \/ Fit(v, w)'
  BY <1>2, FitStays
<1> QED BY <1>1, <1>3 DEF Holds

\* The invariant, said of one field.
LEMMA FieldHolds ==
  ASSUME FieldsInv, NEW o \in 1..Len(mem), NEW k \in Klasses \ Unions, NEW fid \in Fids(k),
         mem[o].klass = k, NEW x, x = mem[o].ivars[FieldInfo[InfoOf(k, fid)].symName]
  PROVE  Holds(k, fid, x)
BY DEF FieldsInv, FieldFits, Holds

\* And the other way round, after a step.
LEMMA FieldsHold ==
  ASSUME \A o \in 1..Len(mem'), k \in Klasses \ Unions : \A fid \in Fids(k) : \A x :
           mem'[o].klass = k /\ x = mem'[o].ivars[FieldInfo[InfoOf(k, fid)].symName]
             => Holds(k, fid, x)'
  PROVE  FieldsInv'
<1>1. ASSUME NEW o \in 1..Len(mem'), NEW k \in Klasses \ Unions, mem'[o].klass = k,
             NEW fid \in Fids(k)
      PROVE  FieldFits(o, k, fid)'
  <2>1. PICK w, x : w = InfoOf(k, fid) /\ x = mem'[o].ivars[FieldInfo[w].symName]
    OBVIOUS
  <2>2. Holds(k, fid, x)'
    BY <1>1, <2>1
  <2>3. x = Defaults[k][FieldInfo[w].symName] \/ Fit(x, w)'
    BY <2>1, <2>2 DEF Holds
  <2> QED BY Zenon, <2>1, <2>3 DEF FieldFits, Fit, Allocated, FieldHasType, HasType
<1> QED BY SMTT(40), <1>1 DEF FieldsInv

\* No instance of a class that is not a union's is made or set.
LEMMA FieldsKept ==
  ASSUME FieldsInv, ObjectsStay, heap' = heap,
         \A o \in 1..Len(mem') :
           \/ mem'[o].klass \notin Klasses \ Unions
           \/ o \in 1..Len(mem) /\ mem'[o].ivars = mem[o].ivars
  PROVE  FieldsInv'
<1>1. ASSUME NEW o \in 1..Len(mem'), NEW k \in Klasses \ Unions, NEW fid \in Fids(k), NEW x,
             mem'[o].klass = k, x = mem'[o].ivars[FieldInfo[InfoOf(k, fid)].symName]
      PROVE  Holds(k, fid, x)'
  <2>1. /\ o \in 1..Len(mem) /\ mem[o].klass = k
        /\ x = mem[o].ivars[FieldInfo[InfoOf(k, fid)].symName]
    BY <1>1 DEF ObjectsStay
  <2>2. Holds(k, fid, x)
    BY <2>1, FieldHolds
  <2> QED BY <2>2, HoldsStays
<1> QED BY <1>1, FieldsHold

\* An object is made.
LEMMA FieldsAfterNew ==
  ASSUME FieldsInv, mem \in Seq(RObject), heap' = heap, NEW k0 \in Klasses,
         mem' = Append(mem, R!New(k0))
  PROVE  FieldsInv'
<1>1. PICK ob \in RObject :
        /\ ob = R!New(k0) /\ ob.klass = k0
        /\ ob.ivars = IF k0 \in Unions THEN R!Unset ELSE Defaults[k0]
  BY NewIsObject
<1>2. mem' = Append(mem, ob)
  BY <1>1
<1>3. ObjectsStay
  BY <1>2, AppendStays
<1>4. /\ Len(mem') = Len(mem) + 1 /\ Len(mem) \in Nat
      /\ \A n \in 1..Len(mem) : mem'[n] = mem[n]
      /\ mem'[Len(mem) + 1] = ob
  BY <1>2, AppendProperties, LenProperties
<1>5. ASSUME NEW o \in 1..Len(mem'), NEW k \in Klasses \ Unions, NEW fid \in Fids(k), NEW x,
             mem'[o].klass = k, x = mem'[o].ivars[FieldInfo[InfoOf(k, fid)].symName]
      PROVE  Holds(k, fid, x)'
  <2>1. CASE o \in 1..Len(mem)
    <3>1. mem[o].klass = k /\ x = mem[o].ivars[FieldInfo[InfoOf(k, fid)].symName]
      BY <1>4, <1>5, <2>1
    <3>2. Holds(k, fid, x)
      BY <2>1, <3>1, FieldHolds
    <3> QED BY <1>3, <3>2, HoldsStays
  <2>2. CASE o = Len(mem) + 1
    <3>1. k = k0 /\ ob.ivars = Defaults[k]
      BY <1>1, <1>4, <1>5, <2>2
    <3>2. x = Defaults[k][FieldInfo[InfoOf(k, fid)].symName]
      BY <1>4, <1>5, <2>2, <3>1
    <3> QED BY <3>2 DEF Holds
  <2> QED BY <1>4, <2>1, <2>2
<1> QED BY <1>5, FieldsHold

\* A struct gets a field.
LEMMA FieldsAfterStoreField ==
  ASSUME ReaderTypes, ObjectsInv, TypedInv, heap' = heap, R!StoreField
  PROVE  FieldsInv'
<1>0. mem \in Seq(RObject) /\ rstack # <<>> /\ FieldsInv /\ RetInv
  BY DEF ReaderTypes, TypedInv, R!StoreField, R!Reading
<1>1. PICK v \in Ref :
        /\ ret = <<v>>
        /\ IF v = nil THEN mem' = mem
           ELSE SetsIvar(R!Top.obj, FieldInfo[R!Top.info].symName, v)
  BY StoreFieldEffect
<1>2. PICK t \in ObjectFrames : t = R!Top /\ t.fn = "struct" /\ t.obj \in 1..Len(mem)
                                /\ mem[t.obj].klass = t.klass
  BY StoreFieldEffect
<1>3. CASE v = nil
  BY <1>0, <1>1, <1>3, MemStays, FieldsKept
<1>4. CASE v # nil
  <2>1. PICK o \in 1..Len(mem) : o = t.obj
    BY <1>2
  <2>2. PICK name : name = FieldInfo[t.info].symName
    OBVIOUS
  <2>3. SetsIvar(o, name, v)
    BY <1>1, <1>2, <1>4, <2>1, <2>2
  <2>4. /\ Len(mem') = Len(mem)
        /\ \A n \in 1..Len(mem) : n # o => mem'[n] = mem[n]
        /\ mem'[o].klass = mem[o].klass /\ mem'[o].type = mem[o].type
        /\ mem'[o].items = mem[o].items
        /\ \A y \in Names : mem'[o].ivars[y] = IF y = name THEN v ELSE mem[o].ivars[y]
    BY <1>0, <2>3, IvarSet
  <2>5. ObjectsStay
    BY <2>4 DEF ObjectsStay
  <2>6. Fit(v, t.info)
    <3>1. ret # <<>> /\ ret[1] = v
      BY <1>1
    <3>2. Typed(t) /\ Wanted(t) = t.info
      BY <1>2 DEF Typed, Wanted
    <3> QED BY <1>0, <1>2, <1>4, <3>1, <3>2 DEF RetInv
  <2>7. PICK fid0 \in Fids(t.klass) : t.info = InfoOf(t.klass, fid0)
    <3>1. t.info # NULL
      BY <2>6, SchemaAssumption DEF Fit
    <3> QED BY <3>1 DEF ObjectFrames, Known
  <2>8. ASSUME NEW p \in 1..Len(mem'), NEW k \in Klasses \ Unions, NEW fid \in Fids(k), NEW x,
               mem'[p].klass = k, x = mem'[p].ivars[FieldInfo[InfoOf(k, fid)].symName]
        PROVE  Holds(k, fid, x)'
    <3>0. p \in 1..Len(mem)
      BY <2>4
    <3>1. FieldInfo[InfoOf(k, fid)].symName \in Names
      BY FieldHasInfo
    <3>2. CASE p # o
      <4>1. mem[p].klass = k /\ x = mem[p].ivars[FieldInfo[InfoOf(k, fid)].symName]
        BY <2>4, <2>8, <3>0, <3>2
      <4>2. Holds(k, fid, x)
        BY <1>0, <3>0, <4>1, FieldHolds
      <4> QED BY <2>5, <4>2, HoldsStays
    <3>3. CASE p = o /\ FieldInfo[InfoOf(k, fid)].symName # name
      <4>1. mem[p].klass = k /\ x = mem[p].ivars[FieldInfo[InfoOf(k, fid)].symName]
        BY <2>4, <2>8, <3>1, <3>3
      <4>2. Holds(k, fid, x)
        BY <1>0, <3>0, <4>1, FieldHolds
      <4> QED BY <2>5, <4>2, HoldsStays
    <3>4. CASE p = o /\ FieldInfo[InfoOf(k, fid)].symName = name
      <4>1. t.klass = k
        BY <1>2, <2>1, <2>4, <2>8, <3>4
      <4>2. fid = fid0
        BY <2>2, <2>7, <3>4, <4>1, RoundTripAssumption
      <4>3. InfoOf(k, fid) = t.info /\ x = v
        BY <2>4, <2>7, <2>8, <3>1, <3>4, <4>1, <4>2
      <4>4. PICK w : w = t.info
        OBVIOUS
      <4>5. Fit(v, w)'
        BY <2>5, <2>6, <4>4, FitStays
      <4> QED BY <4>3, <4>4, <4>5 DEF Holds
    <3> QED BY <3>2, <3>3, <3>4
  <2> QED BY <2>8, FieldsHold
<1> QED BY <1>3, <1>4

\* Every step keeps it.
LEMMA FieldsStep ==
  ASSUME ReaderTypes, ObjectsInv, TypedInv, input # NULL, R!Next, heap' = heap
  PROVE  FieldsInv'
<1>0. mem \in Seq(RObject) /\ FieldsInv /\ ObjectsStay /\ Starting
  BY ObjectsStayStep DEF ReaderTypes, TypedInv
<1>1. CASE mem' = mem
  BY <1>0, <1>1, FieldsKept
<1>2. CASE \E k \in Klasses : mem' = Append(mem, R!New(k))
  BY <1>0, <1>2, FieldsAfterNew
<1>3. ASSUME NEW o \in RObject, mem' = Append(mem, o), o.klass = NULL
      PROVE  FieldsInv'
  <2>1. /\ Len(mem') = Len(mem) + 1 /\ Len(mem) \in Nat
        /\ \A n \in 1..Len(mem) : mem'[n] = mem[n]
        /\ mem'[Len(mem) + 1] = o
    BY <1>0, <1>3, AppendProperties, LenProperties
  <2>2. NULL \notin Klasses
    BY SchemaAssumption
  <2>3. \A n \in 1..Len(mem') : n \in 1..Len(mem) \/ n = Len(mem) + 1
    BY <2>1
  <2> QED BY <1>0, <1>3, <2>1, <2>2, <2>3, FieldsKept
<1>4. CASE R!StoreField
  BY <1>4, FieldsAfterStoreField
<1>5. CASE R!StoreUnionField
  <2>1. PICK v \in Ref : IF v = nil THEN mem' = mem
                         ELSE SetsUnion(R!Top.obj, FieldInfo[R!Top.info].symName, v)
    BY <1>5, StoreUnionFieldEffect
  <2>2. CASE v # nil
    <3>1. PICK o \in 1..Len(mem), name \in Names :
            SetsUnion(o, name, v) /\ mem[o].klass \in Unions
      <4>1. /\ R!Top \in ObjectFrames /\ R!Top.fn = "union"
            /\ R!Top.obj \in 1..Len(mem) /\ mem[R!Top.obj].klass = R!Top.klass
            /\ FieldInfo[R!Top.info].symName \in Names
        BY <1>5, StoreUnionFieldEffect
      <4>2. R!Top.klass \in Unions
        BY <4>1 DEF ObjectFrames
      <4> QED BY <2>1, <2>2, <4>1, <4>2
    <3>2. /\ Len(mem') = Len(mem)
          /\ \A n \in 1..Len(mem) : n # o => mem'[n] = mem[n]
          /\ mem'[o].klass = mem[o].klass
      BY <1>0, <3>1, UnionSet
    <3> QED BY <1>0, <3>1, <3>2, FieldsKept
  <2> QED BY <1>1, <2>1, <2>2
<1> QED BY <1>0, <1>1, <1>2, <1>3, <1>4, <1>5, ObjectSteps

(****************************************************************************)
(* The two together, with the types of what is read.                         *)
(****************************************************************************)

\* What is delivered is typed; before that nothing is read.
InputTyped == input # NULL => WireTyped(input)
Idle == input = NULL => rstack = <<>> /\ ret = <<>>

RTTypedInv == RTInv /\ WireInv /\ InputTyped /\ Idle /\ TypedInv

\* A typed buffer is typed up to any place.
LEMMA PrefixIsTyped ==
  ASSUME NEW s \in Seq(WireEvent), NEW n \in 0..Len(s), WireTyped(s)
  PROVE  WireTyped(SubSeq(s, 1, n))
<1>1. PICK q \in Seq(WireEvent) :
        q = SubSeq(s, 1, n) /\ Len(q) = n /\ \A i \in 1..n : q[i] = s[i]
  <2>1. Len(s) \in Nat /\ n \in Nat /\ n <= Len(s)
    BY LenProperties
  <2>2. \A i \in 1..n : i \in 1..Len(s) /\ s[i] \in WireEvent
    BY <2>1, ElementOfSeq
  <2>3. SubSeq(s, 1, n) = [i \in 1..n |-> s[i]]
    BY <2>1
  <2>4. PICK q : q = [i \in 1..n |-> s[i]]
    OBVIOUS
  <2>5. q \in Seq(WireEvent)
    BY <2>1, <2>2, <2>4, IsASeq
  <2>6. Len(q) = n
    BY <2>1, <2>4
  <2> QED BY <2>3, <2>4, <2>5, <2>6
<1>2. n \in Nat /\ Len(s) \in Nat /\ n <= Len(s)
  BY LenProperties
<1>3. FieldsAsSaid(q)
  <2>1. ASSUME NEW p \in 1..Len(q), q[p].ev = "field", q[p].type \in ScalarTypes,
               NEW i \in (p + 1)..((p + 1) + 1 - 1), i <= Len(q)
        PROVE  q[i].ev = "scalar" /\ q[i].type = q[p].type
    <3>1. /\ p \in 1..Len(s) /\ p \in 1..n /\ i \in 1..n /\ i <= Len(s)
      BY <1>1, <1>2, <2>1
    <3>2. q[p] = s[p] /\ q[i] = s[i]
      BY <1>1, <3>1
    <3> QED BY <2>1, <3>1, <3>2 DEF WireTyped, FieldsAsSaid, Run
  <2> QED BY <2>1 DEF FieldsAsSaid, Run
<1>4. ListsAsSaid(q)
  <2>1. ASSUME NEW p \in 1..Len(q), q[p].ev = "list", q[p].elem \in ScalarTypes,
               NEW i \in (p + 1)..((p + 1) + q[p].size - 1), i <= Len(q)
        PROVE  q[i].ev = "scalar" /\ q[i].type = q[p].elem
    <3>1. p \in 1..Len(s) /\ p \in 1..n /\ q[p] = s[p]
      BY <1>1, <1>2
    <3>2. s[p].size \in Nat
      BY <2>1, <3>1, ElementOfSeq, EventKinds
    <3>3. i \in 1..n /\ i <= Len(s)
      BY <1>1, <1>2, <2>1, <3>1, <3>2
    <3>4. q[i] = s[i]
      BY <1>1, <3>3
    <3> QED BY <2>1, <3>1, <3>3, <3>4 DEF WireTyped, ListsAsSaid, Run
  <2> QED BY <2>1 DEF ListsAsSaid, Run
<1>5. ScalarsAsSaid(q)
  BY <1>1, <1>2 DEF WireTyped, ScalarsAsSaid
<1> QED BY <1>1, <1>3, <1>4, <1>5 DEF WireTyped

\* The writer's step does not change what was read.
LEMMA TypedKept ==
  ASSUME ReaderTypes, TypedInv, heap' = heap, UNCHANGED <<pos, mem, rstack, ret, rres>>,
         input' = input \/ rstack = <<>>
  PROVE  TypedInv'
<1>0. /\ CallsInv /\ RetInv /\ GotInv /\ RunInv /\ FieldsInv /\ ObjectsAreObjects
      /\ Starting /\ ObjectsStay
  BY MemStays DEF TypedInv
<1>1. CallsInv' /\ ObjectsAreObjects' /\ Starting'
  BY <1>0 DEF CallsInv, ObjectsAreObjects, Starting
<1>2. RetInv'
  <2>1. CASE ret # <<>> /\ rstack # <<>>
    <3>1. PICK v, f, w : v = ret[1] /\ f = R!Top /\ w = Wanted(f)
      OBVIOUS
    <3>2. Takes(f) /\ (Typed(f) => v = nil \/ Fit(v, w))
      BY <1>0, <2>1, <3>1 DEF RetInv
    <3>3. Typed(f) => v = nil \/ Fit(v, w)'
      BY <1>0, <3>2, FitStays
    <3>4. ret'[1] = v /\ R!Top' = f
      BY <3>1 DEF R!Top
    <3> QED BY <3>1, <3>2, <3>3, <3>4 DEF RetInv
  <2>2. CASE ret = <<>> \/ rstack = <<>>
    BY <2>2 DEF RetInv
  <2> QED BY <2>1, <2>2
<1>3. GotInv'
  BY <1>0, GotKept DEF SameItems
<1>4. RunInv'
  <2>1. CASE input' = input
    BY <1>0, <2>1, RunKept
  <2>2. CASE rstack = <<>>
    <3>1. Len(rstack') = 0 /\ 1..0 = {}
      BY <2>2, EmptySeq
    <3> QED BY <3>1 DEF RunInv
  <2> QED BY <2>1, <2>2
<1>5. FieldsInv'
  BY <1>0, FieldsKept
<1> QED BY <1>1, <1>2, <1>3, <1>4, <1>5 DEF TypedInv

\* It holds at the start.
LEMMA RTTypedInit == RTInit => RTTypedInv
<1> SUFFICES ASSUME RTInit PROVE RTTypedInv
  OBVIOUS
<1>1. RTInv /\ WireInv
  BY RTInvInit, WireInit DEF RTInit
<1>2. mem = <<>> /\ rstack = <<>> /\ ret = <<>> /\ input = NULL
  BY DEF RTInit, R!Init
<1>3. Len(mem) = 0 /\ Len(rstack) = 0 /\ 1..0 = {} /\ 1..(0 - 1) = {} /\ ~(0 > 1)
  BY <1>2, EmptySeq
<1>4. InputTyped /\ Idle
  BY <1>2 DEF InputTyped, Idle
<1>5. CallsInv
  BY <1>3 DEF CallsInv
<1>6. RetInv /\ GotInv /\ FieldsInv /\ ObjectsAreObjects /\ Starting
  BY <1>2, <1>3 DEF RetInv, GotInv, FieldsInv, ObjectsAreObjects, Starting
<1>7. RunInv
  BY <1>3 DEF RunInv
<1> QED BY <1>1, <1>4, <1>5, <1>6, <1>7 DEF RTTypedInv, TypedInv

\* Every step keeps it.
LEMMA RTTypedStep == RTTypedInv /\ [RTNext]_<<vars, rvars>> => RTTypedInv'
<1> SUFFICES ASSUME RTTypedInv, [RTNext]_<<vars, rvars>> PROVE RTTypedInv'
  OBVIOUS
<1>0. /\ RTInv /\ WireInv /\ InputTyped /\ Idle /\ TypedInv
      /\ ShapeInv /\ OutTyped /\ ReaderTypes /\ ObjectsInv
  BY DEF RTTypedInv, RTInv
<1>1. RTInv'
  BY <1>0, RTInvStep
<1>2. CASE Write \/ UNCHANGED <<vars, rvars>>
  <2>1. [Next]_vars /\ UNCHANGED <<input, pos, mem, rstack, ret, rres>>
    BY <1>2 DEF Write, rvars
  <2>2. heap' = heap /\ WireInv'
    BY <1>0, <2>1, RootIsConstant, WireStep
  <2>3. TypedInv'
    BY <1>0, <2>1, <2>2, TypedKept
  <2>4. InputTyped'
    BY <1>0, <2>1, <2>2 DEF InputTyped, WireTyped, FieldsAsSaid, ListsAsSaid, ScalarsAsSaid
  <2>5. Idle'
    BY <1>0, <2>1 DEF Idle
  <2> QED BY <1>1, <2>2, <2>3, <2>4, <2>5 DEF RTTypedInv
<1>3. CASE Deliver
  <2>1. input = NULL /\ UNCHANGED <<pos, mem, rstack, ret, rres>> /\ UNCHANGED vars
    BY <1>3 DEF Deliver
  <2>2. heap' = heap /\ out' = out /\ WireInv'
    BY <1>0, <2>1, RootIsConstant, WireStep DEF vars
  <2>3. PICK n \in 0..Len(out) : input' = SubSeq(out, 1, n)
    BY <1>3 DEF Deliver
  <2>4. WireTyped(SubSeq(out, 1, n))
    BY <1>0, PrefixIsTyped DEF WireInv, OutTyped
  <2>5. PICK s : s = SubSeq(out, 1, n) /\ input' = s /\ WireTyped(s)
    BY <2>3, <2>4
  <2>6. InputTyped'
    BY <2>2, <2>5 DEF InputTyped, WireTyped, FieldsAsSaid, ListsAsSaid, ScalarsAsSaid
  <2>7. rstack = <<>> /\ ret = <<>>
    BY <1>0, <2>1 DEF Idle
  <2>8. TypedInv' /\ Idle'
    BY <1>0, <2>1, <2>2, <2>7, TypedKept DEF Idle
  <2> QED BY <1>1, <2>2, <2>6, <2>8 DEF RTTypedInv
<1>4. CASE Read
  <2>1. input # NULL /\ R!Next /\ UNCHANGED vars
    BY <1>4 DEF Read
  <2>2. heap' = heap /\ WireInv'
    BY <1>0, <2>1, RootIsConstant, WireStep
  <2>3. input' = input
    BY <2>1 DEF R!Next, R!Deserialize, R!ReadField, R!StoreField, R!ReadUnionField,
       R!StoreUnionField, R!ReadUnionStop, R!LeaveUnion, R!ReadScalar, R!ReadSequence,
       R!ReadMap, R!ReadStructOrUnion, R!NextItem, R!StoreItem, R!ReturnItems, R!Skip,
       R!Skipped, R!EndOfFile, R!Garble, R!DeserializeEnd
  <2>4. WireTyped(input)
    BY <1>0, <2>1 DEF InputTyped
  <2>5. CallsInv' /\ ObjectsAreObjects' /\ Starting'
    BY <1>0, <2>1, CallsStep, ObjectsAreObjectsStep, StartingStep DEF TypedInv
  <2>6. RetInv' /\ GotInv' /\ RunInv' /\ FieldsInv'
    BY <1>0, <2>1, <2>2, <2>3, <2>4, RetStep, GotStep, RunStep, FieldsStep
  <2>7. InputTyped' /\ Idle'
    BY SMTT(40), <2>1, <2>2, <2>3, <2>4
       DEF InputTyped, Idle, WireTyped, FieldsAsSaid, ListsAsSaid, ScalarsAsSaid
  <2> QED BY <1>1, <2>2, <2>5, <2>6, <2>7 DEF RTTypedInv, TypedInv
<1> QED BY <1>2, <1>3, <1>4 DEF RTNext

\* Whatever class the data was written as, under whatever protocol and wherever the
\* buffer ends, the fields of a struct that is read hold their default or a value of
\* their type, and the elements of its lists and sets are of theirs, or nil; also while
\* it is being read, and when reading it is given up.
THEOREM StructFieldsAreTyped == RTSpec => []StructFieldsHaveTheirType
<1>1. RTTypedInv => StructFieldsHaveTheirType
  <2> SUFFICES ASSUME RTTypedInv, NEW o \in 1..Len(mem), mem[o].klass \in Klasses \ Unions,
                      NEW fid \in Fids(mem[o].klass)
               PROVE  LET f == FieldInfo[InfoOf(mem[o].klass, fid)]
                          v == mem[o].ivars[f.symName]
                      IN v = Defaults[mem[o].klass][f.symName] \/ FieldHasType(v, f)
    BY DEF StructFieldsHaveTheirType
  <2>1. PICK k \in Klasses \ Unions : k = mem[o].klass
    OBVIOUS
  <2>2. FieldFits(o, k, fid)
    BY <2>1 DEF RTTypedInv, TypedInv, FieldsInv
  <2> QED BY Zenon, <2>1, <2>2 DEF FieldFits, Fit
<1> QED BY <1>1, RTTypedInit, RTTypedStep, PTL DEF RTSpec

(****************************************************************************)
(* A whole buffer is read to its end.  The reader follows the account that   *)
(* the writer has kept (BufferIsTheData): at every event the frames on its   *)
(* stack are to read what is due, each its share.                            *)
(****************************************************************************)

\* The classes that should understand each other do.
Understandable == \E I : Fits(Compatible, I)
InfoReaders == CHOOSE I : Fits(Compatible, I)

\* A readAny(type, info) is to read the due d.
ReadsValue(h, type, info, d) ==
  \E w \in Infos, v \in VALUE :
    /\ d = Whole(h, AnyOf(w, v))
    /\ type = FieldInfo[w].ftype /\ info \in InfoReaders[w]

\* A readStruct or readUnion is to read what is left of the struct d.  A union that
\* has its field has read a field of d.
ReadsObject(h, f, d) ==
  /\ d.act.klass \in Klasses /\ f.klass \in Compatible[d.act.klass]
  /\ f.last = d.last
  /\ f.fn = "union" =>
       /\ f.pc # "leaving"
       /\ f.pc # "first" => f.last \in Present(h, d.act.klass, d.act.val) \ d.rest

\* The i-th last item of a container.
ReadsItem(h, f, i, d) ==
  IF f.type = "MAP" /\ i % 2 = 0
  THEN ReadsValue(h, f.types[1], FieldInfo[f.info].keyType, d)
  ELSE ReadsValue(h, f.types[Len(f.types)], FieldInfo[f.info].elementType, d)

\* The frame f is to read the dues of p after the first a, up to the b-th.
IsToRead(h, f, p, a, b) ==
  /\ f.fn = "any" => b = a + 1 /\ ReadsValue(h, f.type, f.info, p[b])
  /\ HasObject(f) => b = a + 1 /\ ReadsObject(h, f, p[b])
  /\ f.fn = "items" => b = a + f.left /\ \A i \in 1..b - a : ReadsItem(h, f, i, p[a + i])
  /\ f.fn = "skip" => b = a + f.left

\* The first n frames of s are to read the first b dues of p, each its share.
ReadShare(h, s, p, n, b) ==
  \E to \in [0..n -> 0..b] :
    /\ to[0] = 0 /\ to[n] = b
    /\ \A m, l \in 0..n : m <= l => to[m] <= to[l]
    /\ \A m \in 1..n : IsToRead(h, s[m], p, to[m - 1], to[m])

\* The buffer, or its beginning, was delivered.
Sent == Len(input) <= Len(out) /\ \A i \in 1..Len(input) : input[i] = out[i]

\* How far the reader has come.
Progress(due) ==
  /\ pos - 1 <= Len(input)
  /\ rres.st \in {"called", "running", "ok", "raised"}
  /\ rres.st = "called" => pos = 1
  /\ rres.st = "running" =>
       ReadShare(heap, rstack, due[pos - 1], Len(rstack), Len(due[pos - 1]))
  /\ rres.st = "ok" => due[pos - 1] = <<>>
  /\ rres.st = "raised" => \/ Len(input) < Len(out)
                           \/ rres.exc = "UnionException" /\ \E v \in VALUE : TwoFields(v)

ReadInv ==
  /\ input = NULL => rres.st = "called" /\ pos = 1
  /\ Understandable /\ Understood /\ input # NULL =>
       /\ res.st = "ok" /\ Sent
       /\ \E due : Accounts(heap, Root, out, due) /\ due[Len(out)] = <<>> /\ Progress(due)

\* The keys and values of a map alternate: a container that is not busy with an item
\* has as many items to come as it has so far, but for an even number.
PairsInv ==
  \A n \in 1..Len(rstack) :
    rstack[n].fn = "items" =>
      /\ rstack[n].type = "MAP" =>
           (Len(rstack[n].got) + rstack[n].left) % 2 =
             IF n = Len(rstack) /\ ret = <<>> THEN 0 ELSE 1
      /\ n < Len(rstack) /\ rstack[n + 1].fn = "skip" => rstack[n + 1].value = <<nil>>

\* Shares depend on the frames and the dues they are of, and on no others.
LEMMA ReadShareKept ==
  ASSUME NEW h, NEW s, NEW t, NEW p, NEW q, NEW n \in Nat, NEW b \in Nat,
         ReadShare(h, s, p, n, b),
         \A m \in 1..n : t[m] = s[m], \A i \in 1..b : q[i] = p[i]
  PROVE  ReadShare(h, t, q, n, b)
<1>1. PICK to \in [0..n -> 0..b] :
        /\ to[0] = 0 /\ to[n] = b
        /\ \A m, l \in 0..n : m <= l => to[m] <= to[l]
        /\ \A m \in 1..n : IsToRead(h, s[m], p, to[m - 1], to[m])
  BY DEF ReadShare
<1>2. ASSUME NEW m \in 1..n
      PROVE  IsToRead(h, t[m], q, to[m - 1], to[m])
  <2>1. /\ to[m - 1] \in 0..b /\ to[m] \in 0..b /\ to[m - 1] <= to[m]
        /\ IsToRead(h, s[m], p, to[m - 1], to[m]) /\ t[m] = s[m]
    BY <1>1
  <2>2. PICK f, c, d : f = s[m] /\ c = to[m - 1] /\ d = to[m]
    OBVIOUS
  <2>3. c \in Nat /\ d \in 0..b /\ IsToRead(h, f, p, c, d)
    BY <2>1, <2>2
  <2>4. d = c + 1 => q[d] = p[d]
    BY <2>3
  <2>5. \A i \in 1..d - c : q[c + i] = p[c + i]
    BY <2>3
  <2>6. IsToRead(h, f, q, c, d)
    BY <2>3, <2>4, <2>5 DEF IsToRead
  <2> QED BY <2>1, <2>2, <2>6
<1> QED BY <1>1, <1>2 DEF ReadShare

\* The share of the last frame.
LEMMA ReadShareOfLast ==
  ASSUME NEW h, NEW s, NEW p, NEW n \in Nat \ {0}, NEW b \in Nat, ReadShare(h, s, p, n, b)
  PROVE  \E a \in 0..b : ReadShare(h, s, p, n - 1, a) /\ IsToRead(h, s[n], p, a, b)
<1>1. PICK to \in [0..n -> 0..b] :
        /\ to[0] = 0 /\ to[n] = b
        /\ \A m, l \in 0..n : m <= l => to[m] <= to[l]
        /\ \A m \in 1..n : IsToRead(h, s[m], p, to[m - 1], to[m])
  BY DEF ReadShare
<1>2. PICK a : a = to[n - 1]
  OBVIOUS
<1>3. a \in 0..b
  BY <1>1, <1>2
<1>4. \A m \in 0..n - 1 : to[m] \in 0..a
  <2>1. ASSUME NEW m \in 0..n - 1 PROVE to[m] \in 0..b /\ to[m] <= a
    <3>1. m \in 0..n /\ n - 1 \in 0..n /\ m <= n - 1
      OBVIOUS
    <3> QED BY <1>1, <1>2, <3>1
  <2> QED BY <1>3, <2>1
<1> DEFINE t == [m \in 0..n - 1 |-> to[m]]
<1>5. t \in [0..n - 1 -> 0..a]
  BY <1>4
<1>6. t[0] = 0 /\ t[n - 1] = a
  BY <1>1, <1>2
<1>7. \A m \in 1..n - 1 : t[m] = to[m] /\ t[m - 1] = to[m - 1] /\ m \in 1..n
  OBVIOUS
<1>8. ReadShare(h, s, p, n - 1, a)
  <2>1. \A m, l \in 0..n - 1 : m <= l => t[m] <= t[l]
    BY <1>1
  <2> HIDE DEF t
  <2> QED BY <1>1, <1>5, <1>6, <1>7, <2>1 DEF ReadShare
<1>9. n \in 1..n
  OBVIOUS
<1> QED BY <1>1, <1>2, <1>3, <1>8, <1>9

\* A frame takes a share.
LEMMA ReadShareAdded ==
  ASSUME NEW h, NEW s, NEW p, NEW n \in Nat, NEW b \in Nat, NEW a \in 0..b,
         ReadShare(h, s, p, n, a), IsToRead(h, s[n + 1], p, a, b)
  PROVE  ReadShare(h, s, p, n + 1, b)
<1>1. PICK to \in [0..n -> 0..a] :
        /\ to[0] = 0 /\ to[n] = a
        /\ \A m, l \in 0..n : m <= l => to[m] <= to[l]
        /\ \A m \in 1..n : IsToRead(h, s[m], p, to[m - 1], to[m])
  BY DEF ReadShare
<1> DEFINE t == [m \in 0..n + 1 |-> IF m = n + 1 THEN b ELSE to[m]]
<1>2. t \in [0..n + 1 -> 0..b]
  <2>1. ASSUME NEW m \in 0..n + 1 PROVE t[m] \in 0..b
    <3>1. m # n + 1 => m \in 0..n
      OBVIOUS
    <3>2. m # n + 1 => to[m] \in 0..a
      BY <1>1, <3>1
    <3> QED BY <3>2
  <2> QED BY <2>1
<1>3. t[0] = 0 /\ t[n] = a /\ t[n + 1] = b
  BY <1>1
<1>4. \A m \in 1..n : t[m] = to[m] /\ t[m - 1] = to[m - 1]
  OBVIOUS
<1>5. ASSUME NEW m \in 1..n + 1
      PROVE  IsToRead(h, s[m], p, t[m - 1], t[m])
  <2> HIDE DEF t
  <2>1. CASE m = n + 1
    <3>1. m - 1 = n
      BY <2>1
    <3> QED BY <1>3, <2>1, <3>1
  <2>2. CASE m # n + 1
    <3>1. m \in 1..n
      BY <2>2
    <3> QED BY <1>1, <1>4, <3>1
  <2> QED BY <2>1, <2>2
<1>6. ASSUME NEW m \in 0..n + 1, NEW l \in 0..n + 1, m <= l
      PROVE  t[m] <= t[l]
  <2>1. CASE l = n + 1
    BY <1>2, <2>1
  <2>2. CASE l # n + 1
    <3>1. l \in 0..n /\ m \in 0..n
      BY <1>6, <2>2
    <3> QED BY <1>1, <1>6, <3>1
  <2> QED BY <2>1, <2>2
<1> HIDE DEF t
<1> QED BY <1>2, <1>3, <1>5, <1>6 DEF ReadShare

\* The reader follows the account due.
Follows(due) ==
  /\ IsHeap(heap) /\ OutTyped /\ ReaderTypes /\ input # NULL
  /\ Understandable /\ Understood /\ Sent
  /\ Accounts(heap, Root, out, due) /\ due[Len(out)] = <<>> /\ Progress(due)

\* The frame on top is to read the dues of p after the first a.
TopIsToRead(p, a) ==
  /\ p \in Seq(Due) /\ a \in 0..Len(p)
  /\ ReadShare(heap, rstack, p, Len(rstack) - 1, a)
  /\ IsToRead(heap, R!Top, p, a, Len(p))

\* Such an assignment of readers has been picked.
LEMMA InfoReadersFit == Understandable => Fits(Compatible, InfoReaders)
BY DEF Understandable, InfoReaders

\* Where the reader is in the account.
LEMMA WhereItIs ==
  ASSUME NEW due, Follows(due)
  PROVE  /\ Len(input) \in Nat /\ Len(out) \in Nat /\ pos - 1 \in 0..Len(input)
         /\ Len(input) <= Len(out) /\ pos \in Nat \ {0}
         /\ due[pos - 1] \in Seq(Due) /\ Len(due[pos - 1]) \in Nat
         /\ rstack \in Seq(RFrame) /\ Len(rstack) \in Nat
<1>1. pos \in Nat \ {0} /\ input \in Seq(WireEvent) /\ rstack \in Seq(RFrame)
      /\ out \in Seq(WireEvent)
  BY DEF Follows, ReaderTypes, OutTyped
<1>2. Len(input) \in Nat /\ Len(out) \in Nat /\ Len(rstack) \in Nat
  BY <1>1, LenProperties
<1>3. pos - 1 <= Len(input) /\ Len(input) <= Len(out)
  BY DEF Follows, Progress, Sent
<1>4. pos - 1 \in 0..Len(out)
  BY <1>1, <1>2, <1>3
<1>5. due[pos - 1] \in Seq(Due)
  BY <1>4 DEF Follows, Accounts
<1> QED BY <1>1, <1>2, <1>3, <1>5, LenProperties

\* What is due, and the share of the frame on top.
LEMMA TopDue ==
  ASSUME NEW due, Follows(due), rres.st = "running", rstack # <<>>
  PROVE  \E p, a : p = due[pos - 1] /\ TopIsToRead(p, a)
<1>1. PICK p : p = due[pos - 1]
  OBVIOUS
<1>2. p \in Seq(Due) /\ Len(p) \in Nat /\ rstack \in Seq(RFrame)
  BY <1>1, WhereItIs
<1>3. ReadShare(heap, rstack, p, Len(rstack), Len(p))
  BY <1>1 DEF Follows, Progress
<1>4. Len(rstack) \in Nat \ {0} /\ R!Top = rstack[Len(rstack)]
  BY <1>2, RTopIsFrame
<1>5. PICK a \in 0..Len(p) : /\ ReadShare(heap, rstack, p, Len(rstack) - 1, a)
                             /\ IsToRead(heap, rstack[Len(rstack)], p, a, Len(p))
  BY <1>2, <1>3, <1>4, ReadShareOfLast
<1> QED BY <1>1, <1>2, <1>4, <1>5 DEF TopIsToRead

\* The next event settles the due on top.
LEMMA EventDue ==
  ASSUME NEW due, Follows(due), NEW p, p = due[pos - 1], pos <= Len(input)
  PROVE  \E q \in Seq(Due) : /\ q = due[pos] /\ Settles(heap, p, R!Event, q)
                             /\ R!Event \in WireEvent
<1>1. pos \in 1..Len(input) /\ pos \in 1..Len(out) /\ pos \in 0..Len(out)
  BY WhereItIs
<1>2. R!Event = out[pos]
  BY <1>1 DEF R!Event, Follows, Sent
<1>3. Settles(heap, p, R!Event, due[pos])
  BY <1>1, <1>2 DEF Follows, Accounts
<1>4. R!Event \in WireEvent
  BY EventIsEvent DEF Follows
<1>5. due[pos] \in Seq(Due)
  BY <1>1 DEF Follows, Accounts
<1> QED BY <1>3, <1>4, <1>5

\* What the reader is given, and what is due, does not change.
Steady == UNCHANGED <<heap, call, out, res, input, readerKlass>>

\* A step that reads nothing ...
LEMMA StandsStill ==
  ASSUME NEW due, Follows(due), NEW p, p = due[pos - 1], Steady, pos' = pos,
         rres'.st = "running", ReadShare(heap, rstack', p, Len(rstack'), Len(p))
  PROVE  Progress(due)'
<1>1. heap' = heap /\ input' = input
  BY DEF Steady
<1>2. pos - 1 <= Len(input)
  BY WhereItIs
<1> QED BY <1>1, <1>2 DEF Progress

\* ... and one that reads an event.
LEMMA Advances ==
  ASSUME NEW due, Follows(due), NEW q, q = due[pos], Steady, pos' = pos + 1,
         pos <= Len(input), rres'.st = "running",
         ReadShare(heap, rstack', q, Len(rstack'), Len(q))
  PROVE  Progress(due)'
<1>1. heap' = heap /\ input' = input
  BY DEF Steady
<1>2. pos' - 1 = pos /\ pos' - 1 <= Len(input)
  BY WhereItIs
<1> QED BY <1>1, <1>2 DEF Progress

\* The frame on top is replaced by one that is to read what is due then.
LEMMA ShareOfReplaced ==
  ASSUME NEW p, NEW a, TopIsToRead(p, a), rstack \in Seq(RFrame), rstack # <<>>,
         NEW q \in Seq(Due), \A i \in 1..a : q[i] = p[i], a <= Len(q),
         NEW f, rstack' = R!WithTop(f), IsToRead(heap, f, q, a, Len(q))
  PROVE  ReadShare(heap, rstack', q, Len(rstack'), Len(q))
<1>1. Len(p) \in Nat /\ Len(q) \in Nat /\ a \in Nat
  BY LenProperties DEF TopIsToRead
<1>2. PICK n : n = Len(rstack)
  OBVIOUS
<1>3. n \in Nat \ {0} /\ rstack \in Seq(RFrame \cup {f})
  BY <1>2, RTopIsFrame
<1>4. Len(rstack') = n /\ \A m \in 1..n : rstack'[m] = IF m = n THEN f ELSE rstack[m]
  BY <1>2, <1>3, ExceptSeq DEF R!WithTop
<1>5. rstack'[n - 1 + 1] = f
  BY <1>3, <1>4
<1>6. \A m \in 1..n - 1 : rstack'[m] = rstack[m]
  <2>1. \A m \in 1..n - 1 : m \in 1..n /\ m # n
    BY <1>3
  <2> QED BY <1>4, <2>1
<1>7. ReadShare(heap, rstack, p, n - 1, a) /\ n - 1 \in Nat
  BY <1>2, <1>3 DEF TopIsToRead
<1>8. ReadShare(heap, rstack', q, n - 1, a)
  BY <1>1, <1>6, <1>7, ReadShareKept
<1>9. ReadShare(heap, rstack', q, n - 1 + 1, Len(q))
  BY <1>1, <1>5, <1>7, <1>8, ReadShareAdded
<1> QED BY <1>3, <1>4, <1>9

\* It calls another, which takes over some of it.
LEMMA ShareOfPushed ==
  ASSUME NEW p, NEW a, TopIsToRead(p, a), rstack \in Seq(RFrame), rstack # <<>>,
         NEW q \in Seq(Due), \A i \in 1..a : q[i] = p[i], NEW c \in a..Len(q),
         NEW f, NEW g, rstack' = Append(R!WithTop(f), g),
         IsToRead(heap, f, q, a, c), IsToRead(heap, g, q, c, Len(q))
  PROVE  ReadShare(heap, rstack', q, Len(rstack'), Len(q))
<1>1. Len(p) \in Nat /\ Len(q) \in Nat /\ a \in Nat
  BY LenProperties DEF TopIsToRead
<1>2. PICK n : n = Len(rstack)
  OBVIOUS
<1>3. n \in Nat \ {0} /\ rstack \in Seq(RFrame \cup {f, g})
  BY <1>2, RTopIsFrame
<1>4. PICK t : t = R!WithTop(f)
  OBVIOUS
<1>5. /\ t \in Seq(RFrame \cup {f, g}) /\ Len(t) = n
      /\ \A m \in 1..n : t[m] = IF m = n THEN f ELSE rstack[m]
  BY <1>2, <1>3, <1>4, ExceptSeq DEF R!WithTop
<1>6. PICK s : s = Append(t, g)
  OBVIOUS
<1>7. rstack' = s /\ Len(s) = n + 1 /\ s[n + 1] = g /\ \A m \in 1..n : s[m] = t[m]
  BY <1>4, <1>5, <1>6, AppendProperties
<1>8. s[n - 1 + 1] = f /\ \A m \in 1..n - 1 : s[m] = rstack[m]
  <2>1. \A m \in 1..n - 1 : m \in 1..n /\ m # n
    BY <1>3
  <2> QED BY <1>3, <1>5, <1>7, <2>1
<1>9. ReadShare(heap, rstack, p, n - 1, a) /\ n - 1 \in Nat
  BY <1>2, <1>3 DEF TopIsToRead
<1>10. ReadShare(heap, s, q, n - 1, a)
  BY <1>1, <1>8, <1>9, ReadShareKept
<1>11. c \in Nat /\ a \in 0..c /\ c \in 0..Len(q)
  BY <1>1
<1>12. ReadShare(heap, s, q, n - 1 + 1, c)
  BY <1>8, <1>9, <1>10, <1>11, ReadShareAdded
<1>13. ReadShare(heap, s, q, n + 1, Len(q))
  <2>1. n - 1 + 1 = n /\ n \in Nat
    BY <1>3
  <2>2. ReadShare(heap, s, q, n, c)
    BY <1>12, <2>1
  <2> QED BY <1>1, <1>7, <1>11, <2>1, <2>2, ReadShareAdded
<1> QED BY <1>7, <1>13

\* It returns, having read its share.
LEMMA ShareOfPopped ==
  ASSUME NEW p, NEW a, TopIsToRead(p, a), rstack \in Seq(RFrame), rstack # <<>>,
         NEW q \in Seq(Due), \A i \in 1..a : q[i] = p[i], Len(q) = a, rstack' = R!Pop
  PROVE  ReadShare(heap, rstack', q, Len(rstack'), Len(q))
<1>1. Len(p) \in Nat /\ a \in Nat
  BY LenProperties DEF TopIsToRead
<1>2. PICK n : n = Len(rstack) - 1
  OBVIOUS
<1>3. n \in Nat /\ Len(rstack') = n /\ \A m \in 1..n : rstack'[m] = rstack[m]
  BY <1>2, RTopIsFrame, RPop
<1>4. ReadShare(heap, rstack, p, n, a)
  BY <1>2 DEF TopIsToRead
<1>5. ReadShare(heap, rstack', q, n, a)
  BY <1>1, <1>3, <1>4, ReadShareKept
<1> QED BY <1>3, <1>5

\* What settles a value is what a writeAny of it writes.
LEMMA ValueDue ==
  ASSUME NEW h, NEW p, NEW e, NEW q, Settles(h, p, e, q), NEW w \in Infos, NEW v \in VALUE,
         p[Len(p)] = Whole(h, AnyOf(w, v)), FieldInfo[w].ftype # "STRUCT"
  PROVE  /\ Header(h, AnyOf(w, v)) = <<e>>
         /\ \A i \in 1..Brings(e) :
              /\ Brings(e) + 1 - i \in Slots(h, AnyOf(w, v))
              /\ q[Len(p) - 1 + i] = Whole(h, Callee(h, AnyOf(w, v), Brings(e) + 1 - i))
<1>1. PICK a : a = AnyOf(w, v)
  OBVIOUS
<1>2. a.klass = NULL /\ a.info = w
  BY <1>1 DEF AnyOf
<1>3. Wire(a) = a
  BY <1>2 DEF Wire
<1>4. p[Len(p)].act = a
  BY <1>1, <1>3 DEF Whole
<1>5. SettlesValue(h, p, e, q)
  BY <1>2, <1>4 DEF Settles
<1> QED BY <1>1, <1>4, <1>5 DEF SettlesValue

\* A scalar, ...
LEMMA ScalarDue ==
  ASSUME NEW h, NEW p, NEW e, NEW q, Settles(h, p, e, q), NEW w \in Infos, NEW v \in VALUE,
         p[Len(p)] = Whole(h, AnyOf(w, v)), FieldInfo[w].ftype \in ScalarTypes
  PROVE  e.ev = "scalar" /\ Brings(e) = 0
<1>1. FieldInfo[w].ftype # "STRUCT" /\ FieldInfo[w].ftype # "MAP"
      /\ FieldInfo[w].ftype \notin SequenceTypes
  BY DEF ScalarTypes, SequenceTypes
<1>2. Header(h, AnyOf(w, v)) = <<e>>
  BY <1>1, ValueDue
<1>3. PICK s : s = Scalar(w, v)
  OBVIOUS
<1>4. Header(h, AnyOf(w, v)) = <<s>>
  BY <1>1, <1>3 DEF Header, AnyOf
<1>5. e = s
  BY <1>2, <1>4
<1> QED BY <1>3, <1>5 DEF Scalar, Brings

\* ... the items of a container, the last of them first, ...
LEMMA ItemDue ==
  ASSUME NEW h, IsHeap(h), NEW w \in Infos, NEW v \in VALUE,
         FieldInfo[w].ftype \in SequenceTypes \cup {"MAP"},
         NEW i \in Slots(h, AnyOf(w, v))
  PROVE  \E u \in VALUE : Callee(h, AnyOf(w, v), i) = AnyOf(ItemInfo(w, i), u)
<1>1. PICK a : a = AnyOf(w, v)
  OBVIOUS
<1>2. a.klass = NULL /\ a.info = w /\ a.val = v
  BY <1>1 DEF AnyOf
<1>3. FieldInfo[w].ftype # "STRUCT" /\ FieldInfo[w].ftype \notin ScalarTypes
  BY DEF SequenceTypes, ScalarTypes
<1>4. i \in DOMAIN h[v].items
  BY <1>1, <1>2, <1>3 DEF Slots
<1>5. h[v].items \in Seq(VALUE)
  BY DEF IsHeap, HeapRecord
<1>6. h[v].items[i] \in VALUE
  BY <1>4, <1>5
<1>7. Callee(h, a, i) = AnyOf(ItemInfo(w, i), h[v].items[i])
  BY <1>2, <1>3 DEF Callee
<1> QED BY <1>1, <1>6, <1>7

ElementsAreDue(h, q, n, k, w) ==
  \A i \in 1..k : \E u \in VALUE : q[n + i] = Whole(h, AnyOf(w, u))

\* What settles a list or a set: its header brings its elements.
LEMMA SequenceDue ==
  ASSUME NEW h, IsHeap(h), NEW p, NEW e, NEW q, Settles(h, p, e, q),
         NEW w \in Infos, NEW v \in VALUE,
         p[Len(p)] = Whole(h, AnyOf(w, v)), FieldInfo[w].ftype \in SequenceTypes
  PROVE  /\ e.ev = "list" /\ Brings(e) = e.size
         /\ e.elem = FieldInfo[FieldInfo[w].elementType].ftype
         /\ ElementsAreDue(h, q, Len(p) - 1, e.size, FieldInfo[w].elementType)
<1>1. FieldInfo[w].ftype # "STRUCT" /\ FieldInfo[w].ftype # "MAP"
      /\ FieldInfo[w].ftype \notin ScalarTypes
  BY DEF SequenceTypes, ScalarTypes
<1>2. /\ Header(h, AnyOf(w, v)) = <<e>>
      /\ \A i \in 1..Brings(e) :
           /\ Brings(e) + 1 - i \in Slots(h, AnyOf(w, v))
           /\ q[Len(p) - 1 + i] = Whole(h, Callee(h, AnyOf(w, v), Brings(e) + 1 - i))
  BY <1>1, ValueDue
<1>3. PICK s : s = ListBegin(w, Len(h[v].items))
  OBVIOUS
<1>4. Header(h, AnyOf(w, v)) = <<s>>
  BY <1>1, <1>3 DEF Header, AnyOf
<1>5. e = s
  BY <1>2, <1>4
<1>6. /\ e.ev = "list" /\ Brings(e) = e.size
      /\ e.elem = FieldInfo[FieldInfo[w].elementType].ftype
  BY <1>3, <1>5 DEF ListBegin, Brings
<1>7. ASSUME NEW i \in 1..e.size
      PROVE  \E u \in VALUE : q[Len(p) - 1 + i] = Whole(h, AnyOf(FieldInfo[w].elementType, u))
  <2>1. PICK j : j = Brings(e) + 1 - i
    OBVIOUS
  <2>2. j \in Slots(h, AnyOf(w, v)) /\ q[Len(p) - 1 + i] = Whole(h, Callee(h, AnyOf(w, v), j))
    BY <1>2, <1>6, <2>1
  <2>3. PICK u \in VALUE : Callee(h, AnyOf(w, v), j) = AnyOf(ItemInfo(w, j), u)
    BY <2>2, ItemDue
  <2>4. ItemInfo(w, j) = FieldInfo[w].elementType
    BY <1>1 DEF ItemInfo
  <2> QED BY <2>2, <2>3, <2>4
<1> QED BY <1>6, <1>7 DEF ElementsAreDue

PairsAreDue(h, q, n, k, f) ==
  \A i \in 1..k : \E u \in VALUE :
    q[n + i] = Whole(h, AnyOf(IF i % 2 = 0 THEN f.keyType ELSE f.elementType, u))

\* What settles a map: its header brings its keys and its values, in turn.
LEMMA MapDue ==
  ASSUME NEW h, IsHeap(h), NEW p, NEW e \in WireEvent, NEW q, Settles(h, p, e, q),
         NEW w \in Infos, NEW v \in VALUE,
         p[Len(p)] = Whole(h, AnyOf(w, v)), FieldInfo[w].ftype = "MAP"
  PROVE  /\ e.ev = "map" /\ Brings(e) = 2 * e.size /\ e.size \in Nat
         /\ e.key = FieldInfo[FieldInfo[w].keyType].ftype
         /\ e.elem = FieldInfo[FieldInfo[w].elementType].ftype
         /\ PairsAreDue(h, q, Len(p) - 1, 2 * e.size, FieldInfo[w])
<1>1. FieldInfo[w].ftype # "STRUCT" /\ FieldInfo[w].ftype \notin ScalarTypes
      /\ FieldInfo[w].ftype \notin SequenceTypes
  BY DEF SequenceTypes, ScalarTypes
<1>2. /\ Header(h, AnyOf(w, v)) = <<e>>
      /\ \A i \in 1..Brings(e) :
           /\ Brings(e) + 1 - i \in Slots(h, AnyOf(w, v))
           /\ q[Len(p) - 1 + i] = Whole(h, Callee(h, AnyOf(w, v), Brings(e) + 1 - i))
  BY <1>1, ValueDue
<1>3. PICK s : s = MapBegin(w, Len(h[v].items) \div 2)
  OBVIOUS
<1>4. Header(h, AnyOf(w, v)) = <<s>>
  BY <1>1, <1>3 DEF Header, AnyOf
<1>5. e = s
  BY <1>2, <1>4
<1>6. /\ e.ev = "map" /\ Brings(e) = 2 * e.size
      /\ e.key = FieldInfo[FieldInfo[w].keyType].ftype
      /\ e.elem = FieldInfo[FieldInfo[w].elementType].ftype
  BY <1>3, <1>5 DEF MapBegin, Brings
<1>7. e.size \in Nat
  BY <1>6, EventKinds
<1>8. ASSUME NEW i \in 1..2 * e.size
      PROVE  \E u \in VALUE : q[Len(p) - 1 + i] =
               Whole(h, AnyOf(IF i % 2 = 0 THEN FieldInfo[w].keyType
                                           ELSE FieldInfo[w].elementType, u))
  <2>1. PICK j : j = 2 * e.size + 1 - i
    OBVIOUS
  <2>2. j \in Slots(h, AnyOf(w, v)) /\ q[Len(p) - 1 + i] = Whole(h, Callee(h, AnyOf(w, v), j))
    BY <1>2, <1>6, <2>1
  <2>3. PICK u \in VALUE : Callee(h, AnyOf(w, v), j) = AnyOf(ItemInfo(w, j), u)
    BY <2>2, ItemDue
  <2>4. j % 2 = 1 <=> i % 2 = 0
    BY SMTT(40), <1>7, <2>1
  <2>5. ItemInfo(w, j) = IF i % 2 = 0 THEN FieldInfo[w].keyType ELSE FieldInfo[w].elementType
    BY <2>4 DEF ItemInfo
  <2> QED BY <2>2, <2>3, <2>5
<1> QED BY <1>6, <1>7, <1>8 DEF PairsAreDue

\* ... a struct or a union, which leaves nothing of its own.
LEMMA StructDue ==
  ASSUME NEW h, NEW w \in Infos, NEW v \in VALUE, FieldInfo[w].ftype = "STRUCT"
  PROVE  /\ Whole(h, AnyOf(w, v)).act = StructOf(FieldInfo[w].klass, v)
         /\ Whole(h, AnyOf(w, v)).last = 0
         /\ FieldInfo[w].klass \in Klasses
<1>1. FieldInfo[w].klass \in Klasses
  BY InfoIsWellFormed
<1>2. Wire(AnyOf(w, v)) = StructOf(FieldInfo[w].klass, v)
  BY DEF Wire, AnyOf
<1> QED BY <1>1, <1>2 DEF Whole

\* What settles a struct is the header of its next field, or the stop field.
LEMMA ObjectDue ==
  ASSUME NEW h, NEW p, NEW e, NEW q, Settles(h, p, e, q), NEW d, d = p[Len(p)],
         d.act.klass \in Klasses
  PROVE  /\ h[d.act.val].klass = d.act.klass
         /\ e.ev \in {"field", "stop"}
         /\ e.ev = "stop" => Brings(e) = 0
         /\ e.ev = "field" => Brings(e) = 2 /\ \E fid \in Int : SettlesField(h, p, e, q, fid)
<1>1. d.act.klass # NULL
  BY SchemaAssumption
<1>2. SettlesStruct(h, p, e, q)
  BY <1>1 DEF Settles
<1>3. CASE d.rest = {}
  <2>1. e = FieldStop
    BY <1>2, <1>3 DEF SettlesStruct
  <2> QED BY <1>2, <2>1 DEF SettlesStruct, FieldStop, Brings
<1>4. CASE d.rest # {}
  <2>1. PICK fid \in Int : SettlesField(h, p, e, q, fid)
    BY <1>2, <1>4 DEF SettlesStruct
  <2>2. e.ev = "field"
    BY <2>1 DEF SettlesField, FieldBegin
  <2> QED BY <1>2, <2>1, <2>2 DEF SettlesStruct, Brings
<1> QED BY <1>3, <1>4

FieldIsDue(h, d, e, q, n, fid) ==
  /\ fid \in d.rest /\ fid \in Present(h, d.act.klass, d.act.val)
  /\ fid \in Fids(d.act.klass) /\ InfoOf(d.act.klass, fid) \in Infos
  /\ e.type = FieldInfo[InfoOf(d.act.klass, fid)].ftype
  /\ e.fid = fid
  /\ e.delta = IF fid - d.last \in 1..15 THEN fid - d.last ELSE 0
  /\ q[n].act = d.act /\ q[n].last = fid /\ q[n].rest = d.rest \ {fid}
  /\ \E v \in VALUE : q[n + 1] = Whole(h, AnyOf(InfoOf(d.act.klass, fid), v))

\* What settles an object by a field: the header of the field, then its value is due.
LEMMA FieldDue ==
  ASSUME NEW h, NEW p, NEW e, NEW q, NEW fid, SettlesField(h, p, e, q, fid),
         NEW d, d = p[Len(p)], d.act.klass \in Klasses, d.act.val \in VALUE, IsHeap(h)
  PROVE  FieldIsDue(h, d, e, q, Len(p), fid)
<1>1. /\ fid \in d.rest /\ fid \in Present(h, d.act.klass, d.act.val)
      /\ e = FieldBegin(InfoOf(d.act.klass, fid), fid, d.last)
      /\ q[Len(p)] = [act |-> d.act, last |-> fid, rest |-> d.rest \ {fid}]
      /\ q[Len(p) + 1] = Whole(h, Callee(h, d.act, fid))
  BY DEF SettlesField, IsFirst
<1>2. fid \in Fids(d.act.klass)
  BY <1>1 DEF Present
<1>3. InfoOf(d.act.klass, fid) \in Infos /\ FieldInfo[InfoOf(d.act.klass, fid)].symName \in Names
  BY <1>2, FieldHasInfo
<1>4. IvarGet(h, d.act.val, InfoOf(d.act.klass, fid)) \in VALUE
  BY <1>3 DEF IvarGet, IsHeap, HeapRecord
<1>5. d.act.klass # NULL
  BY SchemaAssumption
<1>6. Callee(h, d.act, fid) = AnyOf(InfoOf(d.act.klass, fid), IvarGet(h, d.act.val, InfoOf(d.act.klass, fid)))
  BY <1>5 DEF Callee
<1>7. /\ e.type = FieldInfo[InfoOf(d.act.klass, fid)].ftype
      /\ e.fid = fid
      /\ e.delta = IF fid - d.last \in 1..15 THEN fid - d.last ELSE 0
  BY <1>1 DEF FieldBegin
<1> QED BY <1>1, <1>2, <1>3, <1>4, <1>6, <1>7 DEF FieldIsDue

\* The next event, and what is due before and after it.
LEMMA AtEvent ==
  ASSUME NEW due, Follows(due), rres.st = "running", rstack # <<>>, pos <= Len(input)
  PROVE  \E p, a : \E q \in Seq(Due) :
           /\ p = due[pos - 1] /\ TopIsToRead(p, a)
           /\ q = due[pos] /\ Settles(heap, p, R!Event, q) /\ R!Event \in WireEvent
           /\ p[Len(p)] \in Due /\ Len(p) \in Nat \ {0} /\ a \in Nat /\ Len(q) \in Nat
           /\ Len(q) = Len(p) - 1 + Brings(R!Event)
           /\ \A i \in 1..Len(p) - 1 : q[i] = p[i]
<1>1. PICK p, a : p = due[pos - 1] /\ TopIsToRead(p, a)
  BY TopDue
<1>2. PICK q \in Seq(Due) : /\ q = due[pos] /\ Settles(heap, p, R!Event, q)
                            /\ R!Event \in WireEvent
  BY <1>1, EventDue
<1>3. p # <<>> /\ Len(q) = Len(p) - 1 + Brings(R!Event) /\ \A i \in 1..Len(p) - 1 : q[i] = p[i]
  BY <1>2 DEF Settles
<1>4. p \in Seq(Due) /\ a \in 0..Len(p) /\ Len(p) \in Nat /\ Len(q) \in Nat
  BY <1>1, LenProperties DEF TopIsToRead
<1>5. Len(p) \in Nat \ {0} /\ Len(p) \in 1..Len(p)
  BY <1>3, <1>4, EmptySeq
<1>6. p[Len(p)] \in Due
  BY <1>4, <1>5, ElementOfSeq
<1>7. a \in Nat
  BY <1>4
<1> QED BY <1>1, <1>2, <1>3, <1>4, <1>5, <1>6, <1>7

\* What a reader that is told a header finds.
FieldRead(fid, k, v, q, a) ==
  /\ fid \in Fids(k) /\ InfoOf(k, fid) \in Infos /\ fid \in Present(heap, k, v)
  /\ R!FieldId(R!Top.last) = fid /\ R!Event.type = FieldInfo[InfoOf(k, fid)].ftype
  /\ Len(q) = a + 2
  /\ q[a + 1].act.klass = k /\ q[a + 1].act.val = v
  /\ q[a + 1].last = fid /\ fid \notin q[a + 1].rest
  /\ \E x \in VALUE : q[a + 2] = Whole(heap, AnyOf(InfoOf(k, fid), x))
  /\ R!Top.fn = "union" /\ R!Top.pc # "first" =>
       R!Top.last \in Present(heap, k, v) /\ R!Top.last # fid

HeaderRead(due, p, a, q, k, v) ==
  /\ p = due[pos - 1] /\ TopIsToRead(p, a) /\ q = due[pos] /\ q \in Seq(Due)
  /\ a \in Nat /\ Len(q) \in Nat /\ \A i \in 1..a : q[i] = p[i]
  /\ k \in Klasses /\ v \in VALUE
  /\ R!Top.klass \in Compatible[k] /\ heap[v].klass = k
  /\ R!Event.ev \in {"field", "stop"}
  /\ R!Event.ev = "stop" => Len(q) = a
  /\ R!Event.ev = "field" => \E fid : FieldRead(fid, k, v, q, a)
  /\ R!Top.fn = "union" => R!Top.pc # "leaving"

\* A frame that is at a header finds there what its object has due.
LEMMA HeaderDue ==
  ASSUME NEW due, Follows(due), rres.st = "running", rstack # <<>>, HasObject(R!Top),
         pos <= Len(input)
  PROVE  \E p, a, q, k, v : HeaderRead(due, p, a, q, k, v)
<1>1. PICK p, a : \E q \in Seq(Due) :
           /\ p = due[pos - 1] /\ TopIsToRead(p, a)
           /\ q = due[pos] /\ Settles(heap, p, R!Event, q) /\ R!Event \in WireEvent
           /\ p[Len(p)] \in Due /\ Len(p) \in Nat \ {0} /\ a \in Nat /\ Len(q) \in Nat
           /\ Len(q) = Len(p) - 1 + Brings(R!Event)
           /\ \A i \in 1..Len(p) - 1 : q[i] = p[i]
  BY AtEvent
<1>2. PICK q \in Seq(Due) :
           /\ p = due[pos - 1] /\ TopIsToRead(p, a)
           /\ q = due[pos] /\ Settles(heap, p, R!Event, q) /\ R!Event \in WireEvent
           /\ p[Len(p)] \in Due /\ Len(p) \in Nat \ {0} /\ a \in Nat /\ Len(q) \in Nat
           /\ Len(q) = Len(p) - 1 + Brings(R!Event)
           /\ \A i \in 1..Len(p) - 1 : q[i] = p[i]
  BY <1>1
<1>3. PICK f, d, e : f = R!Top /\ d = p[Len(p)] /\ e = R!Event
  OBVIOUS
<1>4. IsToRead(heap, f, p, a, Len(p)) /\ IsHeap(heap)
  BY <1>2, <1>3 DEF TopIsToRead, Follows
<1>5. Len(p) = a + 1 /\ ReadsObject(heap, f, d)
  BY <1>3, <1>4 DEF IsToRead
<1>6. /\ d.act.klass \in Klasses /\ f.klass \in Compatible[d.act.klass] /\ f.last = d.last
      /\ f.fn = "union" =>
           /\ f.pc # "leaving"
           /\ f.pc # "first" => f.last \in Present(heap, d.act.klass, d.act.val) \ d.rest
  BY <1>5 DEF ReadsObject
<1>7. PICK k, v : k = d.act.klass /\ v = d.act.val
  OBVIOUS
<1>8. k \in Klasses /\ v \in VALUE /\ d.last \in Int
  BY <1>2, <1>3, <1>6, <1>7, SchemaAssumption DEF Due, Activation
<1>9. /\ heap[v].klass = k /\ e.ev \in {"field", "stop"}
      /\ e.ev = "stop" => Brings(e) = 0
      /\ e.ev = "field" => Brings(e) = 2 /\ \E fid \in Int : SettlesField(heap, p, e, q, fid)
  BY <1>2, <1>3, <1>7, <1>8, ObjectDue
<1>10. e.ev = "stop" => Len(q) = a
  BY <1>2, <1>3, <1>5, <1>9
<1>11. ASSUME e.ev = "field" PROVE \E fid : FieldRead(fid, k, v, q, a)
  <2>1. PICK fid \in Int : SettlesField(heap, p, e, q, fid)
    BY <1>9, <1>11
  <2>2. /\ fid \in d.rest /\ fid \in Present(heap, k, v)
        /\ fid \in Fids(k) /\ InfoOf(k, fid) \in Infos
        /\ e.type = FieldInfo[InfoOf(k, fid)].ftype
        /\ e.fid = fid
        /\ e.delta = IF fid - d.last \in 1..15 THEN fid - d.last ELSE 0
        /\ q[Len(p)].act = d.act /\ q[Len(p)].last = fid /\ q[Len(p)].rest = d.rest \ {fid}
        /\ \E x \in VALUE : q[Len(p) + 1] = Whole(heap, AnyOf(InfoOf(k, fid), x))
    <3>1. d.act.klass \in Klasses /\ d.act.val \in VALUE /\ d = p[Len(p)]
      BY <1>3, <1>7, <1>8
    <3>2. FieldIsDue(heap, d, e, q, Len(p), fid)
      BY <1>4, <2>1, <3>1, FieldDue
    <3> QED BY <1>7, <3>2 DEF FieldIsDue
  <2>3. R!FieldId(f.last) = fid
    BY <1>3, <1>6, <1>8, <2>2 DEF R!FieldId
  <2>4. Len(q) = a + 2
    BY <1>2, <1>3, <1>5, <1>9, <1>11
  <2>5. q[a + 1] = q[Len(p)] /\ q[a + 2] = q[Len(p) + 1]
    BY <1>2, <1>5
  <2>6. f.fn = "union" /\ f.pc # "first" => f.last \in Present(heap, k, v) /\ f.last # fid
    BY <1>6, <1>7, <2>2
  <2>7. fid \notin q[a + 1].rest /\ q[a + 1].act.klass = k /\ q[a + 1].act.val = v
        /\ q[a + 1].last = fid
    BY <1>7, <2>2, <2>5
  <2>8. \E x \in VALUE : q[a + 2] = Whole(heap, AnyOf(InfoOf(k, fid), x))
    BY <2>2, <2>5
  <2>9. FieldRead(fid, k, v, q, a)
    BY <1>3, <2>2, <2>3, <2>4, <2>6, <2>7, <2>8 DEF FieldRead
  <2> QED BY <2>9
<1>12. \A i \in 1..a : q[i] = p[i]
  BY <1>2, <1>5
<1>13. HeaderRead(due, p, a, q, k, v)
  BY <1>2, <1>3, <1>6, <1>7, <1>8, <1>9, <1>10, <1>11, <1>12 DEF HeaderRead
<1> QED BY <1>13

\* The classes and the FieldInfos that understand those written.
LEMMA ClassFits ==
  ASSUME Understandable, NEW k \in Klasses, NEW r \in Compatible[k]
  PROVE  /\ r \in Klasses
         /\ r \in Unions => k \in Unions /\ Fids(k) \subseteq Fids(r)
         /\ \A fid \in Fids(k) \cap Fids(r) : InfoOf(r, fid) \in InfoReaders[InfoOf(k, fid)]
BY InfoReadersFit DEF Fits

LEMMA InfoFits ==
  ASSUME Understandable, NEW w \in Infos, NEW r \in InfoReaders[w]
  PROVE  /\ r \in Infos /\ FieldInfo[r].ftype = FieldInfo[w].ftype
         /\ FieldInfo[w].ftype = "STRUCT" => FieldInfo[r].klass \in Compatible[FieldInfo[w].klass]
         /\ FieldInfo[w].ftype \in SequenceTypes
            /\ FieldInfo[FieldInfo[r].elementType].ftype
                 = FieldInfo[FieldInfo[w].elementType].ftype
              => FieldInfo[r].elementType \in InfoReaders[FieldInfo[w].elementType]
         /\ FieldInfo[w].ftype = "MAP" =>
              /\ FieldInfo[r].keyType \in InfoReaders[FieldInfo[w].keyType]
              /\ FieldInfo[r].elementType \in InfoReaders[FieldInfo[w].elementType]
BY InfoReadersFit DEF Fits

\* A frame goes on with its object, another reads or skips the field's value.
LEMMA ObjectGoesOn ==
  ASSUME NEW k \in Klasses, NEW v \in VALUE, NEW fid, NEW q, NEW a \in Nat,
         FieldRead(fid, k, v, q, a), NEW f, HasObject(f), f.klass \in Compatible[k],
         f.last = fid, f.fn = "union" => f.pc # "leaving"
  PROVE  IsToRead(heap, f, q, a, a + 1)
<1>1. /\ q[a + 1].act.klass = k /\ q[a + 1].act.val = v
      /\ q[a + 1].last = fid /\ fid \notin q[a + 1].rest
      /\ fid \in Present(heap, k, v)
  BY DEF FieldRead
<1>2. ReadsObject(heap, f, q[a + 1])
  BY <1>1 DEF ReadsObject
<1> QED BY <1>2 DEF IsToRead, HasObject

LEMMA AnyIsToRead ==
  ASSUME Understandable, NEW k \in Klasses, NEW v \in VALUE, NEW fid, NEW q, NEW a \in Nat,
         FieldRead(fid, k, v, q, a), NEW r \in Compatible[k], fid \in Fids(r),
         NEW g, g = R!AnyFrame(R!Event.type, InfoOf(r, fid))
  PROVE  IsToRead(heap, g, q, a + 1, Len(q))
<1>1. /\ fid \in Fids(k) /\ InfoOf(k, fid) \in Infos /\ Len(q) = a + 2
      /\ R!Event.type = FieldInfo[InfoOf(k, fid)].ftype
      /\ \E x \in VALUE : q[a + 2] = Whole(heap, AnyOf(InfoOf(k, fid), x))
  BY DEF FieldRead
<1>2. InfoOf(r, fid) \in InfoReaders[InfoOf(k, fid)]
  BY <1>1, ClassFits
<1>3. g.fn = "any" /\ g.type = FieldInfo[InfoOf(k, fid)].ftype /\ g.info = InfoOf(r, fid)
  BY <1>1 DEF R!AnyFrame
<1>4. ReadsValue(heap, g.type, g.info, q[a + 2])
  BY <1>1, <1>2, <1>3 DEF ReadsValue
<1>5. Len(q) = (a + 1) + 1
  BY <1>1
<1> QED BY <1>1, <1>3, <1>4, <1>5 DEF IsToRead, HasObject

\* readStruct reads a field header.
LEMMA ReadFieldProgress ==
  ASSUME NEW due, Follows(due), Steady, R!ReadField
  PROVE  Progress(due)'
<1>1. /\ rres.st = "running" /\ rstack # <<>> /\ R!Top.fn = "struct" /\ HasObject(R!Top)
      /\ pos <= Len(input) /\ pos' = pos + 1
  BY DEF R!ReadField, R!Reading, R!Expecting, HasObject
<1>2. rstack \in Seq(RFrame) /\ Understandable
  BY DEF Follows, ReaderTypes
<1>3. PICK p, a, q, k, v : HeaderRead(due, p, a, q, k, v)
  BY <1>1, HeaderDue
<1>4. /\ p = due[pos - 1] /\ TopIsToRead(p, a) /\ q = due[pos] /\ q \in Seq(Due)
      /\ a \in Nat /\ Len(q) \in Nat /\ \A i \in 1..a : q[i] = p[i]
      /\ k \in Klasses /\ v \in VALUE
      /\ R!Top.klass \in Compatible[k]
      /\ R!Event.ev \in {"field", "stop"}
      /\ R!Event.ev = "stop" => Len(q) = a
      /\ R!Event.ev = "field" => \E fid : FieldRead(fid, k, v, q, a)
  BY <1>3 DEF HeaderRead
<1>5. CASE R!Event.ev = "stop"
  <2>1. rstack' = R!Pop /\ rres'.st = "running"
    BY <1>1, <1>5 DEF R!ReadField, R!Return
  <2>2. ReadShare(heap, rstack', q, Len(rstack'), Len(q))
    BY <1>1, <1>2, <1>4, <1>5, <2>1, ShareOfPopped
  <2> QED BY <1>1, <1>4, <2>1, <2>2, Advances
<1>6. CASE R!Event.ev = "field"
  <2>1. PICK fid : FieldRead(fid, k, v, q, a)
    BY <1>4, <1>6
  <2>2. /\ R!FieldId(R!Top.last) = fid /\ fid \in Fids(k) /\ Len(q) = a + 2
        /\ R!Event.type = FieldInfo[InfoOf(k, fid)].ftype /\ InfoOf(k, fid) \in Infos
    BY <2>1 DEF FieldRead
  <2>3. PICK r : r = R!Top.klass
    OBVIOUS
  <2>4. R!Top \in ObjectFrames
    BY <1>1, <1>2, TopKinds
  <2>5. CASE fid \notin Fids(r)
    <3>1. PICK f, g : f = [R!Top EXCEPT !.last = fid] /\ g = R!SkipFrame(1, <<>>)
      OBVIOUS
    <3>2. rstack' = Append(R!WithTop(f), g) /\ rres'.st = "running"
      BY <1>1, <1>6, <2>2, <2>3, <2>5, <3>1 DEF R!ReadField, Fids, R!Fids
    <3>3. f.fn = "struct" /\ f.klass = r /\ f.last = fid
      BY <1>1, <2>3, <2>4, <3>1 DEF ObjectFrames
    <3>4. IsToRead(heap, f, q, a, a + 1)
      BY <1>4, <2>1, <2>3, <3>3, ObjectGoesOn DEF HasObject
    <3>5. g.fn = "skip" /\ g.left = 1
      BY <3>1 DEF R!SkipFrame
    <3>6. IsToRead(heap, g, q, a + 1, Len(q))
      BY <1>4, <2>2, <3>5 DEF IsToRead, HasObject
    <3>7. PICK c \in a..Len(q) : c = a + 1
      BY <1>4, <2>2
    <3>8. ReadShare(heap, rstack', q, Len(rstack'), Len(q))
      <4>1. IsToRead(heap, f, q, a, c) /\ IsToRead(heap, g, q, c, Len(q))
        BY <3>4, <3>6, <3>7
      <4>2. rstack' = Append(R!WithTop(f), g)
        BY <3>2
      <4>3. TopIsToRead(p, a) /\ q \in Seq(Due) /\ \A j \in 1..a : q[j] = p[j]
        BY <1>4
      <4> QED BY <1>1, <1>2, <4>1, <4>2, <4>3, ShareOfPushed
    <3> QED BY <1>1, <1>4, <3>2, <3>8, Advances
  <2>6. CASE fid \in Fids(r)
    <3>1. PICK i : i = InfoOf(r, fid)
      OBVIOUS
    <3>2. i \in InfoReaders[InfoOf(k, fid)]
      BY <1>2, <1>4, <2>2, <2>3, <2>6, <3>1, ClassFits
    <3>3. FieldInfo[i].ftype = R!Event.type
      BY <1>2, <2>2, <3>2, InfoFits
    <3>4. PICK f, g : f = [R!Top EXCEPT !.last = fid, !.info = i] /\ g = R!AnyFrame(R!Event.type, i)
      OBVIOUS
    <3>5. rstack' = Append(R!WithTop(f), g) /\ rres'.st = "running"
      BY <1>1, <1>6, <2>2, <2>3, <2>6, <3>1, <3>3, <3>4
         DEF R!ReadField, R!TypesMatch, Fids, R!Fids, InfoOf, R!InfoOf
    <3>6. f.fn = "struct" /\ f.klass = r /\ f.last = fid
      BY <1>1, <2>3, <2>4, <3>4 DEF ObjectFrames
    <3>7. IsToRead(heap, f, q, a, a + 1)
      BY <1>4, <2>1, <2>3, <3>6, ObjectGoesOn DEF HasObject
    <3>8. IsToRead(heap, g, q, a + 1, Len(q))
      BY <1>2, <1>4, <2>1, <2>3, <2>6, <3>1, <3>4, AnyIsToRead
    <3>9. PICK c \in a..Len(q) : c = a + 1
      BY <1>4, <2>2
    <3>10. ReadShare(heap, rstack', q, Len(rstack'), Len(q))
      <4>1. IsToRead(heap, f, q, a, c) /\ IsToRead(heap, g, q, c, Len(q))
        BY <3>7, <3>8, <3>9
      <4>2. rstack' = Append(R!WithTop(f), g)
        BY <3>5
      <4>3. TopIsToRead(p, a) /\ q \in Seq(Due) /\ \A j \in 1..a : q[j] = p[j]
        BY <1>4
      <4> QED BY <1>1, <1>2, <4>1, <4>2, <4>3, ShareOfPushed
    <3> QED BY <1>1, <1>4, <3>5, <3>10, Advances
  <2> QED BY <2>5, <2>6
<1> QED BY <1>4, <1>5, <1>6

\* readUnion reads its first header: it knows the field.
LEMMA ReadUnionFieldProgress ==
  ASSUME NEW due, Follows(due), Steady, R!ReadUnionField
  PROVE  Progress(due)'
<1>1. /\ rres.st = "running" /\ rstack # <<>> /\ R!Top.fn = "union" /\ HasObject(R!Top)
      /\ pos <= Len(input) /\ pos' = pos + 1 /\ rres' = rres
  BY DEF R!ReadUnionField, R!Reading, R!Expecting, HasObject
<1>2. rstack \in Seq(RFrame) /\ Understandable
  BY DEF Follows, ReaderTypes
<1>3. PICK p, a, q, k, v : HeaderRead(due, p, a, q, k, v)
  BY <1>1, HeaderDue
<1>4. /\ p = due[pos - 1] /\ TopIsToRead(p, a) /\ q = due[pos] /\ q \in Seq(Due)
      /\ a \in Nat /\ Len(q) \in Nat /\ \A i \in 1..a : q[i] = p[i]
      /\ k \in Klasses /\ v \in VALUE
      /\ R!Top.klass \in Compatible[k]
      /\ R!Event.ev \in {"field", "stop"}
      /\ R!Event.ev = "stop" => Len(q) = a
      /\ R!Event.ev = "field" => \E fid : FieldRead(fid, k, v, q, a)
  BY <1>3 DEF HeaderRead
<1>5. CASE R!Event.ev = "stop"
  <2>1. rstack' = R!Pop
    BY <1>1, <1>5 DEF R!ReadUnionField, R!Return
  <2>2. ReadShare(heap, rstack', q, Len(rstack'), Len(q))
    BY <1>1, <1>2, <1>4, <1>5, <2>1, ShareOfPopped
  <2> QED BY <1>1, <1>4, <2>2, Advances
<1>6. CASE R!Event.ev = "field"
  <2>1. PICK fid : FieldRead(fid, k, v, q, a)
    BY <1>4, <1>6
  <2>2. /\ R!FieldId(R!Top.last) = fid /\ fid \in Fids(k) /\ Len(q) = a + 2
    BY <2>1 DEF FieldRead
  <2>3. PICK r : r = R!Top.klass
    OBVIOUS
  <2>4. R!Top \in ObjectFrames
    BY <1>1, <1>2, TopKinds
  <2>5. r \in Unions
    BY <1>1, <2>3, <2>4 DEF ObjectFrames
  <2>6. fid \in Fids(r)
    BY <1>2, <1>4, <2>2, <2>3, <2>5, ClassFits
  <2>7. PICK w : w = InfoOf(r, fid)
    OBVIOUS
  <2>8. PICK f, g : /\ f = [R!Top EXCEPT !.pc = "value", !.info = w, !.last = fid]
                    /\ g = R!AnyFrame(R!Event.type, w)
    OBVIOUS
  <2>9. rstack' = Append(R!WithTop(f), g)
    BY <1>1, <1>6, <2>2, <2>3, <2>6, <2>7, <2>8
       DEF R!ReadUnionField, Fids, R!Fids, InfoOf, R!InfoOf
  <2>10. f.fn = "union" /\ f.klass = r /\ f.last = fid /\ f.pc = "value"
    BY <1>1, <2>3, <2>4, <2>8 DEF ObjectFrames
  <2>11. IsToRead(heap, f, q, a, a + 1)
    BY <1>4, <2>1, <2>3, <2>10, ObjectGoesOn DEF HasObject
  <2>12. IsToRead(heap, g, q, a + 1, Len(q))
    BY <1>2, <1>4, <2>1, <2>3, <2>6, <2>7, <2>8, AnyIsToRead
  <2>13. PICK c \in a..Len(q) : c = a + 1
    BY <1>4, <2>2
  <2>14. ReadShare(heap, rstack', q, Len(rstack'), Len(q))
    <3>1. IsToRead(heap, f, q, a, c) /\ IsToRead(heap, g, q, c, Len(q))
      BY <2>11, <2>12, <2>13
    <3>2. TopIsToRead(p, a) /\ q \in Seq(Due) /\ \A j \in 1..a : q[j] = p[j]
      BY <1>4
    <3> QED BY <1>1, <1>2, <2>9, <3>1, <3>2, ShareOfPushed
  <2> QED BY <1>1, <1>4, <2>14, Advances
<1> QED BY <1>4, <1>5, <1>6

\* Two fields of a union that was written.
LEMMA SecondField ==
  ASSUME Understandable, NEW k \in Klasses, NEW v \in VALUE, NEW r \in Compatible[k],
         r \in Unions, heap[v].klass = k, NEW m, NEW n, m # n,
         m \in Present(heap, k, v), n \in Present(heap, k, v)
  PROVE  TwoFields(v)
<1>1. k \in Unions
  BY ClassFits
<1>2. m \in Fids(k) /\ n \in Fids(k)
  BY DEF Present
<1>3. PICK x, y : x = FieldInfo[InfoOf(k, m)].symName /\ y = FieldInfo[InfoOf(k, n)].symName
  OBVIOUS
<1>4. x \in Names /\ y \in Names /\ x # y
  BY <1>2, <1>3, FieldHasInfo, RoundTripAssumption
<1>5. heap[v].ivars[x] # nil /\ heap[v].ivars[y] # nil
  BY <1>3 DEF Present, IvarGet
<1> QED BY <1>1, <1>4, <1>5 DEF TwoFields

\* It reads the stop field, or refuses a second one.
LEMMA ReadUnionStopProgress ==
  ASSUME NEW due, Follows(due), Steady, R!ReadUnionStop
  PROVE  Progress(due)'
<1>1. /\ rres.st = "running" /\ rstack # <<>> /\ R!Top.fn = "union" /\ HasObject(R!Top)
      /\ R!Top.pc = "second" /\ pos <= Len(input) /\ pos' = pos + 1
  BY DEF R!ReadUnionStop, R!Reading, R!Expecting, HasObject
<1>2. rstack \in Seq(RFrame) /\ Understandable
  BY DEF Follows, ReaderTypes
<1>3. PICK p, a, q, k, v : HeaderRead(due, p, a, q, k, v)
  BY <1>1, HeaderDue
<1>4. /\ p = due[pos - 1] /\ TopIsToRead(p, a) /\ q = due[pos] /\ q \in Seq(Due)
      /\ a \in Nat /\ Len(q) \in Nat /\ \A i \in 1..a : q[i] = p[i]
      /\ k \in Klasses /\ v \in VALUE /\ heap[v].klass = k
      /\ R!Top.klass \in Compatible[k]
      /\ R!Event.ev \in {"field", "stop"}
      /\ R!Event.ev = "stop" => Len(q) = a
      /\ R!Event.ev = "field" => \E fid : FieldRead(fid, k, v, q, a)
  BY <1>3 DEF HeaderRead
<1>5. CASE R!Event.ev = "stop"
  <2>1. rstack' = R!Pop /\ rres' = rres
    BY <1>1, <1>5 DEF R!ReadUnionStop, R!Return
  <2>2. ReadShare(heap, rstack', q, Len(rstack'), Len(q))
    BY <1>1, <1>2, <1>4, <1>5, <2>1, ShareOfPopped
  <2> QED BY <1>1, <1>4, <2>1, <2>2, Advances
<1>6. CASE R!Event.ev = "field"
  <2>1. PICK fid : FieldRead(fid, k, v, q, a)
    BY <1>4, <1>6
  <2>2. /\ fid \in Present(heap, k, v) /\ R!Top.last \in Present(heap, k, v)
        /\ R!Top.last # fid
    BY <1>1, <2>1 DEF FieldRead
  <2>3. R!Top \in ObjectFrames
    BY <1>1, <1>2, TopKinds
  <2>4. R!Top.klass \in Unions
    BY <1>1, <2>3 DEF ObjectFrames
  <2>5. PICK r : r = R!Top.klass
    OBVIOUS
  <2>6. TwoFields(v)
    BY <1>2, <1>4, <2>2, <2>4, <2>5, SecondField
  <2>7. rres' = R!End("raised", "UnionException")
    BY <1>1, <1>6 DEF R!ReadUnionStop
  <2>8. rres'.st = "raised" /\ rres'.exc = "UnionException"
    BY <2>7 DEF R!End, R!Running
  <2>9. TwoFields(v)'
    BY <2>6 DEF Steady, TwoFields
  <2>10. pos' - 1 <= Len(input')
    BY <1>1, WhereItIs DEF Steady
  <2> QED BY <1>4, <2>8, <2>9, <2>10 DEF Progress
<1> QED BY <1>4, <1>5, <1>6

\* Nothing makes it leave its stop field behind.
LEMMA LeavesNothing ==
  ASSUME NEW due, Follows(due)
  PROVE  ~R!LeaveUnion
<1> SUFFICES ASSUME R!LeaveUnion PROVE FALSE
  OBVIOUS
<1>1. rres.st = "running" /\ rstack # <<>> /\ R!Top.fn = "union" /\ R!Top.pc = "leaving"
  BY DEF R!LeaveUnion, R!Reading
<1>2. PICK p, a : TopIsToRead(p, a)
  BY <1>1, TopDue
<1>3. IsToRead(heap, R!Top, p, a, Len(p))
  BY <1>2 DEF TopIsToRead
<1>4. ReadsObject(heap, R!Top, p[Len(p)])
  BY <1>1, <1>3 DEF IsToRead, HasObject
<1> QED BY <1>1, <1>4 DEF ReadsObject

\* What is read is stored.
LEMMA StackStays ==
  ASSUME NEW due, Follows(due), Steady, pos' = pos, rres.st = "running", rres' = rres,
         rstack' = rstack
  PROVE  Progress(due)'
<1>1. PICK p : p = due[pos - 1]
  OBVIOUS
<1>2. ReadShare(heap, rstack', p, Len(rstack'), Len(p))
  BY <1>1 DEF Follows, Progress
<1> QED BY <1>1, <1>2, StandsStill

\* readUnion stores what it has read.
LEMMA StoreUnionFieldProgress ==
  ASSUME NEW due, Follows(due), Steady, R!StoreUnionField
  PROVE  Progress(due)'
<1>1. /\ rres.st = "running" /\ rstack # <<>> /\ R!Top.fn = "union" /\ HasObject(R!Top)
      /\ R!Top.pc = "value" /\ pos' = pos /\ rres' = rres
  BY DEF R!StoreUnionField, R!Reading, HasObject
<1>2. rstack \in Seq(RFrame)
  BY DEF Follows, ReaderTypes
<1>3. PICK p, a : p = due[pos - 1] /\ TopIsToRead(p, a)
  BY <1>1, TopDue
<1>4. p \in Seq(Due) /\ a \in 0..Len(p) /\ IsToRead(heap, R!Top, p, a, Len(p)) /\ Len(p) \in Nat
  BY <1>3, LenProperties DEF TopIsToRead
<1>5. PICK f : f = [R!Top EXCEPT !.pc = "second"]
  OBVIOUS
<1>6. rstack' = R!WithTop(f)
  BY <1>5 DEF R!StoreUnionField
<1>7. R!Top \in ObjectFrames
  BY <1>1, <1>2, TopKinds
<1>8. f.fn = "union" /\ f.pc = "second" /\ f.klass = R!Top.klass /\ f.last = R!Top.last
  BY <1>1, <1>5, <1>7 DEF ObjectFrames
<1>9. IsToRead(heap, f, p, a, Len(p))
  BY <1>1, <1>4, <1>8 DEF IsToRead, ReadsObject, HasObject
<1>10. ReadShare(heap, rstack', p, Len(rstack'), Len(p))
  BY <1>1, <1>2, <1>3, <1>4, <1>6, <1>9, ShareOfReplaced
<1> QED BY <1>1, <1>3, <1>10, StandsStill

\* readAny has a value to read.
AnyRead(due, p, a, w, v) ==
  /\ p = due[pos - 1] /\ TopIsToRead(p, a) /\ p \in Seq(Due) /\ a \in Nat
  /\ Len(p) = a + 1 /\ p[Len(p)] = Whole(heap, AnyOf(w, v))
  /\ w \in Infos /\ v \in VALUE
  /\ R!Top.type = FieldInfo[w].ftype /\ R!Top.info \in InfoReaders[w]

\* readAny finds a value there that its info may read.
LEMMA AnyDue ==
  ASSUME NEW due, Follows(due), rres.st = "running", rstack # <<>>, R!Top.fn = "any"
  PROVE  \E p, a, w, v : AnyRead(due, p, a, w, v)
<1>1. PICK p, a : p = due[pos - 1] /\ TopIsToRead(p, a)
  BY TopDue
<1>2. p \in Seq(Due) /\ a \in 0..Len(p) /\ IsToRead(heap, R!Top, p, a, Len(p)) /\ Len(p) \in Nat
  BY <1>1, LenProperties DEF TopIsToRead
<1>3. Len(p) = a + 1 /\ ReadsValue(heap, R!Top.type, R!Top.info, p[Len(p)])
  BY <1>2 DEF IsToRead
<1>4. PICK w \in Infos, v \in VALUE :
        /\ p[Len(p)] = Whole(heap, AnyOf(w, v))
        /\ R!Top.type = FieldInfo[w].ftype /\ R!Top.info \in InfoReaders[w]
  BY <1>3 DEF ReadsValue
<1>5. a \in Nat
  BY <1>2
<1>6. AnyRead(due, p, a, w, v)
  BY <1>1, <1>2, <1>3, <1>4, <1>5 DEF AnyRead
<1> QED BY <1>6

\* A scalar is read.
LEMMA ReadScalarProgress ==
  ASSUME NEW due, Follows(due), Steady, R!ReadScalar
  PROVE  Progress(due)'
<1>1. /\ rres.st = "running" /\ rstack # <<>> /\ R!Top.fn = "any"
      /\ R!Top.type \in ScalarTypes /\ pos <= Len(input) /\ pos' = pos + 1 /\ rres' = rres
      /\ rstack' = R!Pop
  BY DEF R!ReadScalar, R!Reading, R!Expecting, R!Return, ScalarTypes, R!ScalarTypes
<1>2. rstack \in Seq(RFrame)
  BY DEF Follows, ReaderTypes
<1>3. PICK p, a, w, v : AnyRead(due, p, a, w, v)
  BY <1>1, AnyDue
<1>4. /\ p = due[pos - 1] /\ TopIsToRead(p, a) /\ p \in Seq(Due) /\ a \in Nat
      /\ Len(p) = a + 1 /\ p[Len(p)] = Whole(heap, AnyOf(w, v))
      /\ w \in Infos /\ v \in VALUE /\ FieldInfo[w].ftype \in ScalarTypes
  BY <1>1, <1>3 DEF AnyRead
<1>5. PICK q \in Seq(Due) : /\ q = due[pos] /\ Settles(heap, p, R!Event, q)
                            /\ R!Event \in WireEvent
  BY <1>1, <1>4, EventDue
<1>6. PICK e : e = R!Event
  OBVIOUS
<1>7. Brings(e) = 0
  BY <1>4, <1>5, <1>6, ScalarDue
<1>8. Len(q) = a /\ \A i \in 1..a : q[i] = p[i]
  BY <1>4, <1>5, <1>6, <1>7 DEF Settles
<1>9. ReadShare(heap, rstack', q, Len(rstack'), Len(q))
  BY <1>1, <1>2, <1>4, <1>8, ShareOfPopped
<1> QED BY <1>1, <1>5, <1>9, Advances

\* A list or a set is begun: its elements are to be read, or skipped.
LEMMA ReadSequenceProgress ==
  ASSUME NEW due, Follows(due), Steady, R!ReadSequence
  PROVE  Progress(due)'
<1>1. /\ rres.st = "running" /\ rstack # <<>> /\ R!Top.fn = "any"
      /\ R!Top.type \in SequenceTypes /\ pos <= Len(input) /\ pos' = pos + 1 /\ rres' = rres
  BY DEF R!ReadSequence, R!Reading, R!Expecting, SequenceTypes, R!SequenceTypes
<1>2. rstack \in Seq(RFrame) /\ IsHeap(heap) /\ Understandable
  BY DEF Follows, ReaderTypes
<1>3. PICK p, a, w, v : AnyRead(due, p, a, w, v)
  BY <1>1, AnyDue
<1>4. /\ p = due[pos - 1] /\ TopIsToRead(p, a) /\ p \in Seq(Due) /\ a \in Nat
      /\ Len(p) = a + 1 /\ p[Len(p)] = Whole(heap, AnyOf(w, v))
      /\ w \in Infos /\ v \in VALUE /\ FieldInfo[w].ftype \in SequenceTypes
      /\ R!Top.info \in InfoReaders[w]
  BY <1>1, <1>3 DEF AnyRead
<1>5. PICK q \in Seq(Due) : /\ q = due[pos] /\ Settles(heap, p, R!Event, q)
                            /\ R!Event \in WireEvent
  BY <1>1, <1>4, EventDue
<1>6. PICK e, info : e = R!Event /\ info = R!Top.info
  OBVIOUS
<1>7. /\ Brings(e) = e.size /\ e.elem = FieldInfo[FieldInfo[w].elementType].ftype
      /\ ElementsAreDue(heap, q, Len(p) - 1, e.size, FieldInfo[w].elementType)
  <2>1. Settles(heap, p, e, q)
    BY <1>5, <1>6
  <2> QED BY <1>2, <1>4, <2>1, SequenceDue
<1>8. e.size \in Nat
  <2>1. e.ev = "list"
    BY <1>6 DEF R!ReadSequence, R!Expecting
  <2> QED BY <1>5, <1>6, <2>1, EventKinds
<1>9. Len(q) = a + e.size /\ \A i \in 1..a : q[i] = p[i]
  <2>1. Settles(heap, p, e, q)
    BY <1>5, <1>6
  <2>2. Len(q) = Len(p) - 1 + Brings(e) /\ \A i \in 1..(Len(p) - 1) : q[i] = p[i]
    BY <2>1 DEF Settles
  <2> QED BY <1>4, <1>7, <1>8, <2>2
<1>10. PICK f : /\ rstack' = R!WithTop(f)
                /\ f = IF FieldInfo[info].elementType = NULL
                          \/ e.elem # FieldInfo[FieldInfo[info].elementType].ftype
                       THEN R!SkipFrame(e.size, <<nil>>)
                       ELSE R!ItemsFrame(R!Top.type, info, <<e.elem>>, e.size)
  BY <1>6 DEF R!ReadSequence
<1>11. FieldInfo[w].elementType \in Infos /\ FieldInfo[w].elementType # NULL
  BY <1>4, InfoIsWellFormed, SchemaAssumption
<1>12. IsToRead(heap, f, q, a, Len(q))
  <2>1. CASE f = R!SkipFrame(e.size, <<nil>>)
    <3>1. f.fn = "skip" /\ f.left = e.size
      BY <2>1 DEF R!SkipFrame
    <3> QED BY <1>9, <3>1 DEF IsToRead, HasObject
  <2>2. CASE /\ f = R!ItemsFrame(R!Top.type, info, <<e.elem>>, e.size)
             /\ e.elem = FieldInfo[FieldInfo[info].elementType].ftype
    <3>1. /\ f.fn = "items" /\ f.left = e.size /\ f.type # "MAP" /\ f.info = info
          /\ f.types = <<e.elem>>
      BY <1>1, <2>2 DEF R!ItemsFrame, SequenceTypes
    <3>2. FieldInfo[info].elementType \in InfoReaders[FieldInfo[w].elementType]
      BY <1>2, <1>4, <1>6, <1>7, <2>2, InfoFits
    <3>3. f.types[Len(f.types)] = e.elem
      BY <3>1
    <3>4. ASSUME NEW i \in 1..Len(q) - a
          PROVE  ReadsItem(heap, f, i, q[a + i])
      <4>1. i \in 1..e.size /\ Len(p) - 1 + i = a + i
        BY <1>4, <1>8, <1>9
      <4>2. PICK u \in VALUE : q[a + i] = Whole(heap, AnyOf(FieldInfo[w].elementType, u))
        BY <1>7, <4>1 DEF ElementsAreDue
      <4>3. ReadsValue(heap, e.elem, FieldInfo[info].elementType, q[a + i])
        BY <1>7, <1>11, <3>2, <4>2 DEF ReadsValue
      <4> QED BY <3>1, <3>3, <4>3 DEF ReadsItem
    <3>5. Len(q) = a + f.left
      BY <1>9, <3>1
    <3> QED BY <3>1, <3>4, <3>5 DEF IsToRead, HasObject
  <2> QED BY <1>10, <2>1, <2>2
<1>13. a <= Len(q)
  BY <1>4, <1>8, <1>9
<1>14. ReadShare(heap, rstack', q, Len(rstack'), Len(q))
  BY <1>1, <1>2, <1>4, <1>9, <1>10, <1>12, <1>13, ShareOfReplaced
<1> QED BY <1>1, <1>5, <1>14, Advances

\* A map is begun.
LEMMA ReadMapProgress ==
  ASSUME NEW due, Follows(due), Steady, R!ReadMap
  PROVE  Progress(due)'
<1>1. /\ rres.st = "running" /\ rstack # <<>> /\ R!Top.fn = "any"
      /\ R!Top.type = "MAP" /\ pos <= Len(input) /\ pos' = pos + 1 /\ rres' = rres
  BY DEF R!ReadMap, R!Reading, R!Expecting
<1>2. rstack \in Seq(RFrame) /\ IsHeap(heap) /\ Understandable
  BY DEF Follows, ReaderTypes
<1>3. PICK p, a, w, v : AnyRead(due, p, a, w, v)
  BY <1>1, AnyDue
<1>4. /\ p = due[pos - 1] /\ TopIsToRead(p, a) /\ p \in Seq(Due) /\ a \in Nat
      /\ Len(p) = a + 1 /\ p[Len(p)] = Whole(heap, AnyOf(w, v))
      /\ w \in Infos /\ v \in VALUE /\ FieldInfo[w].ftype = "MAP"
      /\ R!Top.info \in InfoReaders[w]
  BY <1>1, <1>3 DEF AnyRead
<1>5. PICK q \in Seq(Due) : /\ q = due[pos] /\ Settles(heap, p, R!Event, q)
                            /\ R!Event \in WireEvent
  BY <1>1, <1>4, EventDue
<1>6. PICK e, info : e = R!Event /\ info = R!Top.info
  OBVIOUS
<1>7. /\ Brings(e) = 2 * e.size /\ e.size \in Nat
      /\ e.key = FieldInfo[FieldInfo[w].keyType].ftype
      /\ e.elem = FieldInfo[FieldInfo[w].elementType].ftype
      /\ PairsAreDue(heap, q, Len(p) - 1, 2 * e.size, FieldInfo[w])
  <2>1. Settles(heap, p, e, q) /\ e \in WireEvent
    BY <1>5, <1>6
  <2> QED BY <1>2, <1>4, <2>1, MapDue
<1>8. PICK n \in Nat : n = 2 * e.size
  BY <1>7
<1>9. Len(q) = a + n /\ \A i \in 1..a : q[i] = p[i]
  BY <1>4, <1>5, <1>6, <1>7, <1>8 DEF Settles
<1>10. /\ FieldInfo[info].keyType \in InfoReaders[FieldInfo[w].keyType]
       /\ FieldInfo[info].elementType \in InfoReaders[FieldInfo[w].elementType]
       /\ FieldInfo[w].keyType \in Infos /\ FieldInfo[w].elementType \in Infos
  BY <1>2, <1>4, <1>6, InfoFits, SchemaAssumption DEF WellFormedInfo
<1>11. FieldInfo[info].keyType # NULL /\ FieldInfo[info].elementType # NULL
  <2>1. FieldInfo[info].keyType \in Infos /\ FieldInfo[info].elementType \in Infos
    BY <1>2, <1>10, InfoFits
  <2> QED BY <2>1, SchemaAssumption
<1>12. PICK f : rstack' = R!WithTop(f) /\ f = R!ItemsFrame("MAP", info, R!MapTypes, n)
  BY <1>6, <1>8, <1>11 DEF R!ReadMap
<1>13. /\ f.fn = "items" /\ f.left = n /\ f.type = "MAP" /\ f.info = info
       /\ f.types = R!MapTypes
  BY <1>12 DEF R!ItemsFrame
<1>14. n > 0 => f.types[1] = e.key /\ f.types[Len(f.types)] = e.elem
  BY <1>6, <1>7, <1>8, <1>13 DEF R!MapTypes
<1>15. ASSUME NEW i \in 1..Len(q) - a
       PROVE  ReadsItem(heap, f, i, q[a + i])
  <2>1. i \in 1..2 * e.size /\ Len(p) - 1 + i = a + i /\ n > 0
    BY <1>4, <1>8, <1>9
  <2>2. PICK x : x = IF i % 2 = 0 THEN FieldInfo[w].keyType ELSE FieldInfo[w].elementType
    OBVIOUS
  <2>3. PICK u \in VALUE : q[a + i] = Whole(heap, AnyOf(x, u))
    BY <1>7, <2>1, <2>2 DEF PairsAreDue
  <2>4. CASE i % 2 = 0
    <3>1. ReadsValue(heap, e.key, FieldInfo[info].keyType, q[a + i])
      BY <1>7, <1>10, <2>2, <2>3, <2>4 DEF ReadsValue
    <3> QED BY <1>13, <1>14, <2>1, <2>4, <3>1 DEF ReadsItem
  <2>5. CASE i % 2 # 0
    <3>1. ReadsValue(heap, e.elem, FieldInfo[info].elementType, q[a + i])
      BY <1>7, <1>10, <2>2, <2>3, <2>5 DEF ReadsValue
    <3> QED BY <1>13, <1>14, <2>1, <2>5, <3>1 DEF ReadsItem
  <2> QED BY <2>4, <2>5
<1>16. IsToRead(heap, f, q, a, Len(q))
  <2>1. Len(q) = a + f.left
    BY <1>9, <1>13
  <2> QED BY <1>13, <1>15, <2>1 DEF IsToRead, HasObject
<1>17. a <= Len(q)
  BY <1>4, <1>8, <1>9
<1>18. ReadShare(heap, rstack', q, Len(rstack'), Len(q))
  BY <1>1, <1>2, <1>4, <1>9, <1>12, <1>16, <1>17, ShareOfReplaced
<1> QED BY <1>1, <1>5, <1>18, Advances

\* A struct or a union is begun: there is a class for it.
LEMMA ReadStructOrUnionProgress ==
  ASSUME NEW due, Follows(due), Steady, R!ReadStructOrUnion
  PROVE  Progress(due)'
<1>1. /\ rres.st = "running" /\ rstack # <<>> /\ R!Top.fn = "any"
      /\ R!Top.type = "STRUCT" /\ pos' = pos
  BY DEF R!ReadStructOrUnion, R!Reading
<1>2. rstack \in Seq(RFrame) /\ Understandable
  BY DEF Follows, ReaderTypes
<1>3. PICK p, a, w, v : AnyRead(due, p, a, w, v)
  BY <1>1, AnyDue
<1>4. /\ p = due[pos - 1] /\ TopIsToRead(p, a) /\ p \in Seq(Due) /\ a \in Nat
      /\ Len(p) = a + 1 /\ p[Len(p)] = Whole(heap, AnyOf(w, v))
      /\ w \in Infos /\ v \in VALUE /\ FieldInfo[w].ftype = "STRUCT"
      /\ R!Top.info \in InfoReaders[w]
  BY <1>1, <1>3 DEF AnyRead
<1>5. PICK k, r : k = FieldInfo[w].klass /\ r = FieldInfo[R!Top.info].klass
  OBVIOUS
<1>6. r \in Compatible[k]
  <2>1. PICK info : info = R!Top.info
    OBVIOUS
  <2> QED BY <1>2, <1>4, <1>5, <2>1, InfoFits
<1>7. /\ p[Len(p)].act = StructOf(k, v) /\ p[Len(p)].last = 0 /\ k \in Klasses
  BY <1>4, <1>5, StructDue
<1>8. r # NULL
  BY <1>2, <1>6, <1>7, ClassFits, SchemaAssumption
<1>9. PICK f : f = R!StructFrame(r, Len(mem) + 1)
  OBVIOUS
<1>10. rstack' = R!WithTop(f) /\ rres' = rres
  BY <1>5, <1>8, <1>9 DEF R!ReadStructOrUnion
<1>11. f.fn \in {"struct", "union"} /\ f.klass = r /\ f.last = 0 /\ f.pc = "first"
  BY <1>9 DEF R!StructFrame
<1>12. ReadsObject(heap, f, p[Len(p)])
  BY <1>6, <1>7, <1>11 DEF ReadsObject, StructOf
<1>13. IsToRead(heap, f, p, a, Len(p))
  BY <1>4, <1>11, <1>12 DEF IsToRead, HasObject
<1>14. a <= Len(p)
  BY <1>4
<1>15. ReadShare(heap, rstack', p, Len(rstack'), Len(p))
  BY <1>1, <1>2, <1>4, <1>10, <1>13, <1>14, ShareOfReplaced
<1> QED BY <1>1, <1>4, <1>10, <1>15, StandsStill

\* A loop has items to read.
ItemsToRead(p, a) ==
  /\ p \in Seq(Due) /\ a \in Nat /\ a <= Len(p) /\ Len(p) = a + R!Top.left
  /\ R!Top \in ItemsFrames /\ R!Top.left \in Nat
  /\ \A i \in 1..R!Top.left : ReadsItem(heap, R!Top, i, p[a + i])

\* A loop that has items left finds them due.
LEMMA ItemsDue ==
  ASSUME NEW due, Follows(due), rres.st = "running", rstack # <<>>, R!Top.fn = "items"
  PROVE  \E p, a : p = due[pos - 1] /\ TopIsToRead(p, a) /\ ItemsToRead(p, a)
<1>1. PICK p, a : p = due[pos - 1] /\ TopIsToRead(p, a)
  BY TopDue
<1>2. p \in Seq(Due) /\ a \in 0..Len(p) /\ IsToRead(heap, R!Top, p, a, Len(p)) /\ Len(p) \in Nat
  BY <1>1, LenProperties DEF TopIsToRead
<1>3. rstack \in Seq(RFrame)
  BY DEF Follows, ReaderTypes
<1>4. R!Top \in ItemsFrames /\ R!Top.left \in Nat
  <2>1. R!Top \in ItemsFrames
    BY <1>3, TopKinds
  <2> QED BY <2>1 DEF ItemsFrames
<1>5. Len(p) = a + R!Top.left /\ \A i \in 1..Len(p) - a : ReadsItem(heap, R!Top, i, p[a + i])
  BY <1>2 DEF IsToRead
<1>6. Len(p) - a = R!Top.left /\ a \in Nat /\ a <= Len(p)
  BY <1>2, <1>4, <1>5
<1>7. \A i \in 1..R!Top.left : ReadsItem(heap, R!Top, i, p[a + i])
  BY <1>5, <1>6
<1>8. ItemsToRead(p, a)
  BY <1>2, <1>4, <1>5, <1>6, <1>7 DEF ItemsToRead
<1> QED BY <1>1, <1>8

\* The frame that goes on with what is left.
LEMMA ItemsGoOn ==
  ASSUME NEW h, NEW f, NEW g, g.fn = "items", g.type = f.type, g.types = f.types, g.info = f.info,
         NEW p, NEW a \in Nat, NEW n \in Nat, g.left = n,
         \A i \in 1..n : ReadsItem(h, f, i, p[a + i])
  PROVE  IsToRead(h, g, p, a, a + n)
<1>1. \A i \in 1..n : ReadsItem(h, g, i, p[a + i])
  BY DEF ReadsItem
<1>2. (a + n) - a = n
  OBVIOUS
<1> QED BY <1>1, <1>2 DEF IsToRead, HasObject

\* The loop hands its next item to readAny.
LEMMA NextItemProgress ==
  ASSUME NEW due, Follows(due), PairsInv, Steady, R!NextItem
  PROVE  Progress(due)'
<1>1. /\ rres.st = "running" /\ rstack # <<>> /\ R!Top.fn = "items" /\ ret = <<>>
      /\ R!Top.left > 0 /\ pos' = pos /\ rres' = rres
  BY DEF R!NextItem, R!Reading
<1>2. rstack \in Seq(RFrame)
  BY DEF Follows, ReaderTypes
<1>3. PICK p, a : p = due[pos - 1] /\ TopIsToRead(p, a) /\ ItemsToRead(p, a)
  BY <1>1, ItemsDue
<1>4. PICK t, n : t = R!Top /\ n = t.left
  OBVIOUS
<1>5. /\ p \in Seq(Due) /\ a \in Nat /\ a <= Len(p) /\ Len(p) = a + n
      /\ t \in ItemsFrames /\ n \in Nat \ {0}
      /\ \A i \in 1..n : ReadsItem(heap, t, i, p[a + i])
  BY <1>1, <1>3, <1>4 DEF ItemsToRead
<1>6. t.type = "MAP" => Len(t.got) % 2 = n % 2
  <2>1. Len(rstack) \in 1..Len(rstack) /\ R!Top = rstack[Len(rstack)]
    BY <1>1, <1>2, RTopIsFrame
  <2>2. t.type = "MAP" => (Len(t.got) + n) % 2 = 0
    BY <1>1, <1>4, <2>1 DEF PairsInv
  <2>3. Len(t.got) \in Nat
    BY <1>5, LenProperties DEF ItemsFrames
  <2>4. \A x, y \in Nat : (x + y) % 2 = 0 => x % 2 = y % 2
    OBVIOUS
  <2> QED BY <1>5, <2>2, <2>3, <2>4
<1>7. PICK f, g : /\ f = [t EXCEPT !.left = @ - 1]
                  /\ g = R!AnyFrame(R!Alternate(t, t.types[1], t.types[Len(t.types)]),
                                    R!Alternate(t, FieldInfo[t.info].keyType,
                                                   FieldInfo[t.info].elementType))
  OBVIOUS
<1>8. rstack' = Append(R!WithTop(f), g)
  BY <1>4, <1>7 DEF R!NextItem
<1>9. /\ f.fn = "items" /\ f.type = t.type /\ f.types = t.types /\ f.info = t.info
      /\ f.left = n - 1
  BY <1>4, <1>5, <1>7 DEF ItemsFrames
<1>10. PICK c \in a..Len(p) : c = a + (n - 1)
  BY <1>5
<1>11. IsToRead(heap, f, p, a, c)
  <2>1. n - 1 \in Nat /\ \A i \in 1..n - 1 : i \in 1..n
    BY <1>5
  <2>2. \A i \in 1..n - 1 : ReadsItem(heap, t, i, p[a + i])
    BY <1>5, <2>1
  <2>3. IsToRead(heap, f, p, a, a + (n - 1))
    BY <1>5, <1>9, <2>1, <2>2, ItemsGoOn
  <2> QED BY <1>10, <2>3
<1>12. IsToRead(heap, g, p, c, Len(p))
  <2>1. n \in 1..n /\ a + n = Len(p) /\ Len(p) = c + 1
    BY <1>5, <1>10
  <2>2. ReadsItem(heap, t, n, p[Len(p)])
    BY <1>5, <2>1
  <2>3. ReadsValue(heap, g.type, g.info, p[Len(p)])
    <3>1. CASE t.type = "MAP" /\ n % 2 = 0
      <4>1. g.type = t.types[1] /\ g.info = FieldInfo[t.info].keyType
        BY <1>6, <1>7, <3>1 DEF R!AnyFrame, R!Alternate
      <4> QED BY <2>2, <3>1, <4>1 DEF ReadsItem
    <3>2. CASE ~(t.type = "MAP" /\ n % 2 = 0)
      <4>1. g.type = t.types[Len(t.types)] /\ g.info = FieldInfo[t.info].elementType
        BY <1>6, <1>7, <3>2 DEF R!AnyFrame, R!Alternate
      <4> QED BY <2>2, <3>2, <4>1 DEF ReadsItem
    <3> QED BY <3>1, <3>2
  <2>4. g.fn = "any"
    BY <1>7 DEF R!AnyFrame
  <2> QED BY <2>1, <2>3, <2>4 DEF IsToRead, HasObject
<1>13. ReadShare(heap, rstack', p, Len(rstack'), Len(p))
  <2>1. \A i \in 1..a : p[i] = p[i]
    OBVIOUS
  <2> QED BY <1>1, <1>2, <1>3, <1>5, <1>8, <1>11, <1>12, <2>1, ShareOfPushed
<1> QED BY <1>1, <1>3, <1>13, StandsStill

\* It takes up what it is given,
LEMMA StoreItemProgress ==
  ASSUME NEW due, Follows(due), Steady, R!StoreItem
  PROVE  Progress(due)'
<1>1. /\ rres.st = "running" /\ rstack # <<>> /\ R!Top.fn = "items"
      /\ pos' = pos /\ rres' = rres
  BY DEF R!StoreItem, R!Reading
<1>2. rstack \in Seq(RFrame) /\ ReaderTypes
  BY DEF Follows, ReaderTypes
<1>3. PICK p, a : p = due[pos - 1] /\ TopIsToRead(p, a) /\ ItemsToRead(p, a)
  BY <1>1, ItemsDue
<1>4. PICK t, n : t = R!Top /\ n = t.left
  OBVIOUS
<1>5. /\ p \in Seq(Due) /\ a \in Nat /\ a <= Len(p) /\ Len(p) = a + n /\ n \in Nat
      /\ \A i \in 1..n : ReadsItem(heap, t, i, p[a + i])
  BY <1>3, <1>4 DEF ItemsToRead
<1>6. PICK f \in ItemsFrames : /\ rstack' = R!WithTop(f) /\ f.left = t.left
                               /\ f.type = t.type /\ f.info = t.info /\ f.types = t.types
  BY <1>2, <1>4, StoreItemFrames
<1>7. f.fn = "items" /\ f.left = n
  BY <1>4, <1>6 DEF ItemsFrames
<1>8. IsToRead(heap, f, p, a, Len(p))
  <2>1. IsToRead(heap, f, p, a, a + n)
    BY <1>5, <1>6, <1>7, ItemsGoOn
  <2> QED BY <1>5, <2>1
<1>9. ReadShare(heap, rstack', p, Len(rstack'), Len(p))
  BY <1>1, <1>2, <1>3, <1>5, <1>6, <1>8, ShareOfReplaced
<1> QED BY <1>1, <1>3, <1>9, StandsStill

\* ... and returns the container when it has read all.
LEMMA ReturnItemsProgress ==
  ASSUME NEW due, Follows(due), Steady, R!ReturnItems
  PROVE  Progress(due)'
<1>1. /\ rres.st = "running" /\ rstack # <<>> /\ R!Top.fn = "items" /\ R!Top.left = 0
      /\ pos' = pos /\ rres' = rres /\ rstack' = R!Pop
  BY DEF R!ReturnItems, R!Reading, R!Return
<1>2. rstack \in Seq(RFrame)
  BY DEF Follows, ReaderTypes
<1>3. PICK p, a : p = due[pos - 1] /\ TopIsToRead(p, a) /\ ItemsToRead(p, a)
  BY <1>1, ItemsDue
<1>4. p \in Seq(Due) /\ Len(p) = a
  BY <1>1, <1>3 DEF ItemsToRead
<1>5. ReadShare(heap, rstack', p, Len(rstack'), Len(p))
  BY <1>1, <1>2, <1>3, <1>4, ShareOfPopped
<1> QED BY <1>1, <1>3, <1>5, StandsStill

\* A skip reads on,
LEMMA SkipProgress ==
  ASSUME NEW due, Follows(due), Steady, R!Skip
  PROVE  Progress(due)'
<1>1. /\ rres.st = "running" /\ rstack # <<>> /\ R!Top.fn = "skip" /\ R!Top.left > 0
      /\ pos <= Len(input) /\ pos' = pos + 1 /\ rres' = rres
  BY DEF R!Skip, R!Reading
<1>2. rstack \in Seq(RFrame)
  BY DEF Follows, ReaderTypes
<1>3. PICK p, a : \E q \in Seq(Due) :
           /\ p = due[pos - 1] /\ TopIsToRead(p, a)
           /\ q = due[pos] /\ Settles(heap, p, R!Event, q) /\ R!Event \in WireEvent
           /\ p[Len(p)] \in Due /\ Len(p) \in Nat \ {0} /\ a \in Nat /\ Len(q) \in Nat
           /\ Len(q) = Len(p) - 1 + Brings(R!Event)
           /\ \A i \in 1..Len(p) - 1 : q[i] = p[i]
  BY <1>1, AtEvent
<1>4. PICK q \in Seq(Due) :
           /\ p = due[pos - 1] /\ TopIsToRead(p, a)
           /\ q = due[pos] /\ R!Event \in WireEvent
           /\ Len(p) \in Nat \ {0} /\ a \in Nat /\ Len(q) \in Nat
           /\ Len(q) = Len(p) - 1 + Brings(R!Event)
           /\ \A i \in 1..Len(p) - 1 : q[i] = p[i]
  BY <1>3
<1>5. PICK t, e : t = R!Top /\ e = R!Event
  OBVIOUS
<1>6. t \in SkipFrames
  BY <1>1, <1>2, <1>5, TopKinds
<1>7. t.left \in Nat \ {0} /\ t.fn = "skip"
  BY <1>1, <1>5, <1>6 DEF SkipFrames
<1>8. Len(p) = a + t.left
  BY <1>4, <1>5, <1>7 DEF TopIsToRead, IsToRead
<1>9. R!Weight(e) = Brings(e) /\ Brings(e) \in Nat
  <2>1. /\ e.ev \in {"field", "stop", "list", "map", "scalar"}
        /\ e.ev \in {"list", "map"} => e.size \in Nat
    BY <1>4, <1>5, EventKinds
  <2>2. CASE e.ev = "list"
    BY <2>1, <2>2 DEF R!Weight, Brings
  <2>3. CASE e.ev = "map"
    BY <2>1, <2>3 DEF R!Weight, Brings
  <2>4. CASE e.ev \in {"field", "stop", "scalar"}
    BY <2>4 DEF R!Weight, Brings
  <2> QED BY <2>1, <2>2, <2>3, <2>4
<1>10. PICK f : f = [t EXCEPT !.left = @ - 1 + R!Weight(e)]
  OBVIOUS
<1>11. rstack' = R!WithTop(f)
  BY <1>5, <1>10 DEF R!Skip
<1>12. f.fn = "skip" /\ f.left = t.left - 1 + Brings(e)
  BY <1>6, <1>9, <1>10 DEF SkipFrames
<1>13. Len(q) = a + f.left /\ a <= Len(q) /\ \A i \in 1..a : q[i] = p[i]
  <2>1. Len(q) = a + f.left /\ a <= Len(q)
    BY SMTT(40), <1>4, <1>5, <1>7, <1>8, <1>9, <1>12
  <2>2. \A i \in 1..a : i \in 1..Len(p) - 1
    BY <1>4, <1>7, <1>8
  <2> QED BY <1>4, <2>1, <2>2
<1>14. IsToRead(heap, f, q, a, Len(q))
  BY <1>12, <1>13 DEF IsToRead, HasObject
<1>15. ReadShare(heap, rstack', q, Len(rstack'), Len(q))
  BY ZenonT(40), <1>1, <1>2, <1>4, <1>11, <1>13, <1>14, ShareOfReplaced
<1> QED BY <1>1, <1>4, <1>15, Advances

\* ... and ends where what is skipped ends.
LEMMA SkippedProgress ==
  ASSUME NEW due, Follows(due), Steady, R!Skipped
  PROVE  Progress(due)'
<1>1. /\ rres.st = "running" /\ rstack # <<>> /\ R!Top.fn = "skip" /\ R!Top.left = 0
      /\ pos' = pos /\ rres' = rres /\ rstack' = R!Pop
  BY DEF R!Skipped, R!Reading
<1>2. rstack \in Seq(RFrame)
  BY DEF Follows, ReaderTypes
<1>3. PICK p, a : p = due[pos - 1] /\ TopIsToRead(p, a)
  BY <1>1, TopDue
<1>4. p \in Seq(Due) /\ a \in 0..Len(p) /\ IsToRead(heap, R!Top, p, a, Len(p)) /\ Len(p) \in Nat
  BY <1>3, LenProperties DEF TopIsToRead
<1>5. Len(p) = a
  BY <1>1, <1>4 DEF IsToRead
<1>6. ReadShare(heap, rstack', p, Len(rstack'), Len(p))
  BY <1>1, <1>2, <1>3, <1>4, <1>5, ShareOfPopped
<1> QED BY <1>1, <1>3, <1>6, StandsStill

\* What the frame on top is to read next is there, if anything is.
LEMMA WantsWhatIsDue ==
  ASSUME NEW due, Follows(due), rres.st = "running", rstack # <<>>, R!Wants # {}
  PROVE  due[pos - 1] # <<>>
<1>1. PICK p, a : p = due[pos - 1] /\ TopIsToRead(p, a)
  BY TopDue
<1>2. p \in Seq(Due) /\ a \in 0..Len(p) /\ IsToRead(heap, R!Top, p, a, Len(p)) /\ Len(p) \in Nat
  BY <1>1, LenProperties DEF TopIsToRead
<1>3. rstack \in Seq(RFrame)
  BY DEF Follows, ReaderTypes
<1>4. R!Top.fn \in {"struct", "union", "any", "skip"} /\ (R!Top.fn = "skip" => R!Top.left > 0)
  BY DEF R!Wants
<1>5. R!Top.fn = "skip" => R!Top.left \in Nat
  BY <1>3, TopKinds DEF SkipFrames
<1>6. Len(p) # 0
  BY <1>2, <1>4, <1>5 DEF IsToRead, HasObject
<1> QED BY <1>1, <1>6, EmptySeq

\* Only a buffer that was cut short ends before it is read.
LEMMA EndOfFileProgress ==
  ASSUME NEW due, Follows(due), Steady, R!EndOfFile
  PROVE  Progress(due)'
<1>1. /\ rres.st = "running" /\ rstack # <<>> /\ R!Wants # {} /\ pos > Len(input)
      /\ pos' = pos /\ rres' = R!End("raised", "NativeError")
  BY DEF R!EndOfFile
<1>2. due[pos - 1] # <<>>
  BY <1>1, WantsWhatIsDue
<1>3. pos - 1 = Len(input) /\ Len(input) \in Nat /\ Len(out) \in Nat /\ Len(input) <= Len(out)
  BY <1>1, WhereItIs
<1>4. Len(input) # Len(out)
  BY <1>2, <1>3 DEF Follows
<1>5. rres'.st = "raised"
  BY <1>1 DEF R!End, R!Running
<1>6. pos' - 1 <= Len(input') /\ Len(input') < Len(out')
  BY <1>1, <1>3, <1>4 DEF Steady
<1> QED BY <1>5, <1>6 DEF Progress

\* Nothing is taken for what it is not.
LEMMA NothingIsGarbled ==
  ASSUME NEW due, Follows(due)
  PROVE  ~R!Garble
<1> SUFFICES ASSUME R!Garble PROVE FALSE
  OBVIOUS
<1>1. /\ rres.st = "running" /\ rstack # <<>> /\ R!Wants # {} /\ pos <= Len(input)
      /\ R!Event.ev \notin R!Wants
  BY DEF R!Garble
<1>2. IsHeap(heap) /\ rstack \in Seq(RFrame)
  BY DEF Follows, ReaderTypes
<1>3. CASE HasObject(R!Top)
  <2>1. PICK p, a, q, k, v : HeaderRead(due, p, a, q, k, v)
    BY <1>1, <1>3, HeaderDue
  <2>2. R!Event.ev \in {"field", "stop"}
    BY <2>1 DEF HeaderRead
  <2>3. R!Wants = {"field", "stop"}
    BY <1>1, <1>3 DEF R!Wants, R!Headers, HasObject
  <2> QED BY <1>1, <2>2, <2>3
<1>4. CASE R!Top.fn = "any"
  <2>1. PICK p, a, w, v : AnyRead(due, p, a, w, v)
    BY <1>1, <1>4, AnyDue
  <2>2. /\ p = due[pos - 1] /\ p[Len(p)] = Whole(heap, AnyOf(w, v))
        /\ w \in Infos /\ v \in VALUE /\ R!Top.type = FieldInfo[w].ftype
    BY <2>1 DEF AnyRead
  <2>3. PICK q \in Seq(Due) : /\ q = due[pos] /\ Settles(heap, p, R!Event, q)
                              /\ R!Event \in WireEvent
    BY <1>1, <2>2, EventDue
  <2>4. PICK e : e = R!Event
    OBVIOUS
  <2>5. Settles(heap, p, e, q) /\ e \in WireEvent
    BY <2>3, <2>4
  <2>6. R!Wants = R!Begins(R!Top.type)
    BY <1>4 DEF R!Wants
  <2>7. FieldInfo[w].ftype \in TType
    BY <2>2, InfoIsWellFormed
  <2>8. CASE FieldInfo[w].ftype \in ScalarTypes
    <3>1. e.ev = "scalar"
      BY <2>2, <2>5, <2>8, ScalarDue
    <3>2. R!Begins(R!Top.type) = {"scalar"}
      BY <2>2, <2>8 DEF R!Begins, ScalarTypes, R!ScalarTypes, R!SequenceTypes
    <3> QED BY <1>1, <2>4, <2>6, <3>1, <3>2
  <2>9. CASE FieldInfo[w].ftype \in SequenceTypes
    <3>1. e.ev = "list"
      BY <1>2, <2>2, <2>5, <2>9, SequenceDue
    <3>2. R!Begins(R!Top.type) = {"list"}
      BY <2>2, <2>9 DEF R!Begins, SequenceTypes, R!ScalarTypes, R!SequenceTypes
    <3> QED BY <1>1, <2>4, <2>6, <3>1, <3>2
  <2>10. CASE FieldInfo[w].ftype = "MAP"
    <3>1. e.ev = "map"
      BY <1>2, <2>2, <2>5, <2>10, MapDue
    <3>2. R!Begins(R!Top.type) = {"map"}
      BY <2>2, <2>10 DEF R!Begins, R!ScalarTypes, R!SequenceTypes
    <3> QED BY <1>1, <2>4, <2>6, <3>1, <3>2
  <2>11. CASE FieldInfo[w].ftype = "STRUCT"
    <3>1. R!Begins(R!Top.type) = {}
      BY <2>2, <2>11 DEF R!Begins, R!ScalarTypes, R!SequenceTypes
    <3> QED BY <1>1, <2>6, <3>1
  <2> QED BY <2>7, <2>8, <2>9, <2>10, <2>11 DEF TType
<1>5. CASE R!Top.fn = "skip"
  <2>1. R!Wants = {"field", "stop", "scalar", "list", "map"}
    BY <1>1, <1>5 DEF R!Wants, R!Headers
  <2>2. R!Event \in WireEvent
    BY <1>1, EventIsEvent DEF Follows
  <2> QED BY <1>1, <2>1, <2>2, EventKinds
<1>6. CASE R!Top.fn = "items"
  BY <1>1, <1>6 DEF R!Wants
<1> QED BY <1>1, <1>2, <1>3, <1>4, <1>5, <1>6, RTopIsFrame, FrameKinds DEF HasObject

\* Deserialization begins,
LEMMA DeserializeProgress ==
  ASSUME NEW due, Follows(due), TypeOK, Steady, R!Deserialize
  PROVE  Progress(due)'
<1>1. /\ rres.st = "called" /\ rres' = R!Running /\ pos' = pos
      /\ rstack' = <<R!StructFrame(readerKlass, 1)>>
  BY DEF R!Deserialize
<1>2. pos = 1
  BY <1>1 DEF Follows, Progress
<1>3. PICK p : p = due[pos - 1]
  OBVIOUS
<1>4. p = <<Whole(heap, Root)>>
  BY <1>2, <1>3 DEF Follows, Accounts
<1>5. Len(p) = 1 /\ p[1] = Whole(heap, Root)
  BY <1>4
<1>6. Klass \in Klasses
  BY RootIsActivation, SchemaAssumption DEF Root, StructOf, Activation
<1>7. p[1].act.klass = Klass /\ p[1].last = 0
  <2>1. Wire(Root) = Root /\ Root.klass = Klass
    BY <1>6, SchemaAssumption DEF Wire, Root, StructOf
  <2> QED BY <1>5, <2>1 DEF Whole
<1>8. PICK f : f = R!StructFrame(readerKlass, 1)
  OBVIOUS
<1>9. f.fn \in {"struct", "union"} /\ f.klass = readerKlass /\ f.last = 0 /\ f.pc = "first"
  BY <1>8 DEF R!StructFrame
<1>10. readerKlass \in Compatible[Klass]
  BY DEF Follows, Understood
<1>11. IsToRead(heap, f, p, 0, 1)
  <2>1. ReadsObject(heap, f, p[1])
    BY <1>6, <1>7, <1>9, <1>10 DEF ReadsObject
  <2> QED BY <1>9, <2>1 DEF IsToRead, HasObject
<1>12. PICK s : s = <<f>>
  OBVIOUS
<1>13. Len(s) = 1 /\ s[1] = f /\ rstack' = s
  BY <1>1, <1>8, <1>12
<1>14. ReadShare(heap, s, p, 0, 0)
  <2>1. PICK to : to = [m \in 0..0 |-> 0]
    OBVIOUS
  <2>2. to \in [0..0 -> 0..0] /\ 1..0 = {}
    BY <2>1
  <2>3. to[0] = 0 /\ \A m, l \in 0..0 : m <= l => to[m] <= to[l]
    BY <2>1
  <2> QED BY <2>2, <2>3 DEF ReadShare
<1>15. ReadShare(heap, s, p, 0 + 1, 1)
  <2>1. s[0 + 1] = f /\ 0 \in 0..1 /\ 0 \in Nat /\ 1 \in Nat
    BY <1>13
  <2> QED BY <1>11, <1>14, <2>1, ReadShareAdded
<1>16. ReadShare(heap, rstack', p, Len(rstack'), Len(p))
  <2>1. 0 + 1 = 1 /\ Len(rstack') = 1
    BY <1>13
  <2>2. ReadShare(heap, s, p, 1, 1)
    BY <1>15, <2>1
  <2> QED BY <1>5, <1>13, <2>1, <2>2
<1>17. rres'.st = "running"
  BY <1>1 DEF R!Running
<1> QED BY <1>1, <1>3, <1>16, <1>17, StandsStill

\* ... and ends with nothing due.
LEMMA DeserializeEndProgress ==
  ASSUME NEW due, Follows(due), Steady, R!DeserializeEnd
  PROVE  Progress(due)'
<1>1. rres.st = "running" /\ rstack = <<>> /\ rres' = R!End("ok", NULL) /\ pos' = pos
  BY DEF R!DeserializeEnd
<1>2. PICK p : p = due[pos - 1]
  OBVIOUS
<1>3. p \in Seq(Due)
  BY <1>2, WhereItIs
<1>4. ReadShare(heap, rstack, p, Len(rstack), Len(p)) /\ Len(rstack) = 0
  BY <1>1, <1>2, EmptySeq DEF Follows, Progress
<1>5. Len(p) = 0
  BY <1>4 DEF ReadShare
<1>6. p = <<>>
  BY <1>3, <1>5, EmptySeq
<1>7. rres'.st = "ok"
  BY <1>1 DEF R!End, R!Running
<1>8. pos' - 1 <= Len(input')
  BY <1>1, WhereItIs DEF Steady
<1> QED BY <1>1, <1>2, <1>6, <1>7, <1>8 DEF Progress

\* The pairs of a map when the frame on top returns what it has read,
LEMMA PairsKeptByPop ==
  ASSUME ReaderTypes, PairsInv, rstack # <<>>, rstack' = R!Pop,
         ret' # <<>> \/ (R!Top.fn = "skip" /\ ret' = R!Top.value)
  PROVE  PairsInv'
<1>1. PICK l : l = Len(rstack)
  OBVIOUS
<1>2. /\ rstack \in Seq(RFrame) /\ l \in Nat \ {0} /\ R!Top = rstack[l]
      /\ Len(rstack') = l - 1 /\ \A n \in 1..l - 1 : rstack'[n] = rstack[n]
  <2>1. rstack \in Seq(RFrame)
    BY DEF ReaderTypes
  <2> QED BY <1>1, <2>1, RTopIsFrame, RPop
<1>3. ASSUME NEW n \in 1..l - 1, rstack'[n].fn = "items"
      PROVE  /\ rstack'[n].type = "MAP" =>
                  (Len(rstack'[n].got) + rstack'[n].left) % 2 =
                    IF n = l - 1 /\ ret' = <<>> THEN 0 ELSE 1
             /\ n < l - 1 /\ rstack'[n + 1].fn = "skip" => rstack'[n + 1].value = <<nil>>
  <2>1. n \in 1..l /\ n < l /\ n # l /\ rstack'[n] = rstack[n]
    BY <1>2
  <2>2. /\ rstack[n].type = "MAP" => (Len(rstack[n].got) + rstack[n].left) % 2 = 1
        /\ rstack[n + 1].fn = "skip" => rstack[n + 1].value = <<nil>>
    BY <1>1, <1>3, <2>1 DEF PairsInv
  <2>3. n = l - 1 => ret' # <<>>
    <3>1. CASE R!Top.fn = "skip" /\ ret' = R!Top.value /\ n = l - 1
      <4>1. rstack[n + 1] = R!Top
        BY <1>2, <3>1
      <4>2. <<nil>> # <<>>
        OBVIOUS
      <4>3. ret' = <<nil>>
        BY <2>2, <3>1, <4>1
      <4> QED BY <4>2, <4>3
    <3> QED BY <3>1
  <2>4. n < l - 1 => rstack'[n + 1] = rstack[n + 1]
    BY <1>2
  <2> QED BY <2>1, <2>2, <2>3, <2>4
<1> QED BY <1>2, <1>3 DEF PairsInv

\* ... calls another, ...
LEMMA PairsKeptByPush ==
  ASSUME ReaderTypes, PairsInv, rstack # <<>>, NEW f \in RFrame, NEW g \in RFrame,
         rstack' = Append(R!WithTop(f), g), f.fn # "skip", g.fn # "items",
         f.fn = "items" => /\ g.fn # "skip"
                           /\ f.type = "MAP" => (Len(f.got) + f.left) % 2 = 1
  PROVE  PairsInv'
<1>1. PICK l : l = Len(rstack)
  OBVIOUS
<1>2. /\ rstack \in Seq(RFrame) /\ l \in Nat \ {0}
      /\ Len(rstack') = l + 1 /\ rstack'[l + 1] = g
      /\ \A n \in 1..l : rstack'[n] = IF n = l THEN f ELSE rstack[n]
  <2>1. rstack \in Seq(RFrame)
    BY DEF ReaderTypes
  <2> QED BY <1>1, <2>1, RTopIsFrame, RPush
<1>3. ASSUME NEW n \in 1..l + 1, rstack'[n].fn = "items"
      PROVE  /\ rstack'[n].type = "MAP" =>
                  (Len(rstack'[n].got) + rstack'[n].left) % 2 =
                    IF n = l + 1 /\ ret' = <<>> THEN 0 ELSE 1
             /\ n < l + 1 /\ rstack'[n + 1].fn = "skip" => rstack'[n + 1].value = <<nil>>
  <2>1. n # l + 1 /\ n \in 1..l
    BY <1>2, <1>3
  <2>2. CASE n = l
    <3>1. rstack'[n] = f /\ rstack'[n + 1] = g
      BY <1>2, <2>1, <2>2
    <3> QED BY <1>3, <2>1, <3>1
  <2>3. CASE n # l
    <3>1. n + 1 \in 1..l /\ n < l
      BY <1>2, <2>1, <2>3
    <3>2. rstack'[n] = rstack[n] /\ rstack'[n + 1] = IF n + 1 = l THEN f ELSE rstack[n + 1]
      BY <1>2, <2>1, <2>3, <3>1
    <3>3. /\ rstack[n].type = "MAP" => (Len(rstack[n].got) + rstack[n].left) % 2 = 1
          /\ rstack[n + 1].fn = "skip" => rstack[n + 1].value = <<nil>>
      BY <1>1, <1>3, <2>1, <2>3, <3>1, <3>2 DEF PairsInv
    <3> QED BY <2>1, <3>2, <3>3
  <2> QED BY <2>2, <2>3
<1> QED BY ZenonT(40), <1>2, <1>3 DEF PairsInv

\* ... goes on, or makes way for another, ...
LEMMA PairsKeptByReplace ==
  ASSUME ReaderTypes, PairsInv, rstack # <<>>, NEW f \in RFrame, rstack' = R!WithTop(f),
         f.fn = "skip" => f.value = <<nil>> \/ (R!Top.fn = "skip" /\ R!Top.value = f.value),
         f.fn = "items" /\ f.type = "MAP" =>
           (Len(f.got) + f.left) % 2 = IF ret' = <<>> THEN 0 ELSE 1
  PROVE  PairsInv'
<1>1. PICK l : l = Len(rstack)
  OBVIOUS
<1>2. /\ rstack \in Seq(RFrame) /\ l \in Nat \ {0} /\ R!Top = rstack[l]
      /\ Len(rstack') = l
      /\ \A n \in 1..l : rstack'[n] = IF n = l THEN f ELSE rstack[n]
  <2>1. rstack \in Seq(RFrame)
    BY DEF ReaderTypes
  <2> QED BY <1>1, <2>1, RTopIsFrame, RReplace
<1>3. ASSUME NEW n \in 1..l, rstack'[n].fn = "items"
      PROVE  /\ rstack'[n].type = "MAP" =>
                  (Len(rstack'[n].got) + rstack'[n].left) % 2 =
                    IF n = l /\ ret' = <<>> THEN 0 ELSE 1
             /\ n < l /\ rstack'[n + 1].fn = "skip" => rstack'[n + 1].value = <<nil>>
  <2>1. CASE n = l
    <3>1. rstack'[n] = f
      BY <1>2, <2>1
    <3> QED BY <1>2, <1>3, <2>1, <3>1
  <2>2. CASE n # l
    <3>1. n + 1 \in 1..l /\ n < l
      BY <1>2, <2>2
    <3>2. rstack'[n] = rstack[n] /\ rstack'[n + 1] = IF n + 1 = l THEN f ELSE rstack[n + 1]
      BY <1>2, <2>2, <3>1
    <3>3. /\ rstack[n].type = "MAP" => (Len(rstack[n].got) + rstack[n].left) % 2 = 1
          /\ rstack[n + 1].fn = "skip" => rstack[n + 1].value = <<nil>>
      BY <1>1, <1>3, <2>2, <3>1, <3>2 DEF PairsInv
    <3>4. CASE n + 1 = l
      BY <1>2, <2>2, <3>2, <3>3, <3>4
    <3>5. CASE n + 1 # l
      BY <2>2, <3>2, <3>3, <3>5
    <3> QED BY <3>4, <3>5
  <2> QED BY <2>1, <2>2
<1> QED BY <1>2, <1>3 DEF PairsInv

\* ... or takes up what was returned to it.
LEMMA PairsKept ==
  ASSUME ReaderTypes, PairsInv, rstack' = rstack,
         ret' = ret \/ (rstack # <<>> /\ R!Top.fn # "items")
  PROVE  PairsInv'
<1>1. CASE ret' = ret
  BY <1>1 DEF PairsInv
<1>2. CASE rstack # <<>> /\ R!Top.fn # "items"
  <2>1. rstack \in Seq(RFrame)
    BY DEF ReaderTypes
  <2>2. R!Top = rstack[Len(rstack)]
    BY <1>2, <2>1, RTopIsFrame
  <2> QED BY <1>2, <2>2 DEF PairsInv
<1> QED BY <1>1, <1>2

\* Every step keeps it.
LEMMA PairsStep ==
  ASSUME ReaderTypes, RetInv, PairsInv, input # NULL, R!Next
  PROVE  PairsInv'
<1>0. rstack \in Seq(RFrame)
  BY DEF ReaderTypes
<1>1. CASE R!Deserialize
  <2>1. PICK f : f = R!StructFrame(readerKlass, 1)
    OBVIOUS
  <2>2. PICK s : s = <<f>>
    OBVIOUS
  <2>3. rstack' = s /\ Len(s) = 1 /\ s[1] = f /\ f.fn # "items"
    BY <1>1, <2>1, <2>2 DEF R!Deserialize, R!StructFrame
  <2> QED BY <2>3 DEF PairsInv
<1>2. CASE R!ReadField
  <2>1. rstack # <<>>
    BY <1>2 DEF R!ReadField, R!Reading
  <2>2. CASE rstack' = R!Pop /\ ret' = <<R!Top.obj>>
    <3>1. ret' # <<>>
      BY <2>2
    <3> QED BY <2>1, <2>2, <3>1, PairsKeptByPop
  <2>3. ASSUME NEW f \in ObjectFrames, NEW g \in RFrame,
               rstack' = Append(R!WithTop(f), g), f.fn = "struct",
               g.fn \in {"skip", "any"}
        PROVE  PairsInv'
    <3>1. f \in RFrame
      BY DEF RFrame
    <3> QED BY <2>1, <2>3, <3>1, PairsKeptByPush
  <2>4. CASE rstack' = rstack /\ ret' = ret
    BY <2>4, PairsKept
  <2> QED BY <1>2, <2>2, <2>3, <2>4, ReadFieldFrames
<1>3. CASE R!StoreField
  <2>1. rstack # <<>> /\ R!Top.fn # "items" /\ rstack' = rstack
    BY <1>3 DEF R!StoreField, R!Reading
  <2> QED BY <2>1, PairsKept
<1>4. CASE R!ReadUnionField
  <2>1. rstack # <<>>
    BY <1>4 DEF R!ReadUnionField, R!Reading
  <2>2. CASE rstack' = R!Pop /\ ret' = <<R!Top.obj>>
    <3>1. ret' # <<>>
      BY <2>2
    <3> QED BY <2>1, <2>2, <3>1, PairsKeptByPop
  <2>3. ASSUME NEW f \in ObjectFrames, NEW g \in RFrame,
               rstack' = Append(R!WithTop(f), g), f.fn = "union",
               g.fn \in {"skip", "any"}
        PROVE  PairsInv'
    <3>1. f \in RFrame
      BY DEF RFrame
    <3> QED BY <2>1, <2>3, <3>1, PairsKeptByPush
  <2> QED BY <1>4, <2>2, <2>3, ReadUnionFieldFrames
<1>5. CASE R!StoreUnionField
  <2>1. rstack # <<>>
    BY <1>5 DEF R!StoreUnionField, R!Reading
  <2>2. PICK f \in ObjectFrames : rstack' = R!WithTop(f) /\ f.fn = "union"
    BY <1>5, StoreUnionFieldFrames
  <2>3. f \in RFrame
    BY DEF RFrame
  <2> QED BY <2>1, <2>2, <2>3, PairsKeptByReplace
<1>6. CASE R!ReadUnionStop
  <2>1. /\ rstack # <<>>
        /\ \/ rstack' = R!Pop /\ ret' = <<R!Top.obj>>
           \/ rstack' = rstack /\ ret' = ret
    BY <1>6 DEF R!ReadUnionStop, R!Return, R!Reading
  <2>2. CASE rstack' = R!Pop /\ ret' = <<R!Top.obj>>
    <3>1. ret' # <<>>
      BY <2>2
    <3> QED BY <2>1, <2>2, <3>1, PairsKeptByPop
  <2>3. CASE rstack' = rstack /\ ret' = ret
    BY <2>3, PairsKept
  <2> QED BY <2>1, <2>2, <2>3
<1>7. CASE R!LeaveUnion \/ R!ReadScalar \/ R!ReturnItems
  <2>1. rstack # <<>> /\ rstack' = R!Pop /\ \E v : ret' = <<v>>
    BY <1>7 DEF R!LeaveUnion, R!ReadScalar, R!ReturnItems, R!Return, R!Reading
  <2>2. ret' # <<>>
    BY <2>1
  <2> QED BY <2>1, <2>2, PairsKeptByPop
<1>8. CASE R!ReadSequence
  <2>1. rstack # <<>> /\ R!Top.fn = "any" /\ R!Top.type # "MAP"
    BY <1>8 DEF R!ReadSequence, R!Reading, R!SequenceTypes
  <2>2. PICK f \in RFrame :
          /\ rstack' = R!WithTop(f)
          /\ \/ f.fn = "skip" /\ f.value = <<nil>>
             \/ f \in ItemsFrames /\ f.type = R!Top.type
    BY <1>8, ContainerFrames
  <2>3. f \in ItemsFrames => f.fn = "items"
    BY DEF ItemsFrames
  <2> QED BY <2>1, <2>2, <2>3, PairsKeptByReplace
<1>9. CASE R!ReadMap
  <2>1. rstack # <<>> /\ R!Top.fn = "any"
    BY <1>9 DEF R!ReadMap, R!Reading
  <2>2. ret = <<>>
    BY <2>1, NothingToTake DEF Takes
  <2>3. PICK f \in RFrame : rstack' = R!WithTop(f) /\ ret' = ret
    BY <1>9, ContainerFrames
  <2>4. PICK e, info : e = R!Event /\ info = R!Top.info
    OBVIOUS
  <2>5. PICK x : /\ rstack' = R!WithTop(x)
                 /\ \/ x = R!SkipFrame(2 * e.size, <<nil>>)
                    \/ x = R!ItemsFrame("MAP", info, R!MapTypes, 2 * e.size)
    BY <1>9, <2>4 DEF R!ReadMap
  <2>6. x = f
    <3>1. PICK n : n = Len(rstack)
      OBVIOUS
    <3>2. n \in DOMAIN rstack
      BY <1>0, <2>1, <3>1, RTopIsFrame, LenProperties
    <3>3. [rstack EXCEPT ![n] = x][n] = x /\ [rstack EXCEPT ![n] = f][n] = f
      BY <3>2
    <3>4. [rstack EXCEPT ![n] = x] = [rstack EXCEPT ![n] = f]
      BY <2>3, <2>5, <3>1 DEF R!WithTop
    <3> QED BY <3>3, <3>4
  <2>7. e.size \in Nat
    <3>1. e.ev = "map" /\ pos <= Len(input)
      BY <1>9, <2>4 DEF R!ReadMap, R!Expecting
    <3>2. e \in WireEvent
      BY <2>4, <3>1, EventIsEvent
    <3> QED BY <3>1, <3>2, EventKinds
  <2>8. CASE x = R!SkipFrame(2 * e.size, <<nil>>)
    <3>1. x.fn = "skip" /\ x.value = <<nil>>
      BY <2>8 DEF R!SkipFrame
    <3> QED BY <2>1, <2>3, <2>6, <3>1, PairsKeptByReplace
  <2>9. CASE x = R!ItemsFrame("MAP", info, R!MapTypes, 2 * e.size)
    <3>1. x.fn = "items" /\ x.got = <<>> /\ x.left = 2 * e.size
      BY <2>9 DEF R!ItemsFrame
    <3>2. Len(<<>>) = 0 /\ (0 + 2 * e.size) % 2 = 0
      BY <2>7
    <3>3. (Len(x.got) + x.left) % 2 = 0
      BY <3>1, <3>2
    <3> QED BY <2>1, <2>2, <2>3, <2>6, <3>1, <3>3, PairsKeptByReplace
  <2> QED BY <2>5, <2>8, <2>9
<1>10. CASE R!ReadStructOrUnion
  <2>1. rstack # <<>> /\ ret' = ret
    BY <1>10 DEF R!ReadStructOrUnion, R!Reading
  <2>2. CASE rstack' = rstack
    BY <2>1, <2>2, PairsKept
  <2>3. ASSUME NEW k \in Klasses, rstack' = R!WithTop(R!StructFrame(k, Len(mem) + 1))
        PROVE  PairsInv'
    <3>1. PICK f : f = R!StructFrame(k, Len(mem) + 1)
      OBVIOUS
    <3>2. Len(mem) + 1 \in Nat
      BY LenProperties DEF ReaderTypes
    <3>3. f \in RFrame /\ f.fn \notin {"skip", "items"}
      BY <3>1, <3>2, StructFrameIsFrame
    <3>4. rstack' = R!WithTop(f)
      BY <2>3, <3>1
    <3> QED BY <2>1, <3>3, <3>4, PairsKeptByReplace
  <2> QED BY <1>10, <2>2, <2>3, ReadStructOrUnionFrames
<1>11. CASE R!NextItem
  <2>1. rstack # <<>> /\ ret = <<>>
    BY <1>11 DEF R!NextItem, R!Reading
  <2>2. PICK f \in ItemsFrames, g \in AnyFrames :
          /\ rstack' = Append(R!WithTop(f), g)
          /\ R!Top \in ItemsFrames /\ R!Top.left > 0 /\ f.left = R!Top.left - 1
          /\ f.type = R!Top.type /\ f.got = R!Top.got
    BY <1>11, NextItemFrames
  <2>3. PICK t, m, n : t = R!Top /\ m = Len(t.got) /\ n = t.left
    OBVIOUS
  <2>4. m \in Nat /\ n \in Nat \ {0} /\ t.fn = "items"
    BY <2>2, <2>3, LenProperties DEF ItemsFrames
  <2>5. t.type = "MAP" => (m + n) % 2 = 0
    <3>1. Len(rstack) \in 1..Len(rstack) /\ R!Top = rstack[Len(rstack)]
      BY <1>0, <2>1, RTopIsFrame
    <3> QED BY <2>1, <2>3, <2>4, <3>1 DEF PairsInv
  <2>6. f.type = "MAP" => (Len(f.got) + f.left) % 2 = 1
    <3>1. (m + n) % 2 = 0 => (m + (n - 1)) % 2 = 1
      BY <2>4
    <3> QED BY <2>2, <2>3, <2>5, <3>1
  <2>7. f \in RFrame /\ g \in RFrame /\ f.fn = "items" /\ g.fn = "any"
    BY DEF RFrame, ItemsFrames, AnyFrames
  <2> QED BY <2>1, <2>2, <2>6, <2>7, PairsKeptByPush
<1>12. CASE R!StoreItem
  <2>1. rstack # <<>> /\ ret # <<>> /\ ret' = <<>>
    BY <1>12 DEF R!StoreItem, R!Reading
  <2>2. PICK f \in ItemsFrames, v \in Ref :
          /\ rstack' = R!WithTop(f) /\ R!Top \in ItemsFrames /\ f.left = R!Top.left
          /\ f.type = R!Top.type /\ f.got = Append(R!Top.got, v)
    BY <1>12, StoreItemFrames
  <2>3. PICK t, m, n : t = R!Top /\ m = Len(t.got) /\ n = t.left
    OBVIOUS
  <2>4. m \in Nat /\ n \in Nat /\ t.fn = "items" /\ t.got \in Seq(Ref)
    BY <2>2, <2>3, LenProperties DEF ItemsFrames
  <2>5. t.type = "MAP" => (m + n) % 2 = 1
    <3>1. Len(rstack) \in 1..Len(rstack) /\ R!Top = rstack[Len(rstack)]
      BY <1>0, <2>1, RTopIsFrame
    <3> QED BY <2>1, <2>3, <2>4, <3>1 DEF PairsInv
  <2>6. f.type = "MAP" => (Len(f.got) + f.left) % 2 = 0
    <3>1. (m + n) % 2 = 1 => ((m + 1) + n) % 2 = 0
      BY <2>4
    <3>2. Len(f.got) = m + 1
      BY <2>2, <2>3, <2>4, AppendProperties
    <3> QED BY <2>2, <2>3, <2>5, <3>1, <3>2
  <2>7. f \in RFrame /\ f.fn = "items"
    BY DEF RFrame, ItemsFrames
  <2> QED BY <2>1, <2>2, <2>6, <2>7, PairsKeptByReplace
<1>13. CASE R!Skip
  <2>1. rstack # <<>> /\ R!Top.fn = "skip"
    BY <1>13 DEF R!Skip, R!Reading
  <2>2. PICK f \in SkipFrames : rstack' = R!WithTop(f) /\ f.value = R!Top.value
    BY <1>13, SkipFrameStays
  <2>3. f \in RFrame /\ f.fn = "skip"
    BY DEF RFrame, SkipFrames
  <2> QED BY <2>1, <2>2, <2>3, PairsKeptByReplace
<1>14. CASE R!Skipped
  <2>1. rstack # <<>> /\ R!Top.fn = "skip" /\ rstack' = R!Pop /\ ret' = R!Top.value
    BY <1>14 DEF R!Skipped, R!Reading
  <2> QED BY <2>1, PairsKeptByPop
<1>15. CASE R!EndOfFile \/ R!Garble \/ R!DeserializeEnd
  <2>1. rstack' = rstack /\ ret' = ret
    BY <1>15 DEF R!EndOfFile, R!Garble, R!DeserializeEnd
  <2> QED BY <2>1, PairsKept
<1> QED BY <1>1, <1>2, <1>3, <1>4, <1>5, <1>6, <1>7, <1>8, <1>9, <1>10, <1>11, <1>12,
           <1>13, <1>14, <1>15 DEF R!Next

\* Every step of the reader follows the account.
LEMMA ProgressStep ==
  ASSUME NEW due, Follows(due), TypeOK, PairsInv, Steady, R!Next
  PROVE  Progress(due)'
<1>1. CASE R!StoreField
  <2>1. rres.st = "running" /\ rres' = rres /\ rstack' = rstack /\ pos' = pos
    BY <1>1 DEF R!StoreField, R!Reading
  <2> QED BY <2>1, StackStays
<1>2. CASE R!Deserialize \/ R!DeserializeEnd \/ R!EndOfFile
  BY <1>2, DeserializeProgress, DeserializeEndProgress, EndOfFileProgress
<1>3. CASE R!ReadField \/ R!ReadUnionField \/ R!StoreUnionField \/ R!ReadUnionStop
  BY <1>3, ReadFieldProgress, ReadUnionFieldProgress, StoreUnionFieldProgress,
     ReadUnionStopProgress
<1>4. CASE R!LeaveUnion \/ R!Garble
  BY <1>4, LeavesNothing, NothingIsGarbled
<1>5. CASE R!ReadScalar \/ R!ReadSequence \/ R!ReadMap \/ R!ReadStructOrUnion
  BY <1>5, ReadScalarProgress, ReadSequenceProgress, ReadMapProgress,
     ReadStructOrUnionProgress
<1>6. CASE R!NextItem \/ R!StoreItem \/ R!ReturnItems \/ R!Skip \/ R!Skipped
  BY <1>6, NextItemProgress, StoreItemProgress, ReturnItemsProgress, SkipProgress,
     SkippedProgress
<1> QED BY <1>1, <1>2, <1>3, <1>4, <1>5, <1>6 DEF R!Next

\* All that the reader relies on.
ReaderInv == RTTypedInv /\ IInv /\ FramesInv /\ AccountInv /\ PairsInv /\ ReadInv

\* Nothing is due yet.
LEMMA ReaderInvInit == RTInit => ReaderInv
<1> SUFFICES ASSUME RTInit PROVE ReaderInv
  OBVIOUS
<1>1. Init /\ rstack = <<>> /\ stack = <<>> /\ input = NULL /\ pos = 1
      /\ rres.st = "called" /\ res.st = "called"
  BY DEF RTInit, Init, R!Init, R!Running, Pending
<1>2. RTTypedInv /\ IInv
  BY <1>1, RTTypedInit, InitInv
<1>3. FramesInv /\ PairsInv
  <2>1. Len(stack) = 0 /\ Len(rstack) = 0 /\ 1..0 = {}
    BY <1>1, EmptySeq
  <2> QED BY <2>1 DEF FramesInv, PairsInv
<1>4. AccountInv /\ ReadInv
  BY <1>1 DEF AccountInv, ReadInv
<1> QED BY <1>2, <1>3, <1>4 DEF ReaderInv

\* Nothing is written once the buffer is delivered.
LEMMA WriteKeepsReading ==
  ASSUME ReadInv, Write, Root' = Root
  PROVE  ReadInv'
<1>1. ~Done /\ UNCHANGED <<readerKlass, input, pos, rres>>
  BY DEF Write, rvars
<1>2. Klass' = Klass
  <2>1. Root.klass = Klass /\ (Root.klass)' = Klass'
    BY DEF Root, StructOf
  <2> QED BY <2>1
<1>3. ~(Understandable /\ Understood' /\ input # NULL)
  <2>1. Understood' => Understood
    BY <1>1, <1>2 DEF Understood
  <2>2. res.st = "ok" => Done
    BY DEF Done
  <2> QED BY <1>1, <2>1, <2>2 DEF ReadInv
<1>4. input' = NULL => rres'.st = "called" /\ pos' = 1
  BY <1>1 DEF ReadInv
<1>5. Understandable' <=> Understandable
  BY DEF Understandable
<1>6. input' = input
  BY <1>1
<1> QED BY <1>3, <1>4, <1>5, <1>6 DEF ReadInv

\* What is delivered is the buffer, or its beginning.
LEMMA DeliverKeepsReading ==
  ASSUME OutTyped, Complete, ReadInv, Deliver
  PROVE  ReadInv'
<1>1. /\ res.st = "ok" /\ input = NULL
      /\ UNCHANGED <<readerKlass, pos, rres, heap, call, out, res>>
  BY DEF Deliver, vars
<1>2. PICK n \in 0..Len(out) : input' = SubSeq(out, 1, n)
  BY DEF Deliver
<1>3. PICK s : s = SubSeq(out, 1, n)
  OBVIOUS
<1>4. s \in Seq(WireEvent) /\ Len(s) = n /\ n <= Len(out) /\ n \in Nat
      /\ \A i \in 1..n : s[i] = out[i]
  <2>1. out \in Seq(WireEvent) /\ Len(out) \in Nat /\ n \in Nat /\ n <= Len(out)
    BY LenProperties DEF OutTyped
  <2>2. \A i \in 1..n : i \in 1..Len(out) /\ out[i] \in WireEvent
    BY <2>1, ElementOfSeq
  <2>3. s = [i \in 1..n |-> out[i]]
    BY <1>3, <2>1
  <2>4. s \in Seq(WireEvent)
    BY <2>1, <2>2, <2>3, IsASeq
  <2>5. Len(s) = n
    BY <2>1, <2>3
  <2> QED BY <2>1, <2>3, <2>4, <2>5
<1>5. input' = s /\ input' # NULL
  BY <1>2, <1>3, <1>4, RoundTripAssumption
<1>6. rres.st = "called" /\ pos = 1
  BY <1>1 DEF ReadInv
<1>7. Sent'
  BY <1>1, <1>4, <1>5 DEF Sent
<1>8. PICK due : Accounts(heap, Root, out, due) /\ due[Len(out)] = <<>>
  BY <1>1 DEF Complete
<1>9. Accounts(heap, Root, out, due)' /\ due[Len(out')] = <<>>
  <2>1. Root' = Root
    BY <1>1 DEF Root, StructOf, Klass
  <2> QED BY <1>1, <1>8, <2>1
<1>10. Progress(due)'
  BY <1>1, <1>4, <1>5, <1>6 DEF Progress
<1> QED BY <1>1, <1>5, <1>7, <1>9, <1>10 DEF ReadInv

\* What the reader does.
LEMMA ReadKeepsReading ==
  ASSUME ShapeInv, OutTyped, ReaderTypes, PairsInv, ReadInv, Read
  PROVE  ReadInv'
<1>1. /\ input # NULL /\ R!Next
      /\ UNCHANGED <<heap, call, out, res>>
  BY DEF Read, vars
<1>2. input' = input /\ readerKlass' = readerKlass
  BY <1>1 DEF R!Next, R!Deserialize, R!ReadField, R!StoreField, R!ReadUnionField,
     R!StoreUnionField, R!ReadUnionStop, R!LeaveUnion, R!ReadScalar, R!ReadSequence,
     R!ReadMap, R!ReadStructOrUnion, R!NextItem, R!StoreItem, R!ReturnItems, R!Skip,
     R!Skipped, R!EndOfFile, R!Garble, R!DeserializeEnd
<1>3. Steady
  BY <1>1, <1>2 DEF Steady
<1>4. TypeOK /\ IsHeap(heap)
  BY DEF ShapeInv, TypeOK
<1>5. Understood' <=> Understood
  BY <1>1, <1>2 DEF Understood, Klass
<1>6. ASSUME Understandable, Understood
      PROVE  /\ res'.st = "ok" /\ Sent'
             /\ \E due : /\ Accounts(heap, Root, out, due)' /\ due[Len(out')] = <<>>
                         /\ Progress(due)'
  <2>1. /\ res.st = "ok" /\ Sent
        /\ \E due : Accounts(heap, Root, out, due) /\ due[Len(out)] = <<>> /\ Progress(due)
    BY <1>1, <1>6 DEF ReadInv
  <2>2. PICK due : Accounts(heap, Root, out, due) /\ due[Len(out)] = <<>> /\ Progress(due)
    BY <2>1
  <2>3. Follows(due)
    BY <1>1, <1>4, <1>6, <2>1, <2>2 DEF Follows
  <2>4. Progress(due)'
    BY <1>1, <1>3, <1>4, <2>3, ProgressStep
  <2>5. Sent'
    BY <1>1, <1>2, <2>1 DEF Sent
  <2>6. Root' = Root
    BY <1>1 DEF Root, StructOf, Klass
  <2>7. Accounts(heap, Root, out, due)' /\ due[Len(out')] = <<>>
    BY <1>1, <2>2, <2>6
  <2> QED BY <1>1, <2>1, <2>4, <2>5, <2>7
<1>7. Understandable' <=> Understandable
  BY DEF Understandable
<1> QED BY <1>1, <1>2, <1>5, <1>6, <1>7 DEF ReadInv

\* Steps of the writer, the delivery and steps of the reader keep it.
LEMMA ReaderInvStep == ReaderInv /\ [RTNext]_<<vars, rvars>> => ReaderInv'
<1> SUFFICES ASSUME ReaderInv, [RTNext]_<<vars, rvars>> PROVE ReaderInv'
  OBVIOUS
<1>0. /\ RTTypedInv /\ IInv /\ FramesInv /\ AccountInv /\ PairsInv /\ ReadInv
      /\ ShapeInv /\ OutTyped /\ ReaderTypes /\ RetInv /\ WireInv
  BY DEF ReaderInv, RTTypedInv, RTInv, TypedInv
<1>1. [Next]_vars
  BY DEF RTNext, Write, Deliver, Read
<1>2. RTTypedInv' /\ IInv' /\ FramesInv' /\ AccountInv'
  <2>1. RTTypedInv'
    BY <1>0, RTTypedStep
  <2>2. IInv' /\ FramesInv'
    BY <1>0, <1>1, NextInv, FramesStep
  <2>3. AccountInv'
    BY <1>0, <1>1, AccountStep
  <2> QED BY <2>1, <2>2, <2>3
<1>3. CASE Write \/ UNCHANGED <<vars, rvars>>
  <2>1. UNCHANGED rvars
    BY <1>3 DEF Write
  <2>2. PairsInv'
    BY <1>0, <2>1 DEF PairsInv, rvars
  <2>3. CASE Write
    <3>1. Root' = Root
      BY <1>0, <1>1, RootIsConstant
    <3> QED BY <1>0, <1>2, <2>2, <2>3, <3>1, WriteKeepsReading DEF ReaderInv
  <2>4. CASE UNCHANGED <<vars, rvars>>
    <3>1. UNCHANGED <<heap, call, out, res, readerKlass, input, pos, rstack, rres>>
      BY <2>4 DEF vars, rvars
    <3>2. Root' = Root /\ Klass' = Klass
      BY <3>1 DEF Root, StructOf, Klass
    <3>3. \A due : Progress(due)' <=> Progress(due)
      BY <3>1 DEF Progress, TwoFields
    <3>4. ReadInv'
      BY <1>0, <3>1, <3>2, <3>3 DEF ReadInv, Understood, Understandable, Sent
    <3> QED BY <1>2, <2>2, <3>4 DEF ReaderInv
  <2> QED BY <1>3, <2>3, <2>4
<1>4. CASE Deliver
  <2>1. rstack' = rstack /\ ret' = ret
    BY <1>4 DEF Deliver
  <2>2. PairsInv'
    BY <1>0, <2>1 DEF PairsInv
  <2>3. Complete
    BY <1>0, AllIsWritten
  <2>4. ReadInv'
    BY <1>0, <1>4, <2>3, DeliverKeepsReading
  <2> QED BY <1>2, <2>2, <2>4 DEF ReaderInv
<1>5. CASE Read
  <2>1. PairsInv'
    BY <1>0, <1>5, PairsStep DEF Read
  <2>2. ReadInv'
    BY <1>0, <1>5, ReadKeepsReading
  <2> QED BY <1>2, <2>1, <2>2 DEF ReaderInv
<1> QED BY <1>3, <1>4, <1>5 DEF RTNext

\* The reader's invariant holds in every state.
LEMMA ReaderHolds == RTSpec => []ReaderInv
BY ReaderInvInit, ReaderInvStep, PTL DEF RTSpec

\* Only the end of the account is empty.
LEMMA NothingDueAtTheEnd ==
  ASSUME NEW due, Follows(due), due[pos - 1] = <<>>
  PROVE  pos - 1 = Len(out)
<1>1. Len(out) \in Nat /\ pos \in Nat \ {0} /\ pos - 1 <= Len(out)
  BY WhereItIs
<1>2. ASSUME pos \in 1..Len(out) PROVE FALSE
  <2>1. Settles(heap, due[pos - 1], out[pos], due[pos])
    BY <1>2 DEF Follows, Accounts
  <2> QED BY <2>1 DEF Settles
<1> QED BY <1>1, <1>2

\* How a reader that understands what was written ends.
LEMMA ReaderEnds ==
  ASSUME ReaderInv, Understandable, Understood, input # NULL, R!Done
  PROVE  /\ Len(input) \in Nat /\ Len(out) \in Nat /\ Len(input) <= Len(out)
         /\ \/ rres.st = "ok" /\ pos = Len(input) + 1 /\ Len(input) = Len(out)
            \/ rres.st = "raised" /\ Len(input) < Len(out)
            \/ rres.st = "raised" /\ rres.exc = "UnionException" /\ \E v \in VALUE : TwoFields(v)
<1>1. PICK due : Follows(due)
  <2>1. OutTyped /\ ReaderTypes /\ IsHeap(heap)
    BY DEF ReaderInv, RTTypedInv, RTInv, ShapeInv, TypeOK
  <2>2. Sent /\ \E due : Accounts(heap, Root, out, due) /\ due[Len(out)] = <<>> /\ Progress(due)
    BY DEF ReaderInv, ReadInv
  <2> QED BY <2>1, <2>2 DEF Follows
<1>2. /\ Len(input) \in Nat /\ Len(out) \in Nat /\ Len(input) <= Len(out)
      /\ pos \in Nat \ {0} /\ pos - 1 <= Len(input)
  BY <1>1, WhereItIs
<1>3. rres.st \in {"ok", "raised"}
  BY <1>1 DEF Follows, Progress, R!Done
<1>4. CASE rres.st = "ok"
  <2>1. pos - 1 = Len(out)
    BY <1>1, <1>4, NothingDueAtTheEnd DEF Follows, Progress
  <2> QED BY <1>2, <1>4, <2>1
<1>5. CASE rres.st = "raised"
  BY <1>1, <1>2, <1>5 DEF Follows, Progress
<1> QED BY <1>2, <1>3, <1>4, <1>5

\* For all classes and FieldInfos, if those that should understand each other fit: a
\* buffer that was delivered whole is read to its very end, so that a reader that has
\* returned left no byte to be taken for something else, and the only thing it refuses
\* is a union with two fields.
THEOREM WholeBuffersAreReadWhole ==
  ASSUME NEW I, Fits(Compatible, I)
  PROVE  RTSpec => []IntactIsReadWhole
<1>1. ReaderInv => IntactIsReadWhole
  <2>1. Understandable
    BY DEF Understandable
  <2> SUFFICES ASSUME ReaderInv, R!Done, Intact
               PROVE  \/ rres.st = "ok" /\ pos = Len(input) + 1
                      \/ rres.exc = "UnionException" /\ \E v \in VALUE : TwoFields(v)
    BY DEF IntactIsReadWhole
  <2>2. input # NULL /\ Len(input) = Len(out) /\ Understood
    BY DEF Intact
  <2> QED BY <2>1, <2>2, ReaderEnds
<1> QED BY <1>1, ReaderHolds, PTL

\* ... and one that was cut short anywhere is refused, never read as less data than
\* was written.
THEOREM CutBuffersAreRefused ==
  ASSUME NEW I, Fits(Compatible, I)
  PROVE  RTSpec => []TruncatedIsRefused
<1>1. ReaderInv => TruncatedIsRefused
  <2>1. Understandable
    BY DEF Understandable
  <2> SUFFICES ASSUME ReaderInv, R!Done, Len(input) < Len(out), Understood
               PROVE  rres.st = "raised"
    BY DEF TruncatedIsRefused
  <2>2. input # NULL
    BY DEF ReaderInv, ReadInv, R!Done
  <2>3. /\ Len(input) \in Nat /\ Len(out) \in Nat
        /\ \/ rres.st = "ok" /\ Len(input) = Len(out)
           \/ rres.st = "raised"
    BY <2>1, <2>2, ReaderEnds
  <2> QED BY <2>3
<1> QED BY <1>1, ReaderHolds, PTL
====
