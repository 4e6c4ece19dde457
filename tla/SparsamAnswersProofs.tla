---------------------- MODULE SparsamAnswersProofs ----------------------
(****************************************************************************)
(* What is read is what was written (WrittenIsRead).  To every frame belongs *)
(* what it reads, which the state does not hold: the activation that wrote   *)
(* it, what it is read as, which of its parts have been read, which one is   *)
(* being read, and the share of the dues that it has.                        *)
(****************************************************************************)
EXTENDS SparsamRoundTripProofs

\* What is read is what was written, seen through the reader's classes, at every depth.
\* A correspondence M relates the two: <<x, part>> is in M if x was read of what the
\* activation part.act wrote, by the class, or the FieldInfo, part.as.  (A value whose
\* type is struct stands for the struct.)
Target(info) == IF FieldInfo[info].ftype = "STRUCT" THEN FieldInfo[info].klass ELSE info

\* The field or the item in slot i of a, which r reads.
PartOf(a, r, i) ==
  LET c == Callee(heap, a, i) IN
  [act |-> IF FieldInfo[c.info].ftype = "STRUCT" THEN Callee(heap, c, TheStruct) ELSE c,
   as  |-> Target(IF a.klass # NULL THEN InfoOf(r, i) ELSE ItemInfo(r, i))]

\* A list or set whose elements have another type on the wire is skipped and read as nil.
Retyped(w, r) ==
  /\ FieldInfo[w].ftype \in SequenceTypes
  /\ FieldInfo[FieldInfo[w].elementType].ftype # FieldInfo[FieldInfo[r].elementType].ftype

\* Of the fields of a, those in S are what was read of them, where the class r knows
\* them; all else is as r.new left it, and so is what was read as nil.
NameOf(r, fid) == FieldInfo[InfoOf(r, fid)].symName

FieldsMatch(o, a, r, S, M) ==
  /\ \A fid \in Fids(r) \cap S : \E m \in M :
       /\ m[2] = PartOf(a, r, fid)
       /\ mem[o].ivars[NameOf(r, fid)]
            = IF m[1] = nil THEN R!New(r).ivars[NameOf(r, fid)] ELSE m[1]
  /\ \A n \in Names \ {NameOf(r, fid) : fid \in Fids(r) \cap S} :
       mem[o].ivars[n] = R!New(r).ivars[n]

\* The items of a were read one by one, and made into a container of that type.
ItemsMatch(o, a, r, M) ==
  \E got \in Seq({m[1] : m \in M}) :
    /\ DOMAIN got = Slots(heap, a)
    /\ \A i \in DOMAIN got : <<got[i], PartOf(a, r, i)>> \in M
    /\ mem[o].items = R!Built([type |-> FieldInfo[a.info].ftype, got |-> got])

Matches(x, a, r, M) ==
  IF a.klass # NULL
  THEN /\ x \in DOMAIN mem /\ mem[x].type = "object" /\ mem[x].klass = r
       /\ FieldsMatch(x, a, r, Present(heap, a.klass, a.val), M)
  ELSE IF FieldInfo[a.info].ftype \in ScalarTypes THEN x = a.val
  ELSE IF Retyped(a.info, r) THEN x = nil
  ELSE x \in DOMAIN mem /\ mem[x].type = FieldInfo[a.info].ftype /\ ItemsMatch(x, a, r, M)

Corresponds(M) == \A m \in M : Matches(m[1], m[2].act, m[2].as, M)

\* The data that serialize was given, as deserialize is to read it.
Origin == [act |-> Root, as |-> readerKlass]

\* What deserialize returns was read of the data that serialize was given, when the
\* reader's version of the class is one that should understand what was written.
WrittenIsRead ==
  rres.st = "ok" /\ Understood => \E M : Corresponds(M) /\ <<ret[1], Origin>> \in M

-----------------------------------------------------------------------------
\* It skips a field that its caller does not know, and gives nothing back.
Ignores(f) == f.fn = "skip" /\ f.value = <<>>

\* The part that what a frame reads is of the data.
Part(c) == [act |-> c.act, as |-> c.as]

\* The frame f reads what c says, of the dues of p.
Reads(f, c, p) ==
  /\ c.from \in Nat /\ c.to \in Nat /\ c.from <= c.to
  /\ ~Ignores(f) => c.act \in visited /\ c.act \in Activation /\ Wire(c.act) = c.act
  /\ f.fn = "any" =>
       /\ c.to = c.from + 1 /\ p[c.to] = Whole(heap, c.act)
       /\ c.as = Target(f.info) /\ c.doing = {}
  /\ HasObject(f) =>
       /\ c.to = c.from + 1 /\ c.act.klass \in Klasses /\ c.as = f.klass
       /\ c.read \subseteq Present(heap, c.act.klass, c.act.val)
       /\ p[c.to] = [act |-> c.act, last |-> f.last,
                     rest |-> Present(heap, c.act.klass, c.act.val) \ (c.read \cup c.doing)]
       /\ c.doing = {} \/ \E fid \in Fids(f.klass) \cap Present(heap, c.act.klass, c.act.val) :
                            c.doing = {fid} /\ f.info = InfoOf(f.klass, fid) /\ fid \notin c.read
  /\ f.fn = "items" =>
       /\ c.to = c.from + f.left /\ c.act.klass = NULL /\ c.as = f.info
       /\ f.type = FieldInfo[c.act.info].ftype /\ f.type = FieldInfo[f.info].ftype
       /\ ~Retyped(c.act.info, f.info)
       /\ c.doing = {} \/ c.doing = {Len(f.got) + 1}
       /\ Len(heap[c.act.val].items) = Len(f.got) + f.left + IF c.doing = {} THEN 0 ELSE 1
       /\ \A i \in 1..f.left :
            p[c.from + i] = Whole(heap, Callee(heap, c.act, Len(heap[c.act.val].items) + 1 - i))
  /\ f.fn = "skip" =>
       /\ c.to = c.from + f.left /\ c.doing = {}
       /\ f.value # <<>> => c.act.klass = NULL /\ Retyped(c.act.info, c.as)

\* What it has read corresponds.
Has(f, c, M) ==
  /\ HasObject(f) => FieldsMatch(f.obj, c.act, c.as, c.read, M)
  /\ f.fn = "items" => \A i \in 1..Len(f.got) : <<f.got[i], PartOf(c.act, c.as, i)>> \in M

\* It was called by g to read a part of what g reads.
AskedBy(f, c, d) ==
  \/ d.doing = {} /\ Ignores(f)
  \/ ~Ignores(f) /\ \E i \in Int : d.doing = {i} /\ Part(c) = PartOf(d.act, d.as, i)

\* The frames read the whole, each its share, for the one below.
Shares(src, p) ==
  /\ \A n \in 1..Len(rstack) : Reads(rstack[n], src[n], p)
  /\ \A m, n \in 1..Len(rstack) : m < n => src[m].to <= src[n].from
  /\ \A n \in 1..Len(rstack) :
       /\ src[n].to = IF n = Len(rstack) THEN Len(p) ELSE src[n + 1].from
       /\ IF n = 1 THEN ~Ignores(rstack[1]) /\ Part(src[1]) = Origin
          ELSE AskedBy(rstack[n], src[n], src[n - 1])

\* What is returned is what was asked for.
Returned(src, M) ==
  IF rstack = <<>> THEN ret # <<>> /\ <<ret[1], Origin>> \in M
  ELSE LET c == src[Len(rstack)] IN
       IF ret = <<>> THEN c.doing = {}
       ELSE \E i \in Int : c.doing = {i} /\ <<ret[1], PartOf(c.act, c.as, i)>> \in M

\* No object in the correspondence is still being filled.
LeftAlone(M) ==
  \A m \in M : /\ m[1] \in VALUE \cup DOMAIN mem
               /\ \A n \in 1..Len(rstack) : HasObject(rstack[n]) => rstack[n].obj # m[1]

Tracked(p, M, src) ==
  /\ Shares(src, p) /\ Returned(src, M) /\ LeftAlone(M) /\ Corresponds(M)
  /\ \A n \in 1..Len(rstack) : Has(rstack[n], src[n], M)

\* What was written, and what frames read of it, does not change.
Still == UNCHANGED <<heap, call, visited, readerKlass>>

\* What a frame reads stays what it was, ...
LEMMA ReadsKept ==
  ASSUME Still, NEW f \in RFrame, NEW c, NEW p, NEW q, Reads(f, c, p), \A i \in 1..c.to : q[i] = p[i]
  PROVE  Reads(f, c, q)'
<1>1. heap' = heap /\ visited' = visited
  BY DEF Still
<1>2. c.from \in Nat /\ c.to \in Nat /\ c.from <= c.to
  BY DEF Reads
<1>3. c.to = c.from + 1 => q[c.to] = p[c.to]
  BY <1>2
<1>4. f.fn = "items" => \A i \in 1..f.left : q[c.from + i] = p[c.from + i]
  <2>1. ASSUME f.fn = "items", NEW i \in 1..f.left PROVE c.from + i \in 1..c.to
    <3>1. f.left \in Nat
      BY <2>1, FrameKinds DEF ItemsFrames
    <3>2. c.to = c.from + f.left
      BY <2>1 DEF Reads
    <3> QED BY <1>2, <3>1, <3>2
  <2> QED BY <2>1
<1>5. /\ f.fn = "any" =>
           /\ c.to = c.from + 1 /\ q[c.to] = Whole(heap, c.act)
           /\ c.as = Target(f.info) /\ c.doing = {}
  BY <1>3 DEF Reads
<1>6. HasObject(f) =>
       /\ c.to = c.from + 1 /\ c.act.klass \in Klasses /\ c.as = f.klass
       /\ c.read \subseteq Present(heap, c.act.klass, c.act.val)
       /\ q[c.to] = [act |-> c.act, last |-> f.last,
                     rest |-> Present(heap, c.act.klass, c.act.val) \ (c.read \cup c.doing)]
       /\ c.doing = {} \/ \E fid \in Fids(f.klass) \cap Present(heap, c.act.klass, c.act.val) :
                            c.doing = {fid} /\ f.info = InfoOf(f.klass, fid) /\ fid \notin c.read
  BY <1>3 DEF Reads
<1>7. f.fn = "items" =>
       /\ c.to = c.from + f.left /\ c.act.klass = NULL /\ c.as = f.info
       /\ f.type = FieldInfo[c.act.info].ftype /\ f.type = FieldInfo[f.info].ftype
       /\ ~Retyped(c.act.info, f.info)
       /\ c.doing = {} \/ c.doing = {Len(f.got) + 1}
       /\ Len(heap[c.act.val].items) = Len(f.got) + f.left + IF c.doing = {} THEN 0 ELSE 1
       /\ \A i \in 1..f.left :
            q[c.from + i] = Whole(heap, Callee(heap, c.act, Len(heap[c.act.val].items) + 1 - i))
  BY <1>4 DEF Reads
<1>8. f.fn = "skip" =>
       /\ c.to = c.from + f.left /\ c.doing = {}
       /\ f.value # <<>> => c.act.klass = NULL /\ Retyped(c.act.info, c.as)
  BY DEF Reads
<1>9. ~Ignores(f) => c.act \in visited /\ c.act \in Activation /\ Wire(c.act) = c.act
  BY DEF Reads
<1> QED BY <1>1, <1>2, <1>5, <1>6, <1>7, <1>8, <1>9 DEF Reads

\* The objects stay as they are, but for those in O, and those that are new.
OthersStay(O) == \A x \in DOMAIN mem : x \in DOMAIN mem' /\ (x \notin O => mem'[x] = mem[x])

\* What is said of the fields of an object stays true of it ...
LEMMA FieldsMatchKept ==
  ASSUME Still, NEW o, NEW a, NEW r, NEW S, NEW M, NEW M2, M \subseteq M2,
         FieldsMatch(o, a, r, S, M), mem'[o] = mem[o]
  PROVE  FieldsMatch(o, a, r, S, M2)'
<1>1. heap' = heap
  BY DEF Still
<1>2. \A fid : PartOf(a, r, fid)' = PartOf(a, r, fid)
  BY <1>1 DEF PartOf
<1>3. ASSUME NEW fid \in Fids(r) \cap S
      PROVE  \E m \in M2 :
               /\ m[2] = PartOf(a, r, fid)
               /\ mem'[o].ivars[NameOf(r, fid)]
                    = IF m[1] = nil THEN R!New(r).ivars[NameOf(r, fid)] ELSE m[1]
  <2>1. PICK m \in M :
               /\ m[2] = PartOf(a, r, fid)
               /\ mem[o].ivars[NameOf(r, fid)]
                    = IF m[1] = nil THEN R!New(r).ivars[NameOf(r, fid)] ELSE m[1]
    BY <1>3 DEF FieldsMatch
  <2>2. m \in M2
    BY <2>1
  <2> QED BY <2>1, <2>2
<1>4. \A n \in Names \ {NameOf(r, fid) : fid \in Fids(r) \cap S} :
        mem'[o].ivars[n] = R!New(r).ivars[n]
  BY DEF FieldsMatch
<1> QED BY <1>2, <1>3, <1>4 DEF FieldsMatch

\* ... and so does what is said of anything that was read.
LEMMA MatchesKept ==
  ASSUME Still, NEW x, NEW a, NEW r, NEW M, NEW M2, M \subseteq M2,
         Matches(x, a, r, M), x \in DOMAIN mem => x \in DOMAIN mem' /\ mem'[x] = mem[x]
  PROVE  Matches(x, a, r, M2)'
<1>1. heap' = heap
  BY DEF Still
<1>2. CASE a.klass # NULL
  <2>1. /\ x \in DOMAIN mem /\ mem[x].type = "object" /\ mem[x].klass = r
        /\ FieldsMatch(x, a, r, Present(heap, a.klass, a.val), M)
    BY <1>2 DEF Matches
  <2>2. x \in DOMAIN mem' /\ mem'[x] = mem[x]
    BY <2>1
  <2>3. PICK S : S = Present(heap, a.klass, a.val)
    OBVIOUS
  <2>4. FieldsMatch(x, a, r, S, M2)'
    BY <2>1, <2>2, <2>3, FieldsMatchKept
  <2>5. S = Present(heap, a.klass, a.val)'
    BY <1>1, <2>3 DEF Present, IvarGet
  <2> QED BY <1>2, <2>1, <2>2, <2>4, <2>5 DEF Matches
<1>3. CASE a.klass = NULL
  <2>1. CASE x \in DOMAIN mem /\ mem[x].type = FieldInfo[a.info].ftype /\ ItemsMatch(x, a, r, M)
             /\ FieldInfo[a.info].ftype \notin ScalarTypes /\ ~Retyped(a.info, r)
    <3>1. PICK got \in Seq({m[1] : m \in M}) :
            /\ DOMAIN got = Slots(heap, a)
            /\ \A i \in DOMAIN got : <<got[i], PartOf(a, r, i)>> \in M
            /\ mem[x].items = R!Built([type |-> FieldInfo[a.info].ftype, got |-> got])
      BY <2>1 DEF ItemsMatch
    <3>2. got \in Seq({m[1] : m \in M2})
      <4>1. {m[1] : m \in M} \subseteq {m[1] : m \in M2}
        OBVIOUS
      <4>2. Len(got) \in Nat /\ \A i \in 1..Len(got) : got[i] \in {m[1] : m \in M}
        BY <3>1, LenProperties, ElementOfSeq
      <4>3. got = [i \in 1..Len(got) |-> got[i]]
        BY <3>1, LenProperties
      <4>4. \A i \in 1..Len(got) : got[i] \in {m[1] : m \in M2}
        BY <4>1, <4>2
      <4> QED BY <4>2, <4>3, <4>4, IsASeq
    <3>3. Slots(heap, a)' = Slots(heap, a) /\ \A i : PartOf(a, r, i)' = PartOf(a, r, i)
      BY <1>1 DEF PartOf
    <3>4. x \in DOMAIN mem' /\ mem'[x] = mem[x]
      BY <2>1
    <3>5. R!Built([type |-> FieldInfo[a.info].ftype, got |-> got])'
            = R!Built([type |-> FieldInfo[a.info].ftype, got |-> got])
      BY DEF R!Built
    <3>6. ItemsMatch(x, a, r, M2)'
      BY <3>1, <3>2, <3>3, <3>4, <3>5 DEF ItemsMatch
    <3> QED BY <1>3, <2>1, <3>4, <3>6 DEF Matches
  <2>2. CASE FieldInfo[a.info].ftype \in ScalarTypes
    BY <1>3, <2>2 DEF Matches
  <2>3. CASE FieldInfo[a.info].ftype \notin ScalarTypes /\ Retyped(a.info, r)
    BY <1>3, <2>3 DEF Matches
  <2> QED BY <1>3, <2>1, <2>2, <2>3 DEF Matches
<1> QED BY <1>2, <1>3

\* The frames below the top are filling none of the objects in O.
BelowAreNot(O) ==
  \A n \in 1..Len(rstack) - 1 : HasObject(rstack[n]) => rstack[n].obj \notin O

\* What has been read stays read.
LEMMA CorrespondsKept ==
  ASSUME Still, NEW M, NEW M2, M \subseteq M2, Corresponds(M),
         NEW O, OthersStay(O), \A m \in M : m[1] \notin O
  PROVE  \A m \in M : Matches(m[1], m[2].act, m[2].as, M2)'
<1> SUFFICES ASSUME NEW m \in M PROVE Matches(m[1], m[2].act, m[2].as, M2)'
  OBVIOUS
<1>1. PICK x, a, r : x = m[1] /\ a = m[2].act /\ r = m[2].as
  OBVIOUS
<1>2. Matches(x, a, r, M) /\ x \notin O
  BY <1>1 DEF Corresponds
<1>3. x \in DOMAIN mem => x \in DOMAIN mem' /\ mem'[x] = mem[x]
  BY <1>2 DEF OthersStay
<1>4. Matches(x, a, r, M2)'
  BY <1>2, <1>3, MatchesKept
<1> QED BY <1>1, <1>4

\* ... and so does what it has read, ...
LEMMA HasKept ==
  ASSUME Still, NEW f \in RFrame, NEW c, NEW M, NEW M2, M \subseteq M2, Has(f, c, M),
         HasObject(f) => mem'[f.obj] = mem[f.obj]
  PROVE  Has(f, c, M2)'
<1>1. heap' = heap
  BY DEF Still
<1>2. \A i : PartOf(c.act, c.as, i)' = PartOf(c.act, c.as, i)
  BY <1>1 DEF PartOf
<1>3. HasObject(f) => FieldsMatch(f.obj, c.act, c.as, c.read, M2)'
  BY FieldsMatchKept DEF Has
<1>4. f.fn = "items" => \A i \in 1..Len(f.got) : <<f.got[i], PartOf(c.act, c.as, i)>> \in M2
  BY DEF Has
<1> QED BY <1>2, <1>3, <1>4 DEF Has

\* A step from the dues p to the dues q, from the correspondence M to M2, that takes none
\* of the share of the frames below the top and changes no object but those in O, which are
\* neither theirs nor in the correspondence.
StaysAbove(p, q, M, M2, src, O) ==
  /\ Still /\ rstack \in Seq(RFrame) /\ rstack # <<>> /\ Owns
  /\ Tracked(p, M, src) /\ M \subseteq M2
  /\ OthersStay(O) /\ BelowAreNot(O) /\ \A m \in M : m[1] \notin O
  /\ \A i \in 1..src[Len(rstack)].from : q[i] = p[i]

\* The frames below the top go on as they are.
LEMMA BelowKept ==
  ASSUME NEW p, NEW q, NEW M, NEW M2, NEW src, NEW O, StaysAbove(p, q, M, M2, src, O)
  PROVE  \A n \in 1..Len(rstack) - 1 : \A f : f = rstack[n] =>
           /\ Reads(f, src[n], q)' /\ Has(f, src[n], M2)'
           /\ HasObject(f) => \A m \in M : f.obj # m[1]
<1> SUFFICES ASSUME NEW n \in 1..Len(rstack) - 1, NEW f, f = rstack[n]
             PROVE  /\ Reads(f, src[n], q)' /\ Has(f, src[n], M2)'
                    /\ HasObject(f) => \A m \in M : f.obj # m[1]
  OBVIOUS
<1>0. /\ Still /\ rstack \in Seq(RFrame) /\ rstack # <<>> /\ Owns
      /\ Tracked(p, M, src) /\ M \subseteq M2
      /\ OthersStay(O) /\ BelowAreNot(O)
      /\ \A i \in 1..src[Len(rstack)].from : q[i] = p[i]
  BY DEF StaysAbove
<1>1. PICK l, c : l = Len(rstack) /\ c = src[n]
  OBVIOUS
<1>2. l \in Nat \ {0} /\ n \in 1..l /\ l \in 1..l /\ n < l /\ f \in RFrame
  BY <1>0, <1>1, RTopIsFrame, ElementOfSeq
<1>3. Reads(f, c, p) /\ Has(f, c, M) /\ c.to <= src[l].from
  BY <1>0, <1>1, <1>2 DEF Tracked, Shares
<1>4. c.to \in Nat /\ src[l].from \in Nat
  <2>1. Reads(rstack[l], src[l], p)
    BY <1>0, <1>1, <1>2 DEF Tracked, Shares
  <2> QED BY <1>3, <2>1 DEF Reads
<1>5. \A i \in 1..c.to : q[i] = p[i]
  BY <1>0, <1>1, <1>3, <1>4
<1>6. Reads(f, c, q)'
  BY <1>0, <1>2, <1>3, <1>5, ReadsKept
<1>7. HasObject(f) => f.obj \in DOMAIN mem /\ f.obj \notin O
  BY <1>0, <1>1, <1>2 DEF Owns, BelowAreNot
<1>8. Has(f, c, M2)'
  BY <1>0, <1>2, <1>3, <1>7, HasKept DEF OthersStay
<1>9. HasObject(f) => \A m \in M : f.obj # m[1]
  BY <1>0, <1>1, <1>2 DEF Tracked, LeftAlone
<1> QED BY <1>1, <1>6, <1>8, <1>9

\* What is asked for does not change.
LEMMA AskedStays ==
  ASSUME Still
  PROVE  /\ Origin' = Origin
         /\ \A a, r, i : PartOf(a, r, i)' = PartOf(a, r, i)
         /\ \A f, c, d : AskedBy(f, c, d)' <=> AskedBy(f, c, d)
<1>1. heap' = heap /\ call' = call /\ readerKlass' = readerKlass
  BY DEF Still
<1>2. \A a, r, i : PartOf(a, r, i)' = PartOf(a, r, i)
  BY <1>1 DEF PartOf
<1>3. Origin' = Origin
  BY <1>1 DEF Origin, Root, Klass
<1> QED BY <1>2, <1>3 DEF AskedBy

\* The frame on top goes on, perhaps as another.
LEMMA TopGoesOn ==
  ASSUME NEW p, NEW q, NEW M, NEW src, NEW O, StaysAbove(p, q, M, M, src, O),
         NEW c, c = src[Len(rstack)],
         NEW f \in RFrame, NEW d, rstack' = R!WithTop(f), Ignores(f) <=> Ignores(R!Top),
         Part(d) = Part(c), d.from = c.from, d.to = Len(q),
         Reads(f, d, q)', Has(f, d, M)', HasObject(f) => \A m \in M : f.obj # m[1],
         IF ret' = <<>> THEN d.doing = {}
         ELSE \E i \in Int : d.doing = {i} /\ <<ret'[1], PartOf(d.act, d.as, i)>> \in M
  PROVE  \E src2 : Tracked(q, M, src2)'
<1>0. /\ Still /\ rstack \in Seq(RFrame) /\ rstack # <<>> /\ Owns
      /\ Tracked(p, M, src) /\ OthersStay(O) /\ \A m \in M : m[1] \notin O
  BY DEF StaysAbove
<1>1. PICK l : l = Len(rstack)
  OBVIOUS
<1>2. l \in Nat \ {0} /\ l \in 1..l /\ R!Top = rstack[l]
  BY <1>0, <1>1, RTopIsFrame
<1>3. Len(rstack') = l /\ \A n \in 1..l : rstack'[n] = IF n = l THEN f ELSE rstack[n]
  BY <1>0, <1>1, RReplace
<1>4. PICK src2 : src2 = [n \in 1..l |-> IF n = l THEN d ELSE src[n]]
  OBVIOUS
<1>5. \A n \in 1..l : src2[n] = IF n = l THEN d ELSE src[n]
  BY <1>4
<1>6. c = src[l] /\ \A m, n \in 1..l : m < n => src[m].to <= src[n].from
  BY <1>0, <1>1, <1>2 DEF Tracked, Shares
<1>7. ASSUME NEW n \in 1..l
      PROVE  Reads(rstack[n], src2[n], q)' /\ Has(rstack[n], src2[n], M)'
             /\ (HasObject(rstack'[n]) => \A m \in M : rstack'[n].obj # m[1])
  <2>1. CASE n = l
    BY <1>3, <1>5, <2>1
  <2>2. CASE n # l
    <3>1. n \in 1..Len(rstack) - 1
      BY <1>1, <1>2, <2>2
    <3>2. PICK g : g = rstack[n]
      OBVIOUS
    <3>4. Reads(g, src[n], q)' /\ Has(g, src[n], M)' /\ (HasObject(g) => \A m \in M : g.obj # m[1])
      BY <3>1, <3>2, BelowKept
    <3> QED BY <1>3, <1>5, <2>2, <3>2, <3>4
  <2> QED BY <2>1, <2>2
<1>8. \A m, n \in 1..l : m < n => src2[m].to <= src2[n].from
  BY <1>2, <1>5, <1>6
<1>9. ASSUME NEW n \in 1..l
      PROVE  /\ src2[n].to = IF n = l THEN Len(q) ELSE src2[n + 1].from
             /\ IF n = 1 THEN ~Ignores(rstack'[1]) /\ Part(src2[1]) = Origin
                ELSE AskedBy(rstack'[n], src2[n], src2[n - 1])
  <2>1. /\ src[n].to = IF n = l THEN Len(p) ELSE src[n + 1].from
        /\ IF n = 1 THEN ~Ignores(rstack[1]) /\ Part(src[1]) = Origin
           ELSE AskedBy(rstack[n], src[n], src[n - 1])
    BY <1>0, <1>1, <1>2 DEF Tracked, Shares
  <2>2. src2[n].to = IF n = l THEN Len(q) ELSE src2[n + 1].from
    <3>1. CASE n = l
      BY <1>5, <3>1
    <3>2. CASE n # l
      <4>1. n + 1 \in 1..l
        BY <1>2, <3>2
      <4> QED BY <1>5, <1>6, <2>1, <3>2, <4>1
    <3> QED BY <3>1, <3>2
  <2>3. Ignores(rstack'[n]) <=> Ignores(rstack[n])
    BY <1>2, <1>3
  <2>4. Part(src2[n]) = Part(src[n])
    BY <1>5, <1>6
  <2>5. CASE n = 1
    BY <2>1, <2>2, <2>3, <2>4, <2>5
  <2>6. CASE n # 1
    <3>1. n - 1 \in 1..l /\ n - 1 # l
      BY <1>2, <2>6
    <3>2. src2[n - 1] = src[n - 1]
      BY <1>5, <3>1
    <3> QED BY <2>1, <2>2, <2>3, <2>4, <2>6, <3>2 DEF AskedBy
  <2> QED BY <2>5, <2>6
<1>10. Shares(src2, q)'
  BY <1>3, <1>7, <1>8, <1>9, <1>0, AskedStays DEF Shares
<1>11. LeftAlone(M)'
  <2>1. \A m \in M : m[1] \in VALUE \cup DOMAIN mem'
    BY <1>0 DEF Tracked, LeftAlone, OthersStay
  <2> QED BY <1>3, <1>7, <2>1 DEF LeftAlone
<1>12. Corresponds(M)'
  BY <1>0, CorrespondsKept DEF Tracked, Corresponds
<1>13. Returned(src2, M)'
  <2>1. rstack' # <<>> /\ src2[Len(rstack')] = d
    BY <1>2, <1>3, <1>5
  <2>2. PartOf(d.act, d.as, 0)' = PartOf(d.act, d.as, 0)
        /\ \A i : PartOf(d.act, d.as, i)' = PartOf(d.act, d.as, i)
    BY <1>0, AskedStays
  <2> QED BY <2>1, <2>2 DEF Returned
<1>14. \A n \in 1..Len(rstack') : Has(rstack[n], src2[n], M)'
  BY <1>3, <1>7
<1>15. Tracked(q, M, src2)'
  BY <1>10, <1>11, <1>12, <1>13, <1>14 DEF Tracked
<1> QED BY <1>15

\* The frame on top goes on, and calls another, g, to read a part.
LEMMA TopCalls ==
  ASSUME NEW p, NEW q, NEW M, NEW src, NEW O, StaysAbove(p, q, M, M, src, O),
         NEW c, c = src[Len(rstack)],
         NEW f \in RFrame, NEW g \in RFrame, NEW d, NEW e,
         rstack' = Append(R!WithTop(f), g), ~Ignores(f), ~Ignores(R!Top), ~HasObject(g),
         Part(d) = Part(c), d.from = c.from, e.from = d.to, e.to = Len(q),
         Reads(f, d, q)', Has(f, d, M)', HasObject(f) => \A m \in M : f.obj # m[1],
         Reads(g, e, q)', Has(g, e, M)', e.doing = {}, AskedBy(g, e, d), ret' = <<>>
  PROVE  \E src2 : Tracked(q, M, src2)'
<1>0. /\ Still /\ rstack \in Seq(RFrame) /\ rstack # <<>> /\ Owns
      /\ Tracked(p, M, src) /\ OthersStay(O) /\ \A m \in M : m[1] \notin O
  BY DEF StaysAbove
<1>1. PICK l : l = Len(rstack)
  OBVIOUS
<1>2. l \in Nat \ {0} /\ l \in 1..l /\ R!Top = rstack[l]
  BY <1>0, <1>1, RTopIsFrame
<1>3. /\ Len(rstack') = l + 1 /\ rstack'[l + 1] = g
      /\ \A n \in 1..l : rstack'[n] = IF n = l THEN f ELSE rstack[n]
  BY <1>0, <1>1, RPush
<1>4. PICK src2 : src2 = [n \in 1..l + 1 |-> IF n = l + 1 THEN e ELSE IF n = l THEN d ELSE src[n]]
  OBVIOUS
<1>5. src2[l + 1] = e /\ \A n \in 1..l : src2[n] = IF n = l THEN d ELSE src[n]
  BY <1>2, <1>4
<1>6. c = src[l] /\ \A m, n \in 1..l : m < n => src[m].to <= src[n].from
  BY <1>0, <1>1 DEF Tracked, Shares
<1>7. ASSUME NEW n \in 1..l
      PROVE  Reads(rstack[n], src2[n], q)' /\ Has(rstack[n], src2[n], M)'
             /\ (HasObject(rstack'[n]) => \A m \in M : rstack'[n].obj # m[1])
  <2>1. CASE n = l
    BY <1>3, <1>5, <2>1
  <2>2. CASE n # l
    <3>1. n \in 1..Len(rstack) - 1
      BY <1>1, <1>2, <2>2
    <3>2. PICK h : h = rstack[n]
      OBVIOUS
    <3>3. Reads(h, src[n], q)' /\ Has(h, src[n], M)' /\ (HasObject(h) => \A m \in M : h.obj # m[1])
      BY <3>1, <3>2, BelowKept
    <3> QED BY <1>3, <1>5, <2>2, <3>2, <3>3
  <2> QED BY <2>1, <2>2
<1>8. /\ Reads(rstack[l + 1], src2[l + 1], q)' /\ Has(rstack[l + 1], src2[l + 1], M)'
      /\ ~HasObject(rstack'[l + 1])
  BY <1>3, <1>5
<1>9. \A n \in 1..l + 1 : n = l + 1 \/ n \in 1..l
  BY <1>2
<1>10. \A m, n \in 1..l + 1 : m < n => src2[m].to <= src2[n].from
  <2> SUFFICES ASSUME NEW m \in 1..l + 1, NEW n \in 1..l + 1, m < n
               PROVE  src2[m].to <= src2[n].from
    OBVIOUS
  <2>1. m \in 1..l
    BY <1>2
  <2>2. d.from \in Nat /\ d.to \in Nat /\ d.from <= d.to
    BY DEF Reads
  <2>3. CASE n \in 1..l
    BY <1>5, <1>6, <2>1, <2>3
  <2>4. CASE n = l + 1 /\ m = l
    BY <1>5, <2>1, <2>2, <2>4
  <2>5. CASE n = l + 1 /\ m # l
    <3>1. src[m].to <= c.from
      BY <1>2, <1>6, <2>1, <2>5
    <3>2. src[m].to \in Nat
      <4>1. Reads(rstack[m], src[m], p)
        BY <1>0, <1>1, <2>1 DEF Tracked, Shares
      <4> QED BY <4>1 DEF Reads
    <3>3. src2[m] = src[m] /\ src2[n] = e
      BY <1>5, <2>1, <2>5
    <3> QED BY <2>2, <3>1, <3>2, <3>3
  <2> QED BY <1>9, <2>3, <2>4, <2>5
<1>11. ASSUME NEW n \in 1..l
       PROVE  /\ src2[n].to = src2[n + 1].from
              /\ IF n = 1 THEN ~Ignores(rstack'[1]) /\ Part(src2[1]) = Origin
                 ELSE AskedBy(rstack'[n], src2[n], src2[n - 1])
  <2>1. /\ n # l => src[n].to = src[n + 1].from
        /\ IF n = 1 THEN ~Ignores(rstack[1]) /\ Part(src[1]) = Origin
           ELSE AskedBy(rstack[n], src[n], src[n - 1])
    BY <1>0, <1>1, <1>2 DEF Tracked, Shares
  <2>2. src2[n].to = src2[n + 1].from
    <3>1. CASE n = l
      BY <1>5, <3>1
    <3>2. CASE n # l
      <4>1. n + 1 \in 1..l
        BY <1>2, <3>2
      <4> QED BY <1>5, <1>6, <2>1, <3>2, <4>1
    <3> QED BY <3>1, <3>2
  <2>3. Ignores(rstack'[n]) <=> Ignores(rstack[n])
    BY <1>2, <1>3
  <2>4. Part(src2[n]) = Part(src[n])
    BY <1>5, <1>6
  <2>5. CASE n = 1
    BY <2>1, <2>2, <2>3, <2>4, <2>5
  <2>6. CASE n # 1
    <3>1. n - 1 \in 1..l /\ n - 1 # l
      BY <1>2, <2>6
    <3>2. src2[n - 1] = src[n - 1]
      BY <1>5, <3>1
    <3> QED BY <2>1, <2>2, <2>3, <2>4, <2>6, <3>2 DEF AskedBy
  <2> QED BY <2>5, <2>6
<1>12. Shares(src2, q)'
  <2>1. \A n \in 1..l + 1 : Reads(rstack[n], src2[n], q)'
    BY <1>7, <1>8, <1>9
  <2>2. ASSUME NEW n \in 1..l + 1
        PROVE  /\ src2[n].to = IF n = l + 1 THEN Len(q) ELSE src2[n + 1].from
               /\ IF n = 1 THEN ~Ignores(rstack'[1]) /\ Part(src2[1]) = Origin
                  ELSE AskedBy(rstack'[n], src2[n], src2[n - 1])
    <3>1. CASE n = l + 1
      <4>1. n # 1 /\ n - 1 = l /\ l \in 1..l
        BY <1>2, <3>1
      <4>2. rstack'[n] = g /\ src2[n] = e /\ src2[n - 1] = d
        BY <1>3, <1>5, <3>1, <4>1
      <4> QED BY <3>1, <4>1, <4>2
    <3>2. CASE n \in 1..l
      <4>1. n # l + 1
        BY <1>2, <3>2
      <4> QED BY <1>11, <3>2, <4>1
    <3> QED BY <1>9, <3>1, <3>2
  <2> QED BY <1>0, <1>3, <1>10, <2>1, <2>2, AskedStays DEF Shares
<1>13. LeftAlone(M)'
  <2>1. \A m \in M : m[1] \in VALUE \cup DOMAIN mem'
    BY <1>0 DEF Tracked, LeftAlone, OthersStay
  <2> QED BY <1>3, <1>7, <1>8, <1>9, <2>1 DEF LeftAlone
<1>14. Corresponds(M)'
  BY <1>0, CorrespondsKept DEF Tracked, Corresponds
<1>15. Returned(src2, M)'
  <2>1. rstack' # <<>> /\ src2[Len(rstack')] = e
    BY <1>2, <1>3, <1>5
  <2> QED BY <2>1 DEF Returned
<1>16. \A n \in 1..Len(rstack') : Has(rstack[n], src2[n], M)'
  BY <1>3, <1>7, <1>8, <1>9
<1>17. Tracked(q, M, src2)'
  BY <1>12, <1>13, <1>14, <1>15, <1>16 DEF Tracked
<1> QED BY <1>17

\* The frame on top returns what it read.
LEMMA TopReturns ==
  ASSUME NEW p, NEW q, NEW M, NEW M2, NEW src, NEW O, StaysAbove(p, q, M, M2, src, O),
         NEW c, c = src[Len(rstack)], rstack' = R!Pop, Len(q) = c.from, NEW x,
         IF Ignores(R!Top) THEN M2 = M /\ ret' = <<>>
         ELSE /\ M2 = M \cup {<<x, Part(c)>>} /\ ret' = <<x>>
              /\ x \in VALUE \cup DOMAIN mem'
              /\ BelowAreNot({x}) /\ Matches(x, c.act, c.as, M2)'
  PROVE  Tracked(q, M2, src)'
<1>0. /\ Still /\ rstack \in Seq(RFrame) /\ rstack # <<>> /\ Owns /\ M \subseteq M2
      /\ Tracked(p, M, src) /\ OthersStay(O) /\ \A m \in M : m[1] \notin O
  BY DEF StaysAbove
<1>1. PICK l : l = Len(rstack)
  OBVIOUS
<1>2. l \in Nat \ {0} /\ l \in 1..l /\ R!Top = rstack[l]
  BY <1>0, <1>1, RTopIsFrame
<1>3. /\ Len(rstack') = l - 1
      /\ \A n \in 1..l - 1 : rstack'[n] = rstack[n] /\ n \in 1..l /\ n # l
  BY <1>0, <1>1, <1>2, RPop
<1>4. c = src[l] /\ \A m, n \in 1..l : m < n => src[m].to <= src[n].from
  BY <1>0, <1>1 DEF Tracked, Shares
<1>5. \A m \in M2 : m \in M \/ (~Ignores(R!Top) /\ m = <<x, Part(c)>>)
  OBVIOUS
<1>6. ASSUME NEW n \in 1..l - 1
      PROVE  Reads(rstack[n], src[n], q)' /\ Has(rstack[n], src[n], M2)'
             /\ (HasObject(rstack'[n]) => \A m \in M2 : rstack'[n].obj # m[1])
  <2>1. PICK h : h = rstack[n]
    OBVIOUS
  <2>2. Reads(h, src[n], q)' /\ Has(h, src[n], M2)' /\ (HasObject(h) => \A m \in M : h.obj # m[1])
    BY <1>1, <2>1, BelowKept
  <2>3. ~Ignores(R!Top) /\ HasObject(h) => h.obj # x
    BY <1>1, <2>1 DEF BelowAreNot
  <2> QED BY <1>3, <1>5, <2>1, <2>2, <2>3
<1>7. ASSUME NEW n \in 1..l
      PROVE  /\ src[n].to = IF n = l THEN Len(p) ELSE src[n + 1].from
             /\ IF n = 1 THEN ~Ignores(rstack[1]) /\ Part(src[1]) = Origin
                ELSE AskedBy(rstack[n], src[n], src[n - 1])
  BY <1>0, <1>1 DEF Tracked, Shares
<1>8. Shares(src, q)'
  <2>1. \A n \in 1..l - 1 : src[n].to = IF n = l - 1 THEN Len(q) ELSE src[n + 1].from
    BY <1>2, <1>3, <1>4, <1>7
  <2> QED BY ZenonT(40), <1>0, <1>3, <1>4, <1>6, <1>7, <2>1, AskedStays DEF Shares
<1>9. LeftAlone(M2)'
  <2>1. \A m \in M2 : m[1] \in VALUE \cup DOMAIN mem'
    BY <1>0, <1>5 DEF Tracked, LeftAlone, OthersStay
  <2> QED BY <1>3, <1>6, <2>1 DEF LeftAlone
<1>10. Corresponds(M2)'
  <2>1. \A m \in M : Matches(m[1], m[2].act, m[2].as, M2)'
    BY <1>0, CorrespondsKept DEF Tracked
  <2>2. ~Ignores(R!Top) => Matches(x, Part(c).act, Part(c).as, M2)'
    BY DEF Part
  <2> QED BY <1>5, <2>1, <2>2 DEF Corresponds
<1>11. Returned(src, M2)'
  <2>1. CASE l = 1
    <3>1. rstack' = <<>>
      BY <1>0, <1>3, <2>1, RPop, EmptySeq
    <3>2. ~Ignores(R!Top) /\ Part(c) = Origin
      BY <1>2, <1>4, <1>7, <2>1
    <3>3. ret' = <<x>> /\ ret'[1] = x /\ <<x, Origin>> \in M2
      BY <3>2
    <3> QED BY <1>0, <3>1, <3>3, AskedStays DEF Returned
  <2>2. CASE l # 1
    <3>1. rstack' # <<>> /\ Len(rstack') = l - 1
      BY <1>2, <1>3, <2>2
    <3>2. PICK d : d = src[l - 1]
      OBVIOUS
    <3>3. AskedBy(R!Top, c, d)
      BY <1>2, <1>4, <1>7, <2>2, <3>2
    <3>4. CASE Ignores(R!Top)
      BY <3>1, <3>2, <3>3, <3>4 DEF AskedBy, Returned
    <3>5. CASE ~Ignores(R!Top)
      <4>1. PICK i \in Int : d.doing = {i} /\ Part(c) = PartOf(d.act, d.as, i)
        BY <3>3, <3>5 DEF AskedBy
      <4>2. ret' # <<>> /\ ret'[1] = x /\ <<x, PartOf(d.act, d.as, i)>> \in M2
        BY <3>5, <4>1
      <4>3. PartOf(d.act, d.as, i)' = PartOf(d.act, d.as, i)
        BY <1>0, AskedStays
      <4> QED BY <3>1, <3>2, <4>1, <4>2, <4>3 DEF Returned
    <3> QED BY <3>4, <3>5
  <2> QED BY <2>1, <2>2
<1> QED BY <1>3, <1>6, <1>8, <1>9, <1>10, <1>11 DEF Tracked

\* All that was written has passed its checks, and all that it calls for was written.
Checked ==
  /\ visited \subseteq Activation /\ Root \in visited
  /\ \A a \in visited : Verdict(heap, a) = "ok" /\ Callees(heap, a) \subseteq visited

\* The reader, at the dues p, is tracked.
Tracing(due, p, M, src) ==
  /\ Follows(due) /\ p = due[pos - 1] /\ Tracked(p, M, src)
  /\ rres.st = "running" /\ ObjectsInv /\ RetInv /\ ObjectsAreObjects /\ Checked

Traced(due) == \E M, src : Tracked(due[pos - 1], M, src)

\* The part of a that a slot of it is, was written.
LEMMA PartWasWritten ==
  ASSUME Checked, NEW a \in visited, Wire(a) = a, NEW i \in Slots(heap, a), NEW r
  PROVE  LET b == PartOf(a, r, i).act IN
         /\ b \in visited /\ b \in Activation /\ Wire(b) = b
         /\ Whole(heap, Callee(heap, a, i)) = Whole(heap, b)
<1>1. PICK c : c = Callee(heap, a, i)
  OBVIOUS
<1>2. PICK b : b = PartOf(a, r, i).act
  OBVIOUS
<1>3. c \in visited /\ c \in Activation /\ a \in Activation
  BY <1>1 DEF Checked, Callees
<1>4. c.klass = NULL /\ c = AnyOf(c.info, c.val)
  <2>1. a.klass # NULL \/ FieldInfo[a.info].ftype # "STRUCT"
    <3>1. ASSUME a.klass = NULL, FieldInfo[a.info].ftype = "STRUCT" PROVE FALSE
      <4>1. a = StructOf(FieldInfo[a.info].klass, a.val)
        BY <3>1 DEF Wire
      <4>2. a.klass = FieldInfo[a.info].klass /\ a.info = NULL
        BY <4>1 DEF StructOf
      <4>3. a.info \in Infos
        BY <1>3, <3>1, SchemaAssumption DEF Activation
      <4> QED BY <4>2, <4>3, SchemaAssumption
    <3> QED BY <3>1
  <2>2. \E info, val : c = AnyOf(info, val)
    BY <1>1, <2>1 DEF Callee
  <2> QED BY <2>2 DEF AnyOf
<1>5. b = IF FieldInfo[c.info].ftype = "STRUCT" THEN Callee(heap, c, TheStruct) ELSE c
  BY <1>1, <1>2 DEF PartOf
<1>6. CASE FieldInfo[c.info].ftype = "STRUCT"
  <2>1. c.info \in Infos
    BY <1>3, <1>4, SchemaAssumption DEF Activation
  <2>2. TheStruct \in Slots(heap, c)
    BY <1>4, <1>6 DEF Slots, ScalarTypes
  <2>3. b = StructOf(FieldInfo[c.info].klass, c.val)
    BY <1>4, <1>5, <1>6 DEF Callee
  <2>4. b \in visited
    BY <1>3, <1>5, <1>6, <2>2 DEF Checked, Callees
  <2>5. b.klass \in Klasses
    BY <1>6, <2>1, <2>3, InfoIsWellFormed DEF StructOf
  <2>6. Wire(b) = b
    BY <2>5, SchemaAssumption DEF Wire
  <2>7. Wire(c) = b
    BY <1>4, <1>6, <2>3 DEF Wire
  <2> QED BY <1>1, <1>2, <2>4, <2>6, <2>7 DEF Checked, Whole
<1>7. CASE FieldInfo[c.info].ftype # "STRUCT"
  <2>1. b = c
    BY <1>5, <1>7
  <2>2. Wire(b) = b
    BY <1>7, <2>1 DEF Wire
  <2> QED BY <1>1, <1>2, <1>3, <2>1, <2>2
<1> QED BY <1>6, <1>7

\* What is tracked of the frame on top.
TopTracked(p, M, src, c) ==
  /\ c = src[Len(rstack)] /\ c.to = Len(p) /\ Reads(R!Top, c, p) /\ Has(R!Top, c, M)
  /\ HasObject(R!Top) => \A m \in M : R!Top.obj # m[1]
  /\ ret = <<>> => c.doing = {}
  /\ ret # <<>> => \E i \in Int : c.doing = {i} /\ <<ret[1], PartOf(c.act, c.as, i)>> \in M
  /\ c.from \in Nat /\ c.to \in Nat /\ c.from <= c.to
  /\ R!Top \in RFrame /\ rstack \in Seq(RFrame) /\ rstack # <<>>

\* The frame on top, as it is tracked.
LEMMA TopIsTracked ==
  ASSUME NEW due, NEW p, NEW M, NEW src, Tracing(due, p, M, src), rstack # <<>>
  PROVE  \E c : TopTracked(p, M, src, c)
<1>1. rstack \in Seq(RFrame) /\ Tracked(p, M, src)
  BY DEF Tracing, Follows, ReaderTypes
<1>2. Len(rstack) \in 1..Len(rstack) /\ R!Top = rstack[Len(rstack)] /\ R!Top \in RFrame
  BY <1>1, RTopIsFrame
<1>3. PICK c : c = src[Len(rstack)]
  OBVIOUS
<1>4. Reads(R!Top, c, p) /\ Has(R!Top, c, M) /\ c.to = Len(p)
  BY <1>1, <1>2, <1>3 DEF Tracked, Shares
<1>5. HasObject(R!Top) => \A m \in M : R!Top.obj # m[1]
  BY <1>1, <1>2 DEF Tracked, LeftAlone
<1>6. /\ ret = <<>> => c.doing = {}
      /\ ret # <<>> => \E i \in Int : c.doing = {i} /\ <<ret[1], PartOf(c.act, c.as, i)>> \in M
  BY <1>1, <1>3 DEF Tracked, Returned
<1>7. c.from \in Nat /\ c.to \in Nat /\ c.from <= c.to
  BY <1>4 DEF Reads
<1>8. TopTracked(p, M, src, c)
  BY <1>1, <1>2, <1>3, <1>4, <1>5, <1>6, <1>7 DEF TopTracked
<1> QED BY <1>8

\* Only a frame that takes a value is given one.
LEMMA NothingReturned ==
  ASSUME RetInv, rstack # <<>>, R!Top.fn \in {"any", "skip"} \/ (R!Top.fn = "union" /\ R!Top.pc # "value")
  PROVE  ret = <<>>
BY DEF RetInv, Takes

\* A step that changes no object, or that of the frame on top.
LEMMA StepIsAbove ==
  ASSUME NEW due, NEW p, NEW M, NEW src, Tracing(due, p, M, src), rstack # <<>>, Still,
         NEW c, TopTracked(p, M, src, c), NEW q, \A i \in 1..c.from : q[i] = p[i],
         NEW M2, M \subseteq M2, NEW O, OthersStay(O),
         O = {} \/ (HasObject(R!Top) /\ O = {R!Top.obj})
  PROVE  StaysAbove(p, q, M, M2, src, O)
<1>1. rstack \in Seq(RFrame) /\ Tracked(p, M, src) /\ Owns /\ Younger
  BY DEF Tracing, Follows, ReaderTypes, ObjectsInv
<1>2. \A m \in M : m[1] \notin O
  BY DEF TopTracked
<1>3. BelowAreNot(O)
  <2> SUFFICES ASSUME NEW n \in 1..Len(rstack) - 1, HasObject(rstack[n]), HasObject(R!Top)
               PROVE  rstack[n].obj # R!Top.obj
    BY DEF BelowAreNot
  <2>1. PICK l : l = Len(rstack)
    OBVIOUS
  <2>2. l \in 1..l /\ n \in 1..l /\ n < l /\ R!Top = rstack[l]
    BY <1>1, <2>1, RTopIsFrame
  <2>3. rstack[n].obj < rstack[l].obj /\ rstack[n].obj \in 1..Len(mem)
    BY <1>1, <2>1, <2>2 DEF Younger, Owns
  <2> QED BY <2>2, <2>3
<1>4. \A i \in 1..src[Len(rstack)].from : q[i] = p[i]
  BY DEF TopTracked
<1> QED BY <1>1, <1>2, <1>3, <1>4 DEF StaysAbove

\* An object x is made, and y refers to it.
Makes(x, y) == mem' = Append(mem, x) /\ y = Len(mem) + 1

IsNewTo(y, M) == \A m \in M : m[1] # y

\* A new object is none of those there are.
LEMMA NewIsAnother ==
  ASSUME NEW due, NEW p, NEW M, NEW src, Tracing(due, p, M, src),
         NEW x, NEW y, Makes(x, y)
  PROVE  /\ OthersStay({}) /\ y \in DOMAIN mem' /\ mem'[y] = x /\ y \in Nat
         /\ IsNewTo(y, M)
         /\ BelowAreNot({y})
<1>0. mem' = Append(mem, x) /\ y = Len(mem) + 1
  BY DEF Makes
<1>1. mem \in Seq(RObject) /\ rstack \in Seq(RFrame) /\ Owns /\ LeftAlone(M)
  BY DEF Tracing, Follows, ReaderTypes, ObjectsInv, Tracked
<1>2. Len(mem) \in Nat /\ DOMAIN mem = 1..Len(mem)
  BY <1>1, LenProperties
<1>3. mem \in Seq(RObject \cup {x}) /\ x \in RObject \cup {x}
  BY <1>1
<1>4. /\ Len(mem') = Len(mem) + 1 /\ DOMAIN mem' = 1..Len(mem) + 1
      /\ mem'[y] = x /\ \A i \in 1..Len(mem) : mem'[i] = mem[i]
  BY <1>0, <1>2, <1>3, AppendProperties
<1>5. OthersStay({}) /\ y \in DOMAIN mem' /\ y \in Nat
  BY <1>0, <1>2, <1>4 DEF OthersStay
<1>6. y \notin VALUE \cup DOMAIN mem
  BY <1>0, <1>2, <1>5, RoundTripAssumption
<1>7. IsNewTo(y, M)
  BY <1>1, <1>6 DEF LeftAlone, IsNewTo
<1>8. BelowAreNot({y})
  <2> SUFFICES ASSUME NEW n \in 1..Len(rstack) - 1, HasObject(rstack[n]) PROVE rstack[n].obj # y
    BY DEF BelowAreNot
  <2>1. Len(rstack) \in Nat
    BY <1>1, LenProperties
  <2>2. n \in 1..Len(rstack)
    BY <2>1
  <2>3. rstack[n].obj \in 1..Len(mem)
    BY <1>1, <2>2 DEF Owns
  <2> QED BY <1>0, <1>2, <2>3
<1> QED BY <1>4, <1>5, <1>7, <1>8

\* The fields of an object that was read, as those of what it was read of.
LEMMA FieldsOfSame ==
  ASSUME NEW o, NEW a, NEW r, NEW S, NEW T, NEW M, Fids(r) \cap S = Fids(r) \cap T,
         FieldsMatch(o, a, r, S, M)
  PROVE  FieldsMatch(o, a, r, T, M)
BY DEF FieldsMatch

\* An object has been read, and is returned.
LEMMA ObjectIsDone ==
  ASSUME NEW due, NEW p, NEW M, NEW src, Tracing(due, p, M, src), Still, rstack # <<>>,
         HasObject(R!Top), NEW c, TopTracked(p, M, src, c),
         c.read = Present(heap, c.act.klass, c.act.val),
         NEW q, q = due[pos' - 1], Len(q) = c.from, \A i \in 1..c.from : q[i] = p[i],
         rstack' = R!Pop, ret' = <<R!Top.obj>>, mem' = mem
  PROVE  Traced(due)'
<1>1. PICK x, o : x = R!Top.obj /\ o = R!Top.klass
  OBVIOUS
<1>2. PICK M2 : M2 = M \cup {<<x, Part(c)>>}
  OBVIOUS
<1>3. OthersStay({})
  BY DEF OthersStay
<1>4. M \subseteq M2
  BY <1>2
<1>5. StaysAbove(p, q, M, M2, src, {})
  BY <1>3, <1>4, StepIsAbove
<1>6. BelowAreNot({x})
  <2>1. OthersStay({x}) /\ M \subseteq M
    BY DEF OthersStay
  <2>2. StaysAbove(p, q, M, M, src, {x})
    BY <1>1, <2>1, StepIsAbove
  <2> QED BY <2>2 DEF StaysAbove
<1>7. /\ rstack \in Seq(RFrame) /\ mem \in Seq(RObject) /\ Owns /\ ObjectsAreObjects
  BY DEF Tracing, Follows, ReaderTypes, ObjectsInv
<1>8. Len(rstack) \in 1..Len(rstack) /\ R!Top = rstack[Len(rstack)]
  BY <1>7, RTopIsFrame
<1>9. x \in 1..Len(mem) /\ mem[x].klass = o
  BY <1>1, <1>7, <1>8 DEF Owns
<1>10. /\ c.act.klass \in Klasses /\ c.as = o
       /\ FieldsMatch(x, c.act, c.as, c.read, M)
  BY <1>1 DEF TopTracked, Reads, Has
<1>11. o \in Klasses
  BY <1>1, <1>7, <1>8, TopKinds DEF ObjectFrames, HasObject
<1>12. mem[x].type = "object" /\ x \in DOMAIN mem /\ mem'[x] = mem[x]
  BY <1>7, <1>9, <1>11 DEF ObjectsAreObjects
<1>13. Matches(x, c.act, c.as, M2)'
  <2>1. c.act.klass # NULL
    BY <1>10, SchemaAssumption
  <2>2. Matches(x, c.act, c.as, M)
    BY <1>9, <1>10, <1>12, <2>1 DEF Matches
  <2>3. PICK a, r : a = c.act /\ r = c.as
    OBVIOUS
  <2>4. Matches(x, a, r, M2)'
    BY <1>4, <1>12, <2>2, <2>3, MatchesKept
  <2> QED BY <2>3, <2>4
<1>14. ~Ignores(R!Top)
  BY DEF Ignores, HasObject
<1>15. c = src[Len(rstack)] /\ x \in VALUE \cup DOMAIN mem' /\ ret' = <<x>>
  BY <1>1, <1>12 DEF TopTracked
<1>16. Tracked(q, M2, src)'
  BY <1>2, <1>5, <1>6, <1>13, <1>14, <1>15, TopReturns
<1> QED BY <1>16 DEF Traced

\* A frame at a header finds there a field of what it reads, or the stop field after
\* the last one.
FieldTracked(fid, c, q) ==
  /\ fid \in Present(heap, c.act.klass, c.act.val) \ c.read
  /\ fid \in Fids(c.act.klass) /\ fid \in Int
  /\ R!FieldId(R!Top.last) = fid
  /\ R!Event.type = FieldInfo[InfoOf(c.act.klass, fid)].ftype
  /\ InfoOf(c.act.klass, fid) \in Infos
  /\ Len(q) = c.from + 2
  /\ q[c.from + 1] = [act |-> c.act, last |-> fid,
                      rest |-> Present(heap, c.act.klass, c.act.val) \ (c.read \cup {fid})]
  /\ q[c.from + 2] = Whole(heap, Callee(heap, c.act, fid))

HeaderTracked(c, p, q) ==
  /\ Len(q) \in Nat /\ \A i \in 1..c.from : q[i] = p[i]
  /\ c.act.klass \in Klasses /\ R!Top.klass \in Compatible[c.act.klass]
  /\ R!Event.ev \in {"field", "stop"}
  /\ R!Event.ev = "stop" =>
       Len(q) = c.from /\ c.read = Present(heap, c.act.klass, c.act.val)
  /\ R!Event.ev = "field" => \E fid : FieldTracked(fid, c, q)

\* The header that comes next is that of a field to read, or the end of the struct.
LEMMA HeaderIsTracked ==
  ASSUME NEW due, NEW p, NEW M, NEW src, Tracing(due, p, M, src), rstack # <<>>,
         HasObject(R!Top), NEW c, TopTracked(p, M, src, c), ret = <<>>, pos <= Len(input)
  PROVE  HeaderTracked(c, p, due[pos])
<1>0. Follows(due) /\ p = due[pos - 1] /\ rres.st = "running" /\ IsHeap(heap)
  BY DEF Tracing, Follows
<1>1. PICK q \in Seq(Due) : /\ q = due[pos] /\ Settles(heap, p, R!Event, q)
                            /\ R!Event \in WireEvent
  BY <1>0, EventDue
<1>2. PICK e, d, k, v, f : /\ e = R!Event /\ d = p[Len(p)] /\ k = c.act.klass /\ v = c.act.val
                           /\ f = R!Top
  OBVIOUS
<1>3. /\ c.to = c.from + 1 /\ c.to = Len(p) /\ k \in Klasses /\ c.doing = {}
      /\ d = [act |-> c.act, last |-> f.last, rest |-> Present(heap, k, v) \ c.read]
      /\ c.read \subseteq Present(heap, k, v) /\ c.from \in Nat
  BY <1>2 DEF TopTracked, Reads
<1>4. d.act = c.act /\ d.last = f.last /\ d.rest = Present(heap, k, v) \ c.read
  BY <1>3
<1>5. Settles(heap, p, e, q)
  BY <1>1, <1>2
<1>6. Len(q) = c.from + Brings(e) /\ \A i \in 1..c.from : q[i] = p[i]
  BY <1>3, <1>5 DEF Settles
<1>7. /\ e.ev \in {"field", "stop"}
      /\ e.ev = "stop" => Brings(e) = 0
      /\ e.ev = "field" => Brings(e) = 2 /\ \E fid \in Int : SettlesField(heap, p, e, q, fid)
  <2>1. d = p[Len(p)] /\ d.act.klass \in Klasses
    BY <1>2, <1>3, <1>4
  <2> QED BY <1>5, <2>1, ObjectDue
<1>8. f.klass \in Compatible[k]
  <2>1. PICK a : TopIsToRead(p, a)
    BY <1>0, TopDue
  <2>2. ReadsObject(heap, f, d)
    BY <1>2, <2>1 DEF TopIsToRead, IsToRead
  <2> QED BY <1>2, <1>4, <2>2 DEF ReadsObject
<1>9. e.ev = "stop" => c.read = Present(heap, k, v)
  <2> SUFFICES ASSUME e.ev = "stop" PROVE d.rest = {}
    BY <1>3, <1>4
  <2>1. d.act.klass # NULL
    BY <1>2, <1>3, <1>4, SchemaAssumption
  <2>2. SettlesStruct(heap, p, e, q)
    BY <1>2, <1>5, <2>1 DEF Settles
  <2>3. ASSUME d.rest # {} PROVE FALSE
    <3>1. PICK fid \in Int : SettlesField(heap, p, e, q, fid)
      BY <1>2, <2>2, <2>3 DEF SettlesStruct
    <3>2. e.ev = "field"
      BY <3>1 DEF SettlesField, FieldBegin
    <3> QED BY <3>2
  <2> QED BY <2>3
<1>10. ASSUME e.ev = "field" PROVE \E fid : FieldTracked(fid, c, q)
  <2>1. PICK fid \in Int : SettlesField(heap, p, e, q, fid)
    BY <1>7, <1>10
  <2>2. /\ fid \in d.rest /\ fid \in Present(heap, k, v)
        /\ e = FieldBegin(InfoOf(k, fid), fid, d.last)
        /\ q[Len(p)] = [act |-> d.act, last |-> fid, rest |-> d.rest \ {fid}]
        /\ q[Len(p) + 1] = Whole(heap, Callee(heap, c.act, fid))
    BY <1>2, <1>4, <2>1 DEF SettlesField, IsFirst
  <2>3. fid \in Fids(k)
    BY <2>2 DEF Present
  <2>4. InfoOf(k, fid) \in Infos
    BY <1>3, <2>3, FieldHasInfo
  <2>5. /\ e.type = FieldInfo[InfoOf(k, fid)].ftype /\ e.fid = fid
        /\ e.delta = IF fid - d.last \in 1..15 THEN fid - d.last ELSE 0
    BY <2>2 DEF FieldBegin
  <2>6. R!FieldId(f.last) = fid
    <3>1. f.last \in Int
      <4>1. rstack \in Seq(RFrame)
        BY <1>0 DEF Follows, ReaderTypes
      <4> QED BY <1>2, <4>1, TopKinds DEF ObjectFrames, HasObject
    <3> QED BY <1>2, <1>4, <2>5, <3>1 DEF R!FieldId
  <2>7. d.rest \ {fid} = Present(heap, k, v) \ (c.read \cup {fid})
    BY <1>4
  <2>8. Len(p) = c.from + 1 /\ Len(p) + 1 = c.from + 2 /\ Len(q) = c.from + 2
    BY <1>3, <1>6, <1>7, <1>10
  <2>9. FieldTracked(fid, c, q)
    BY <1>2, <1>4, <2>2, <2>3, <2>4, <2>5, <2>6, <2>7, <2>8 DEF FieldTracked
  <2> QED BY <2>9
<1>11. Len(q) \in Nat /\ (e.ev = "stop" => Len(q) = c.from)
  BY <1>1, <1>3, <1>6, <1>7, LenProperties
<1>12. HeaderTracked(c, p, q)
  BY <1>2, <1>3, <1>6, <1>7, <1>8, <1>9, <1>10, <1>11 DEF HeaderTracked
<1> QED BY <1>1, <1>12

\* A part, as what a frame that reads it reads.
LEMMA PartIsPart ==
  ASSUME NEW a, NEW r, NEW i, NEW b, b = PartOf(a, r, i), NEW e, e.act = b.act, e.as = b.as
  PROVE  Part(e) = b
BY DEF Part, PartOf

\* The frame on top has read the header of a field that its class knows.
LEMMA FieldIsBegun ==
  ASSUME NEW due, NEW p, NEW M, NEW src, Tracing(due, p, M, src), Still, rstack # <<>>,
         HasObject(R!Top), NEW c, TopTracked(p, M, src, c), c.doing = {},
         NEW q, q = due[pos' - 1], HeaderTracked(c, p, q),
         NEW fid, FieldTracked(fid, c, q), fid \in Fids(R!Top.klass),
         NEW f \in RFrame, HasObject(f), f.klass = R!Top.klass, f.obj = R!Top.obj,
         f.last = fid, f.info = InfoOf(R!Top.klass, fid),
         NEW g \in RFrame, g = R!AnyFrame(R!Event.type, InfoOf(R!Top.klass, fid)),
         rstack' = Append(R!WithTop(f), g), ret' = <<>>, mem' = mem
  PROVE  Traced(due)'
<1>1. PICK a, r : a = c.act /\ r = R!Top.klass
  OBVIOUS
<1>2. PICK b : b = PartOf(a, r, fid)
  OBVIOUS
<1>3. PICK d : d = [act |-> a, as |-> c.as, read |-> c.read, doing |-> {fid},
                    from |-> c.from, to |-> c.from + 1]
  OBVIOUS
<1>4. PICK e : e = [act |-> b.act, as |-> b.as, read |-> {}, doing |-> {},
                    from |-> c.from + 1, to |-> c.from + 2]
  OBVIOUS
<1>5. /\ c.as = r /\ c.from \in Nat /\ a.klass \in Klasses /\ a.klass # NULL
      /\ a \in visited /\ a \in Activation /\ Wire(a) = a
      /\ c.read \subseteq Present(heap, a.klass, a.val)
  <2>1. ~Ignores(R!Top)
    BY DEF Ignores, HasObject
  <2> QED BY <1>1, <2>1, SchemaAssumption DEF TopTracked, Reads
<1>6. /\ fid \in Present(heap, a.klass, a.val) /\ fid \notin c.read /\ fid \in Int
      /\ Len(q) = c.from + 2
      /\ q[c.from + 1] = [act |-> a, last |-> fid,
                          rest |-> Present(heap, a.klass, a.val) \ (c.read \cup {fid})]
      /\ q[c.from + 2] = Whole(heap, Callee(heap, a, fid))
  BY <1>1 DEF FieldTracked
<1>7. fid \in Slots(heap, a)
  BY <1>5, <1>6 DEF Slots
<1>8. /\ b.act \in visited /\ b.act \in Activation /\ Wire(b.act) = b.act
      /\ q[c.from + 2] = Whole(heap, b.act)
  BY <1>2, <1>5, <1>6, <1>7, PartWasWritten DEF Tracing
<1>9. b.as = Target(InfoOf(r, fid))
  BY <1>2, <1>5 DEF PartOf
<1>10. Reads(f, d, q)
  <2>1. f.fn \notin {"any", "items", "skip"} /\ ~Ignores(f)
    BY DEF HasObject, Ignores
  <2> QED BY <1>1, <1>3, <1>5, <1>6, <2>1 DEF Reads
<1>11. g.fn = "any" /\ g.info = InfoOf(r, fid) /\ ~HasObject(g) /\ ~Ignores(g)
  BY <1>1 DEF R!AnyFrame, HasObject, Ignores
<1>12. Reads(g, e, q)
  <2>1. c.from + 2 = c.from + 1 + 1 /\ c.from + 1 \in Nat /\ c.from + 2 \in Nat
        /\ c.from + 1 <= c.from + 2
    BY <1>5
  <2> QED BY <1>4, <1>8, <1>9, <1>11, <2>1 DEF Reads
<1>13. Reads(f, d, q)' /\ Reads(g, e, q)'
  BY <1>10, <1>12, ReadsKept
<1>14. Has(f, d, M)' /\ Has(g, e, M)'
  <2>1. Has(f, d, M)
    <3>1. f.fn # "items"
      BY DEF HasObject
    <3> QED BY <1>1, <1>3, <3>1 DEF TopTracked, Has
  <2>2. Has(g, e, M)
    BY <1>11 DEF Has
  <2> QED BY <2>1, <2>2, HasKept
<1>15. AskedBy(g, e, d)
  <2>1. Part(e) = PartOf(d.act, d.as, fid)
    BY <1>2, <1>3, <1>4, <1>5, PartIsPart
  <2> QED BY <1>3, <1>6, <1>11, <2>1 DEF AskedBy
<1>16. StaysAbove(p, q, M, M, src, {})
  <2>1. OthersStay({}) /\ M \subseteq M
    BY DEF OthersStay
  <2> QED BY <2>1, StepIsAbove DEF HeaderTracked
<1>17. /\ c = src[Len(rstack)] /\ ~Ignores(f) /\ ~Ignores(R!Top) /\ Part(d) = Part(c)
       /\ d.from = c.from /\ e.from = d.to /\ e.to = Len(q) /\ e.doing = {}
       /\ \A m \in M : f.obj # m[1]
  BY <1>1, <1>3, <1>4, <1>6 DEF TopTracked, Ignores, HasObject, Part
<1>18. \E src2 : Tracked(q, M, src2)'
  BY <1>11, <1>13, <1>14, <1>15, <1>16, <1>17, TopCalls
<1> QED BY <1>18 DEF Traced

\* It has read that of a field its class does not know, and skips it.
LEMMA FieldIsIgnored ==
  ASSUME NEW due, NEW p, NEW M, NEW src, Tracing(due, p, M, src), Still, rstack # <<>>,
         HasObject(R!Top), NEW c, TopTracked(p, M, src, c), c.doing = {},
         NEW q, q = due[pos' - 1], HeaderTracked(c, p, q),
         NEW fid, FieldTracked(fid, c, q), fid \notin Fids(R!Top.klass),
         NEW f \in RFrame, HasObject(f), f.klass = R!Top.klass, f.obj = R!Top.obj,
         f.last = fid,
         NEW g \in RFrame, g = R!SkipFrame(1, <<>>),
         rstack' = Append(R!WithTop(f), g), ret' = <<>>, mem' = mem
  PROVE  Traced(due)'
<1>1. PICK a, r : a = c.act /\ r = R!Top.klass
  OBVIOUS
<1>3. PICK d : d = [act |-> a, as |-> c.as, read |-> c.read \cup {fid}, doing |-> {},
                    from |-> c.from, to |-> c.from + 1]
  OBVIOUS
<1>4. PICK e : e = [act |-> a, as |-> r, read |-> {}, doing |-> {},
                    from |-> c.from + 1, to |-> c.from + 2]
  OBVIOUS
<1>5. /\ c.as = r /\ c.from \in Nat /\ a.klass \in Klasses
      /\ a \in visited /\ a \in Activation /\ Wire(a) = a
      /\ c.read \subseteq Present(heap, a.klass, a.val)
  <2>1. ~Ignores(R!Top)
    BY DEF Ignores, HasObject
  <2> QED BY <1>1, <2>1 DEF TopTracked, Reads
<1>6. /\ fid \in Present(heap, a.klass, a.val) /\ fid \notin c.read
      /\ Len(q) = c.from + 2
      /\ q[c.from + 1] = [act |-> a, last |-> fid,
                          rest |-> Present(heap, a.klass, a.val) \ (c.read \cup {fid})]
  BY <1>1 DEF FieldTracked
<1>10. Reads(f, d, q)
  <2>1. f.fn \notin {"any", "items", "skip"} /\ ~Ignores(f)
    BY DEF HasObject, Ignores
  <2>2. d.read \cup d.doing = c.read \cup {fid} /\ d.read \subseteq Present(heap, a.klass, a.val)
    BY <1>3, <1>5, <1>6
  <2> QED BY <1>1, <1>3, <1>5, <1>6, <2>1, <2>2 DEF Reads
<1>11. g.fn = "skip" /\ g.left = 1 /\ g.value = <<>> /\ ~HasObject(g) /\ Ignores(g)
  BY DEF R!SkipFrame, HasObject, Ignores
<1>12. Reads(g, e, q)
  <2>1. c.from + 2 = c.from + 1 + 1 /\ c.from + 1 \in Nat /\ c.from + 2 \in Nat
        /\ c.from + 1 <= c.from + 2
    BY <1>5
  <2> QED BY <1>4, <1>11, <2>1 DEF Reads, HasObject
<1>13. Reads(f, d, q)' /\ Reads(g, e, q)'
  BY <1>10, <1>12, ReadsKept
<1>14. Has(f, d, M)' /\ Has(g, e, M)'
  <2>1. Has(f, d, M)
    <3>1. f.fn # "items"
      BY DEF HasObject
    <3>2. FieldsMatch(f.obj, a, r, c.read, M)
      BY <1>1, <1>5 DEF TopTracked, Has
    <3>3. FieldsMatch(f.obj, a, r, c.read \cup {fid}, M)
      <4>1. Fids(r) \cap c.read = Fids(r) \cap (c.read \cup {fid})
        BY <1>1
      <4> QED BY <3>2, <4>1, FieldsOfSame
    <3> QED BY <1>3, <1>5, <3>1, <3>3 DEF Has
  <2>2. Has(g, e, M)
    BY <1>11 DEF Has
  <2> QED BY <2>1, <2>2, HasKept
<1>15. AskedBy(g, e, d)
  BY <1>3, <1>11 DEF AskedBy
<1>16. StaysAbove(p, q, M, M, src, {})
  <2>1. OthersStay({}) /\ M \subseteq M
    BY DEF OthersStay
  <2> QED BY <2>1, StepIsAbove DEF HeaderTracked
<1>17. /\ c = src[Len(rstack)] /\ ~Ignores(f) /\ ~Ignores(R!Top) /\ Part(d) = Part(c)
       /\ d.from = c.from /\ e.from = d.to /\ e.to = Len(q) /\ e.doing = {}
       /\ \A m \in M : f.obj # m[1]
  BY <1>1, <1>3, <1>4, <1>6 DEF TopTracked, Ignores, HasObject, Part
<1>18. \E src2 : Tracked(q, M, src2)'
  BY <1>11, <1>13, <1>14, <1>15, <1>16, <1>17, TopCalls
<1> QED BY <1>18 DEF Traced

\* A frame that reads a header.
AtHeader(due, p, M, src, c) ==
  /\ TopTracked(p, M, src, c) /\ c.doing = {} /\ HeaderTracked(c, p, due[pos' - 1])

\* ... has come to the next header of what it reads.
LEMMA HeaderIsRead ==
  ASSUME NEW due, NEW p, NEW M, NEW src, Tracing(due, p, M, src), rstack # <<>>,
         HasObject(R!Top), ret = <<>>, pos <= Len(input), pos' = pos + 1
  PROVE  \E c : AtHeader(due, p, M, src, c)
<1>1. PICK c : TopTracked(p, M, src, c)
  BY TopIsTracked
<1>2. c.doing = {}
  BY <1>1 DEF TopTracked
<1>3. HeaderTracked(c, p, due[pos])
  BY <1>1, HeaderIsTracked
<1>4. pos' - 1 = pos
  BY WhereItIs DEF Tracing
<1> QED BY <1>1, <1>2, <1>3, <1>4 DEF AtHeader

\* The stop field of an object is read.
LEMMA StopIsRead ==
  ASSUME NEW due, NEW p, NEW M, NEW src, Tracing(due, p, M, src), Still, rstack # <<>>,
         HasObject(R!Top), ret = <<>>, pos <= Len(input), pos' = pos + 1,
         R!Event.ev = "stop", rstack' = R!Pop, ret' = <<R!Top.obj>>, mem' = mem
  PROVE  Traced(due)'
<1>1. PICK c : AtHeader(due, p, M, src, c)
  BY HeaderIsRead
<1>2. PICK q : q = due[pos' - 1]
  OBVIOUS
<1>3. TopTracked(p, M, src, c)
  BY <1>1 DEF AtHeader
<1>4. /\ c.read = Present(heap, c.act.klass, c.act.val)
      /\ Len(q) = c.from /\ \A i \in 1..c.from : q[i] = p[i]
  BY <1>1, <1>2 DEF AtHeader, HeaderTracked
<1> QED BY <1>2, <1>3, <1>4, ObjectIsDone

\* readStruct reads a field header.
LEMMA ReadFieldTraced ==
  ASSUME NEW due, NEW p, NEW M, NEW src, Tracing(due, p, M, src), Still, R!ReadField,
         rres'.st = "running"
  PROVE  Traced(due)'
<1>1. /\ rstack # <<>> /\ R!Top.fn = "struct" /\ HasObject(R!Top) /\ ret = <<>>
      /\ pos <= Len(input) /\ pos' = pos + 1 /\ mem' = mem
      /\ R!Event.ev \in {"field", "stop"}
  BY DEF R!ReadField, R!Reading, R!Expecting, R!Headers, HasObject
<1>2. CASE R!Event.ev = "stop"
  <2>1. rstack' = R!Pop /\ ret' = <<R!Top.obj>>
    BY <1>2 DEF R!ReadField, R!Return
  <2> QED BY <1>1, <1>2, <2>1, StopIsRead
<1>3. CASE R!Event.ev = "field"
  <2>1. PICK c : AtHeader(due, p, M, src, c)
    BY <1>1, HeaderIsRead
  <2>2. PICK q : q = due[pos' - 1]
    OBVIOUS
  <2>3. TopTracked(p, M, src, c) /\ c.doing = {} /\ HeaderTracked(c, p, q)
    BY <2>1, <2>2 DEF AtHeader
  <2>4. PICK fid : FieldTracked(fid, c, q)
    BY <1>3, <2>3 DEF HeaderTracked
  <2>5. R!FieldId(R!Top.last) = fid /\ fid \in Int
    BY <2>4 DEF FieldTracked
  <2>6. R!Top \in ObjectFrames /\ R!Top.klass \in Klasses
    <3>1. rstack \in Seq(RFrame)
      BY <2>3 DEF TopTracked
    <3> QED BY <1>1, <3>1, TopKinds DEF ObjectFrames
  <2>7. R!Event.type \in WireType
    <3>1. R!Event \in WireEvent
      BY <1>1, EventIsEvent DEF Tracing, Follows
    <3> QED BY <1>3, <3>1, EventKinds DEF WireType
  <2>8. PICK r : r = R!Top.klass
    OBVIOUS
  <2>9. CASE fid \notin Fids(r)
    <3>1. PICK f, g : f = [R!Top EXCEPT !.last = fid] /\ g = R!SkipFrame(1, <<>>)
      OBVIOUS
    <3>2. rstack' = Append(R!WithTop(f), g) /\ ret' = <<>>
      BY <1>1, <1>3, <2>5, <2>8, <2>9, <3>1 DEF R!ReadField, Fids, R!Fids
    <3>3. f.fn = "struct" /\ f.klass = r /\ f.obj = R!Top.obj /\ f.last = fid
      BY <1>1, <2>6, <2>8, <3>1 DEF ObjectFrames
    <3>4. f \in RFrame
      <4>1. f \in ObjectFrames
        BY <2>5, <2>6, <2>8, <3>1, <3>3 DEF ObjectFrames, Known
      <4> QED BY <4>1 DEF RFrame
    <3>5. g \in RFrame
      BY <3>1 DEF R!SkipFrame, SkipFrames, RFrame
    <3>6. HasObject(f) /\ f.klass = R!Top.klass /\ fid \notin Fids(R!Top.klass)
      BY <2>8, <2>9, <3>3 DEF HasObject
    <3> QED BY ZenonT(40), <1>1, <2>2, <2>3, <2>4, <3>1, <3>2, <3>3, <3>4, <3>5, <3>6, FieldIsIgnored
  <2>10. CASE fid \in Fids(r)
    <3>1. PICK i : i = InfoOf(r, fid)
      OBVIOUS
    <3>2. PICK f, g : f = [R!Top EXCEPT !.last = fid, !.info = i] /\ g = R!AnyFrame(R!Event.type, i)
      OBVIOUS
    <3>3. rstack' = Append(R!WithTop(f), g) /\ ret' = <<>>
      <4>1. \/ rstack' = Append(R!WithTop(f), g) /\ ret' = ret
            \/ rres' = [R!End("raised", "TypeMismatch") EXCEPT
                          !.struct = R!Top.klass, !.field = FieldInfo[i].symName]
        BY <1>3, <2>5, <2>8, <2>10, <3>1, <3>2 DEF R!ReadField, Fids, R!Fids, InfoOf, R!InfoOf
      <4> QED BY <1>1, <4>1 DEF R!End, R!Running
    <3>4. i \in Infos
      BY <2>6, <2>8, <2>10, <3>1, FieldHasInfo
    <3>5. f.fn = "struct" /\ f.klass = r /\ f.obj = R!Top.obj /\ f.last = fid /\ f.info = i
      BY <1>1, <2>6, <2>8, <3>2 DEF ObjectFrames
    <3>6. f \in RFrame
      <4>1. R!Top.pc \in {"first", "value", "second", "leaving"}
        BY <2>6 DEF ObjectFrames
      <4>2. f = [R!Top EXCEPT !.pc = R!Top.pc, !.info = i, !.last = fid]
        BY <2>6, <3>2 DEF ObjectFrames
      <4>3. Known(f)
        BY <2>10, <3>1, <3>5 DEF Known
      <4>4. PICK t, pc : t = R!Top /\ pc = R!Top.pc
        OBVIOUS
      <4> QED BY <2>5, <2>6, <3>4, <4>1, <4>2, <4>3, <4>4, ObjectFrameIsFrame
    <3>7. g \in RFrame
      BY <2>7, <3>2, <3>4 DEF R!AnyFrame, AnyFrames, RFrame
    <3>8. HasObject(f) /\ f.klass = R!Top.klass /\ fid \in Fids(R!Top.klass)
      BY <2>8, <2>10, <3>5 DEF HasObject
    <3> QED BY <1>1, <2>2, <2>3, <2>4, <2>8, <3>1, <3>2, <3>3, <3>5, <3>6, <3>7, <3>8, FieldIsBegun
  <2> QED BY <2>9, <2>10
<1> QED BY <1>1, <1>2, <1>3

\* readUnion reads its first header: it knows the field.
LEMMA ReadUnionFieldTraced ==
  ASSUME NEW due, NEW p, NEW M, NEW src, Tracing(due, p, M, src), Still, R!ReadUnionField
  PROVE  Traced(due)'
<1>1. /\ rstack # <<>> /\ R!Top.fn = "union" /\ HasObject(R!Top) /\ R!Top.pc = "first"
      /\ pos <= Len(input) /\ pos' = pos + 1 /\ mem' = mem
      /\ R!Event.ev \in {"field", "stop"}
  BY DEF R!ReadUnionField, R!Reading, R!Expecting, R!Headers, HasObject
<1>2. ret = <<>>
  BY <1>1, NothingReturned DEF Tracing
<1>3. CASE R!Event.ev = "stop"
  <2>1. rstack' = R!Pop /\ ret' = <<R!Top.obj>>
    BY <1>3 DEF R!ReadUnionField, R!Return
  <2> QED BY <1>1, <1>2, <1>3, <2>1, StopIsRead
<1>4. CASE R!Event.ev = "field"
  <2>1. PICK c : AtHeader(due, p, M, src, c)
    BY <1>1, <1>2, HeaderIsRead
  <2>2. PICK q : q = due[pos' - 1]
    OBVIOUS
  <2>3. TopTracked(p, M, src, c) /\ c.doing = {} /\ HeaderTracked(c, p, q)
    BY <2>1, <2>2 DEF AtHeader
  <2>4. PICK fid : FieldTracked(fid, c, q)
    BY <1>4, <2>3 DEF HeaderTracked
  <2>5. R!FieldId(R!Top.last) = fid /\ fid \in Int /\ fid \in Fids(c.act.klass)
    BY <2>4 DEF FieldTracked
  <2>6. R!Top \in ObjectFrames /\ R!Top.klass \in Klasses /\ R!Top.klass \in Unions
    <3>1. rstack \in Seq(RFrame)
      BY <2>3 DEF TopTracked
    <3> QED BY <1>1, <3>1, TopKinds DEF ObjectFrames
  <2>7. R!Event.type \in WireType
    <3>1. R!Event \in WireEvent
      BY <1>1, EventIsEvent DEF Tracing, Follows
    <3> QED BY <1>4, <3>1, EventKinds DEF WireType
  <2>8. PICK r : r = R!Top.klass
    OBVIOUS
  <2>9. fid \in Fids(r)
    <3>1. PICK k : k = c.act.klass
      OBVIOUS
    <3>2. k \in Klasses /\ r \in Compatible[k] /\ Understandable
      BY <2>3, <2>8, <3>1 DEF HeaderTracked, Tracing, Follows
    <3> QED BY <2>5, <2>6, <2>8, <3>1, <3>2, ClassFits
  <2>10. PICK i : i = InfoOf(r, fid)
    OBVIOUS
  <2>11. PICK f, g : /\ f = [R!Top EXCEPT !.pc = "value", !.info = i, !.last = fid]
                     /\ g = R!AnyFrame(R!Event.type, i)
    OBVIOUS
  <2>12. rstack' = Append(R!WithTop(f), g) /\ ret' = <<>>
    BY <1>2, <1>4, <2>5, <2>8, <2>9, <2>10, <2>11
       DEF R!ReadUnionField, Fids, R!Fids, InfoOf, R!InfoOf
  <2>13. i \in Infos
    BY <2>6, <2>8, <2>9, <2>10, FieldHasInfo
  <2>14. f.fn = "union" /\ f.klass = r /\ f.obj = R!Top.obj /\ f.last = fid /\ f.info = i
    BY <1>1, <2>6, <2>8, <2>11 DEF ObjectFrames
  <2>15. f \in RFrame
    <3>1. Known(f)
      BY <2>9, <2>10, <2>14 DEF Known
    <3>2. PICK t : t = R!Top
      OBVIOUS
    <3> QED BY <2>5, <2>6, <2>11, <2>13, <3>1, <3>2, ObjectFrameIsFrame
  <2>16. g \in RFrame
    BY <2>7, <2>11, <2>13 DEF R!AnyFrame, AnyFrames, RFrame
  <2>17. HasObject(f) /\ f.klass = R!Top.klass /\ fid \in Fids(R!Top.klass)
    BY <2>8, <2>9, <2>14 DEF HasObject
  <2> QED BY <1>1, <2>2, <2>3, <2>4, <2>8, <2>10, <2>11, <2>12, <2>14, <2>15, <2>16, <2>17, FieldIsBegun
<1> QED BY <1>1, <1>3, <1>4

\* readUnion reads its stop field.
LEMMA ReadUnionStopTraced ==
  ASSUME NEW due, NEW p, NEW M, NEW src, Tracing(due, p, M, src), Still, R!ReadUnionStop,
         rres'.st = "running"
  PROVE  Traced(due)'
<1>1. /\ rstack # <<>> /\ R!Top.fn = "union" /\ HasObject(R!Top) /\ R!Top.pc = "second"
      /\ pos <= Len(input) /\ pos' = pos + 1 /\ mem' = mem
  BY DEF R!ReadUnionStop, R!Reading, R!Expecting, R!Headers, HasObject
<1>2. ret = <<>>
  BY <1>1, NothingReturned DEF Tracing
<1>3. R!Event.ev = "stop" /\ rstack' = R!Pop /\ ret' = <<R!Top.obj>>
  BY DEF R!ReadUnionStop, R!Return, R!End, R!Running
<1> QED BY <1>1, <1>2, <1>3, StopIsRead

\* The fields that match, once one more of them is stored.
LEMMA OneMoreMatches ==
  ASSUME Still, NEW o, NEW a, NEW r \in Klasses, NEW S, NEW M, FieldsMatch(o, a, r, S, M),
         NEW fid \in Fids(r), fid \notin S, NEW v, <<v, PartOf(a, r, fid)>> \in M,
         \A x \in Names : mem'[o].ivars[x] = IF x = NameOf(r, fid) /\ v # nil
                                             THEN v ELSE mem[o].ivars[x]
  PROVE  FieldsMatch(o, a, r, S \cup {fid}, M)'
<1>1. \A j \in Fids(r) : NameOf(r, j) \in Names /\ (NameOf(r, j) = NameOf(r, fid) => j = fid)
  BY FieldHasInfo, RoundTripAssumption DEF NameOf
<1>2. \A i : PartOf(a, r, i)' = PartOf(a, r, i)
  BY AskedStays
<1>3. ASSUME NEW j \in Fids(r) \cap (S \cup {fid})
      PROVE  \E m \in M :
               /\ m[2] = PartOf(a, r, j)
               /\ mem'[o].ivars[NameOf(r, j)]
                    = IF m[1] = nil THEN R!New(r).ivars[NameOf(r, j)] ELSE m[1]
  <2>1. CASE j = fid
    <3>1. PICK m \in M : m = <<v, PartOf(a, r, fid)>>
      OBVIOUS
    <3>2. m[1] = v /\ m[2] = PartOf(a, r, fid)
      BY <3>1
    <3>3. v = nil => mem[o].ivars[NameOf(r, fid)] = R!New(r).ivars[NameOf(r, fid)]
      <4>1. NameOf(r, fid) \in Names \ {NameOf(r, i) : i \in Fids(r) \cap S}
        BY <1>1
      <4> QED BY <4>1 DEF FieldsMatch
    <3>4. mem'[o].ivars[NameOf(r, j)] = IF m[1] = nil THEN R!New(r).ivars[NameOf(r, j)] ELSE m[1]
      BY <1>1, <2>1, <3>2, <3>3
    <3> QED BY <2>1, <3>2, <3>4
  <2>2. CASE j # fid
    <3>1. j \in Fids(r) \cap S
      BY <2>2
    <3>2. PICK m \in M : /\ m[2] = PartOf(a, r, j)
                         /\ mem[o].ivars[NameOf(r, j)]
                              = IF m[1] = nil THEN R!New(r).ivars[NameOf(r, j)] ELSE m[1]
      BY <3>1 DEF FieldsMatch
    <3>3. mem'[o].ivars[NameOf(r, j)] = mem[o].ivars[NameOf(r, j)]
      BY <1>1, <2>2
    <3> QED BY <3>2, <3>3
  <2> QED BY <2>1, <2>2
<1>4. ASSUME NEW n \in Names \ {NameOf(r, j) : j \in Fids(r) \cap (S \cup {fid})}
      PROVE  mem'[o].ivars[n] = R!New(r).ivars[n]
  <2>1. n # NameOf(r, fid) /\ n \in Names \ {NameOf(r, j) : j \in Fids(r) \cap S}
    OBVIOUS
  <2>2. mem[o].ivars[n] = R!New(r).ivars[n]
    BY <2>1 DEF FieldsMatch
  <2> QED BY <2>1, <2>2
<1> QED BY <1>2, <1>3, <1>4 DEF FieldsMatch

\* An object takes up a field that was read for it.
LEMMA FieldIsStored ==
  ASSUME NEW due, NEW p, NEW M, NEW src, Tracing(due, p, M, src), Still, rstack # <<>>,
         HasObject(R!Top), pos' = pos, NEW v, ret = <<v>>, ret' = <<>>,
         NEW f \in RFrame, HasObject(f), f.klass = R!Top.klass, f.obj = R!Top.obj,
         f.last = R!Top.last, rstack' = R!WithTop(f),
         OthersStay({R!Top.obj}),
         \A x \in Names : mem'[R!Top.obj].ivars[x] =
           IF x = FieldInfo[R!Top.info].symName /\ v # nil THEN v ELSE mem[R!Top.obj].ivars[x]
  PROVE  Traced(due)'
<1>1. PICK c : TopTracked(p, M, src, c)
  BY TopIsTracked
<1>2. PICK a, r, o : a = c.act /\ r = R!Top.klass /\ o = R!Top.obj
  OBVIOUS
<1>3. /\ c.as = r /\ c.from \in Nat /\ c.to = c.from + 1 /\ c.to = Len(p) /\ a.klass \in Klasses
      /\ a \in visited /\ a \in Activation /\ Wire(a) = a
      /\ c.read \subseteq Present(heap, a.klass, a.val)
      /\ p[c.to] = [act |-> a, last |-> R!Top.last,
                    rest |-> Present(heap, a.klass, a.val) \ (c.read \cup c.doing)]
      /\ c.doing = {} \/ \E fid \in Fids(r) \cap Present(heap, a.klass, a.val) :
                           c.doing = {fid} /\ R!Top.info = InfoOf(r, fid) /\ fid \notin c.read
  <2>1. ~Ignores(R!Top)
    BY DEF Ignores, HasObject
  <2> QED BY <1>1, <1>2, <2>1 DEF TopTracked, Reads
<1>4. PICK i \in Int : c.doing = {i} /\ <<v, PartOf(a, r, i)>> \in M
  BY <1>1, <1>2, <1>3 DEF TopTracked
<1>5. PICK fid : /\ fid \in Fids(r) \cap Present(heap, a.klass, a.val)
                 /\ c.doing = {fid} /\ R!Top.info = InfoOf(r, fid) /\ fid \notin c.read
  BY <1>3, <1>4
<1>6. i = fid /\ r \in Klasses
  <2>1. R!Top \in ObjectFrames
    BY <1>1, TopKinds DEF TopTracked
  <2> QED BY <1>2, <1>4, <1>5, <2>1 DEF ObjectFrames
<1>7. PICK d : d = [act |-> a, as |-> r, read |-> c.read \cup {fid}, doing |-> {},
                    from |-> c.from, to |-> c.from + 1]
  OBVIOUS
<1>8. Reads(f, d, p)
  <2>1. f.fn \notin {"any", "items", "skip"} /\ ~Ignores(f)
    BY DEF HasObject, Ignores
  <2>2. d.read \cup d.doing = c.read \cup c.doing /\ d.read \subseteq Present(heap, a.klass, a.val)
    BY <1>3, <1>5, <1>7
  <2>3. /\ d.act = a /\ d.as = r /\ d.doing = {} /\ d.from = c.from /\ d.to = c.from + 1
        /\ d.to = c.to
    BY <1>3, <1>7
  <2>4. p[d.to] = [act |-> a, last |-> f.last,
                   rest |-> Present(heap, a.klass, a.val) \ (d.read \cup d.doing)]
    BY <1>3, <2>2, <2>3
  <2>5. d.from \in Nat /\ d.to \in Nat /\ d.from <= d.to
    BY <1>3, <2>3
  <2> QED BY <1>2, <1>3, <2>1, <2>2, <2>3, <2>4, <2>5 DEF Reads
<1>9. Reads(f, d, p)'
  BY <1>8, ReadsKept
<1>10. Has(f, d, M)'
  <2>1. FieldsMatch(o, a, r, c.read, M)
    BY <1>1, <1>2, <1>3 DEF TopTracked, Has
  <2>2. FieldsMatch(o, a, r, c.read \cup {fid}, M)'
    <3>1. PICK S : S = c.read
      OBVIOUS
    <3>2. \A x \in Names : mem'[o].ivars[x] = IF x = NameOf(r, fid) /\ v # nil
                                              THEN v ELSE mem[o].ivars[x]
      BY <1>2, <1>5 DEF NameOf
    <3>3. FieldsMatch(o, a, r, S \cup {fid}, M)'
      BY <1>4, <1>5, <1>6, <2>1, <3>1, <3>2, OneMoreMatches
    <3> QED BY <3>1, <3>3
  <2>3. f.fn # "items"
    BY DEF HasObject
  <2> QED BY <1>2, <1>7, <2>2, <2>3 DEF Has
<1>11. StaysAbove(p, p, M, M, src, {o})
  <2>1. M \subseteq M /\ \A j \in 1..c.from : p[j] = p[j]
    OBVIOUS
  <2> QED BY <1>1, <1>2, <2>1, StepIsAbove
<1>12. /\ c = src[Len(rstack)] /\ ~Ignores(f) /\ ~Ignores(R!Top) /\ Part(d) = Part(c)
       /\ d.from = c.from /\ d.to = Len(p) /\ d.doing = {}
       /\ \A m \in M : f.obj # m[1]
  BY <1>1, <1>2, <1>3, <1>7 DEF TopTracked, Ignores, HasObject, Part
<1>13. \E src2 : Tracked(p, M, src2)'
  BY <1>9, <1>10, <1>11, <1>12, TopGoesOn
<1>14. due[pos' - 1] = p
  BY DEF Tracing
<1> QED BY <1>13, <1>14 DEF Traced

\* readStruct stores the field it has read, or leaves the default.
LEMMA StoreFieldTraced ==
  ASSUME NEW due, NEW p, NEW M, NEW src, Tracing(due, p, M, src), Still, R!StoreField
  PROVE  Traced(due)'
<1>1. /\ rstack # <<>> /\ HasObject(R!Top) /\ pos' = pos /\ ReaderTypes /\ ObjectsInv
      /\ rstack \in Seq(RFrame) /\ mem \in Seq(RObject)
  BY DEF R!StoreField, R!Reading, HasObject, Tracing, Follows, ReaderTypes
<1>2. /\ R!Top \in ObjectFrames /\ R!Top.obj \in 1..Len(mem)
      /\ rstack' = rstack /\ ret' = <<>>
  BY <1>1, StoreFieldEffect
<1>3. PICK v \in Ref :
        /\ ret = <<v>>
        /\ IF v = nil THEN mem' = mem
           ELSE SetsIvar(R!Top.obj, FieldInfo[R!Top.info].symName, v)
  BY <1>1, StoreFieldEffect
<1>4. PICK f, o, name : f = R!Top /\ o = R!Top.obj /\ name = FieldInfo[R!Top.info].symName
  OBVIOUS
<1>5. f \in RFrame /\ rstack' = R!WithTop(f)
  <2>1. Len(rstack) \in 1..Len(rstack) /\ R!Top = rstack[Len(rstack)] /\ R!Top \in RFrame
    BY <1>1, RTopIsFrame
  <2> QED BY <1>1, <1>2, <1>4, <2>1 DEF R!WithTop
<1>6. DOMAIN mem = 1..Len(mem)
  BY <1>1, LenProperties
<1>7. /\ OthersStay({o})
      /\ \A x \in Names : mem'[o].ivars[x] = IF x = name /\ v # nil THEN v ELSE mem[o].ivars[x]
  <2>1. CASE v = nil
    BY <1>3, <2>1 DEF OthersStay
  <2>2. CASE v # nil
    <3>1. SetsIvar(o, name, v) /\ o \in 1..Len(mem)
      BY <1>2, <1>3, <1>4, <2>2
    <3>2. /\ mem' \in Seq(RObject) /\ Len(mem') = Len(mem)
          /\ \A n \in 1..Len(mem) : n # o => mem'[n] = mem[n]
          /\ \A x \in Names : mem'[o].ivars[x] = IF x = name THEN v ELSE mem[o].ivars[x]
      BY SMTT(40), <1>1, <3>1, IvarSet
    <3>3. DOMAIN mem' = 1..Len(mem)
      BY <3>2, LenProperties
    <3> QED BY <1>6, <2>2, <3>2, <3>3 DEF OthersStay
  <2> QED BY <2>1, <2>2
<1> QED BY <1>1, <1>2, <1>3, <1>4, <1>5, <1>7, FieldIsStored

\* readUnion does.
LEMMA StoreUnionFieldTraced ==
  ASSUME NEW due, NEW p, NEW M, NEW src, Tracing(due, p, M, src), Still, R!StoreUnionField
  PROVE  Traced(due)'
<1>1. /\ rstack # <<>> /\ HasObject(R!Top) /\ pos' = pos /\ ReaderTypes /\ ObjectsInv
      /\ rstack \in Seq(RFrame) /\ mem \in Seq(RObject)
      /\ rstack' = R!WithTop([R!Top EXCEPT !.pc = "second"])
  BY DEF R!StoreUnionField, R!Reading, HasObject, Tracing, Follows, ReaderTypes
<1>2. /\ R!Top \in ObjectFrames /\ R!Top.obj \in 1..Len(mem) /\ R!Top.fn = "union"
      /\ ret' = <<>> /\ FieldInfo[R!Top.info].symName \in Names
  BY <1>1, StoreUnionFieldEffect
<1>3. PICK v \in Ref :
        /\ ret = <<v>>
        /\ IF v = nil THEN mem' = mem
           ELSE SetsUnion(R!Top.obj, FieldInfo[R!Top.info].symName, v)
  BY <1>1, StoreUnionFieldEffect
<1>4. PICK f, o, name : /\ f = [R!Top EXCEPT !.pc = "second"] /\ o = R!Top.obj
                        /\ name = FieldInfo[R!Top.info].symName
  OBVIOUS
<1>5. /\ f \in RFrame /\ f.fn = "union" /\ f.klass = R!Top.klass /\ f.obj = R!Top.obj
      /\ f.last = R!Top.last
  <2>1. /\ f.klass = R!Top.klass /\ f.info = R!Top.info /\ f.fn = "union"
        /\ f.obj = R!Top.obj /\ f.pc = "second" /\ f.last = R!Top.last
    BY <1>2, <1>4 DEF ObjectFrames
  <2>2. f \in ObjectFrames
    BY <1>2, <1>4, <2>1 DEF ObjectFrames, Known
  <2> QED BY <2>1, <2>2 DEF RFrame
<1>6. DOMAIN mem = 1..Len(mem)
  BY <1>1, LenProperties
<1>7. /\ OthersStay({o})
      /\ \A x \in Names : mem'[o].ivars[x] = IF x = name /\ v # nil THEN v ELSE mem[o].ivars[x]
  <2>1. CASE v = nil
    BY <1>3, <2>1 DEF OthersStay
  <2>2. CASE v # nil
    <3>1. SetsUnion(o, name, v) /\ o \in 1..Len(mem) /\ name \in Names
      BY <1>2, <1>3, <1>4, <2>2
    <3>2. /\ mem' \in Seq(RObject) /\ Len(mem') = Len(mem)
          /\ \A n \in 1..Len(mem) : n # o => mem'[n] = mem[n]
          /\ \A x \in Names : mem'[o].ivars[x] = IF x = name THEN v ELSE mem[o].ivars[x]
      BY <1>1, <3>1, UnionSet
    <3>3. DOMAIN mem' = 1..Len(mem)
      BY <3>2, LenProperties
    <3> QED BY <1>6, <2>2, <3>2, <3>3 DEF OthersStay
  <2> QED BY <2>1, <2>2
<1>8. HasObject(f) /\ rstack' = R!WithTop(f)
  BY <1>1, <1>4, <1>5 DEF HasObject
<1> QED BY <1>1, <1>2, <1>3, <1>4, <1>5, <1>7, <1>8, FieldIsStored

\* readAny has a value to read.
AnyTracked(p, M, src, c, w, v) ==
  /\ TopTracked(p, M, src, c) /\ c.doing = {} /\ ret = <<>>
  /\ c.to = c.from + 1 /\ c.to = Len(p) /\ c.from \in Nat
  /\ w \in Infos /\ v \in VALUE
  /\ p[Len(p)] = Whole(heap, AnyOf(w, v)) /\ c.act = Wire(AnyOf(w, v))
  /\ c.act \in visited /\ c.act \in Activation /\ Wire(c.act) = c.act
  /\ c.as = Target(R!Top.info)
  /\ R!Top.type = FieldInfo[w].ftype /\ R!Top.info \in InfoReaders[w]
  /\ R!Top.info \in Infos /\ FieldInfo[R!Top.info].ftype = FieldInfo[w].ftype
  /\ ~Ignores(R!Top)
  /\ FieldInfo[w].ftype # "STRUCT" => c.act = AnyOf(w, v) /\ c.as = R!Top.info

\* It is tracked.
LEMMA AnyIsTracked ==
  ASSUME NEW due, NEW p, NEW M, NEW src, Tracing(due, p, M, src), rstack # <<>>,
         R!Top.fn = "any"
  PROVE  \E c, w, v : AnyTracked(p, M, src, c, w, v)
<1>1. PICK c : TopTracked(p, M, src, c)
  BY TopIsTracked
<1>2. PICK p2, a, w, v : AnyRead(due, p2, a, w, v)
  BY AnyDue DEF Tracing
<1>3. /\ p[Len(p)] = Whole(heap, AnyOf(w, v)) /\ w \in Infos /\ v \in VALUE
      /\ R!Top.type = FieldInfo[w].ftype /\ R!Top.info \in InfoReaders[w]
  BY <1>2 DEF AnyRead, Tracing
<1>4. ~Ignores(R!Top) /\ ret = <<>> /\ c.doing = {}
  <2>1. ret = <<>>
    BY NothingReturned DEF Tracing
  <2> QED BY <1>1, <2>1 DEF Ignores, TopTracked
<1>5. /\ c.to = c.from + 1 /\ c.to = Len(p) /\ c.from \in Nat
      /\ p[c.to] = Whole(heap, c.act) /\ c.as = Target(R!Top.info)
      /\ c.act \in visited /\ c.act \in Activation /\ Wire(c.act) = c.act
  BY <1>1, <1>4 DEF TopTracked, Reads
<1>6. c.act = Wire(AnyOf(w, v))
  BY <1>3, <1>5 DEF Whole
<1>7. R!Top.info \in Infos /\ FieldInfo[R!Top.info].ftype = FieldInfo[w].ftype
  <2>1. PICK r : r = R!Top.info
    OBVIOUS
  <2>2. Understandable /\ r \in InfoReaders[w]
    BY <1>3, <2>1 DEF Tracing, Follows
  <2> QED BY <1>3, <2>1, <2>2, InfoFits
<1>8. FieldInfo[w].ftype # "STRUCT" => c.act = AnyOf(w, v) /\ c.as = R!Top.info
  BY <1>5, <1>6, <1>7 DEF Wire, AnyOf, Target
<1>9. AnyTracked(p, M, src, c, w, v)
  BY <1>1, <1>3, <1>4, <1>5, <1>6, <1>7, <1>8 DEF AnyTracked
<1> QED BY <1>9

\* The next event settles the due on top, and brings others.
LEMMA EventIsTracked ==
  ASSUME NEW due, NEW p, NEW M, NEW src, Tracing(due, p, M, src), pos <= Len(input), pos' = pos + 1,
         NEW n \in Nat, Len(p) = n + 1
  PROVE  \E q : /\ q = due[pos' - 1] /\ Settles(heap, p, R!Event, q) /\ R!Event \in WireEvent
                /\ Len(q) = n + Brings(R!Event) /\ \A i \in 1..n : q[i] = p[i]
<1>1. Follows(due) /\ p = due[pos - 1]
  BY DEF Tracing
<1>2. PICK q \in Seq(Due) : /\ q = due[pos] /\ Settles(heap, p, R!Event, q)
                            /\ R!Event \in WireEvent
  BY <1>1, EventDue
<1>3. pos' - 1 = pos
  BY <1>1, WhereItIs
<1>4. Len(q) = Len(p) - 1 + Brings(R!Event) /\ \A i \in 1..Len(p) - 1 : q[i] = p[i]
  BY <1>2 DEF Settles
<1> QED BY <1>2, <1>3, <1>4

\* A scalar is read.
LEMMA ReadScalarTraced ==
  ASSUME NEW due, NEW p, NEW M, NEW src, Tracing(due, p, M, src), Still, R!ReadScalar
  PROVE  Traced(due)'
<1>1. /\ rstack # <<>> /\ R!Top.fn = "any" /\ R!Top.type \in ScalarTypes
      /\ pos <= Len(input) /\ pos' = pos + 1 /\ mem' = mem
      /\ rstack' = R!Pop /\ ret' = <<R!Event.val>>
  BY DEF R!ReadScalar, R!Reading, R!Expecting, R!Return, ScalarTypes, R!ScalarTypes
<1>2. PICK c, w, v : AnyTracked(p, M, src, c, w, v)
  BY <1>1, AnyIsTracked
<1>3. /\ TopTracked(p, M, src, c) /\ c.from \in Nat /\ Len(p) = c.from + 1
      /\ w \in Infos /\ v \in VALUE /\ FieldInfo[w].ftype \in ScalarTypes
      /\ p[Len(p)] = Whole(heap, AnyOf(w, v)) /\ ~Ignores(R!Top)
  BY <1>1, <1>2 DEF AnyTracked
<1>4. FieldInfo[w].ftype # "STRUCT" /\ c.act = AnyOf(w, v)
  BY <1>2, <1>3 DEF AnyTracked, ScalarTypes
<1>5. PICK n \in Nat : n = c.from
  BY <1>3
<1>6. PICK q : /\ q = due[pos' - 1] /\ Settles(heap, p, R!Event, q)
               /\ Len(q) = n + Brings(R!Event) /\ \A i \in 1..n : q[i] = p[i]
  BY <1>1, <1>3, <1>5, EventIsTracked
<1>7. PICK e : e = R!Event
  OBVIOUS
<1>8. Settles(heap, p, e, q)
  BY <1>6, <1>7
<1>9. Brings(e) = 0
  BY <1>3, <1>8, ScalarDue
<1>10. Len(q) = n
  BY <1>6, <1>7, <1>9
<1>11. e.val = v
  <2>1. Header(heap, AnyOf(w, v)) = <<e>>
    BY <1>3, <1>4, <1>8, ValueDue
  <2>2. PICK s : s = Scalar(w, v)
    OBVIOUS
  <2>3. Header(heap, AnyOf(w, v)) = <<s>>
    <3>1. FieldInfo[w].ftype # "MAP" /\ FieldInfo[w].ftype \notin SequenceTypes
      BY <1>3 DEF ScalarTypes, SequenceTypes
    <3> QED BY <1>3, <1>4, <2>2, <3>1 DEF Header, AnyOf
  <2>4. e = s
    BY <2>1, <2>3
  <2> QED BY <2>2, <2>4 DEF Scalar
<1>12. PICK M2 : M2 = M \cup {<<v, Part(c)>>}
  OBVIOUS
<1>13. StaysAbove(p, q, M, M2, src, {})
  <2>1. OthersStay({}) /\ M \subseteq M2 /\ \A i \in 1..c.from : q[i] = p[i]
    BY <1>1, <1>5, <1>6, <1>12 DEF OthersStay
  <2> QED BY <1>1, <1>3, <2>1, StepIsAbove
<1>14. BelowAreNot({v})
  <2> SUFFICES ASSUME NEW m \in 1..Len(rstack) - 1, HasObject(rstack[m]) PROVE rstack[m].obj # v
    BY DEF BelowAreNot
  <2>1. rstack \in Seq(RFrame) /\ Owns /\ mem \in Seq(RObject)
    BY DEF Tracing, Follows, ReaderTypes, ObjectsInv
  <2>2. Len(rstack) \in Nat /\ Len(mem) \in Nat
    BY <2>1, LenProperties
  <2>3. m \in 1..Len(rstack)
    BY <2>2
  <2>4. rstack[m].obj \in Nat
    BY <2>1, <2>2, <2>3 DEF Owns
  <2> QED BY <1>3, <2>4, RoundTripAssumption
<1>15. Matches(v, c.act, c.as, M2)'
  <2>1. c.act.klass = NULL /\ c.act.info = w /\ c.act.val = v
    BY <1>4 DEF AnyOf
  <2> QED BY <1>3, <2>1 DEF Matches
<1>16. c = src[Len(rstack)] /\ Len(q) = c.from /\ ret' = <<v>> /\ v \in VALUE \cup DOMAIN mem'
  BY <1>1, <1>3, <1>5, <1>7, <1>10, <1>11 DEF TopTracked
<1>17. Tracked(q, M2, src)'
  BY <1>1, <1>3, <1>12, <1>13, <1>14, <1>15, <1>16, TopReturns
<1> QED BY <1>6, <1>17 DEF Traced

\* A container is begun, and its frame takes over from readAny's.
LEMMA ContainerIsBegun ==
  ASSUME NEW due, NEW p, NEW M, NEW src, Tracing(due, p, M, src), Still, rstack # <<>>,
         R!Top.fn = "any", NEW c, NEW w, NEW v, AnyTracked(p, M, src, c, w, v),
         NEW q, q = due[pos' - 1], \A i \in 1..c.from : q[i] = p[i],
         NEW f \in RFrame, ~Ignores(f), ~HasObject(f), rstack' = R!WithTop(f),
         mem' = mem, ret' = <<>>,
         NEW d, d = [act |-> c.act, as |-> c.as, read |-> {}, doing |-> {},
                     from |-> c.from, to |-> Len(q)],
         Reads(f, d, q), Has(f, d, M)
  PROVE  Traced(due)'
<1>1. TopTracked(p, M, src, c) /\ ~Ignores(R!Top)
  BY DEF AnyTracked
<1>2. Reads(f, d, q)'
  BY ReadsKept
<1>3. Has(f, d, M)'
  BY HasKept
<1>4. StaysAbove(p, q, M, M, src, {})
  <2>1. OthersStay({}) /\ M \subseteq M
    BY DEF OthersStay
  <2> QED BY <1>1, <2>1, StepIsAbove
<1>5. /\ c = src[Len(rstack)] /\ Part(d) = Part(c)
      /\ d.from = c.from /\ d.to = Len(q) /\ d.doing = {}
  BY <1>1 DEF TopTracked, Part
<1>6. \E src2 : Tracked(q, M, src2)'
  BY <1>1, <1>2, <1>3, <1>4, <1>5, TopGoesOn
<1> QED BY <1>6 DEF Traced

\* The loop of a container has all of the items to read.
LEMMA ItemsAreRead ==
  ASSUME NEW p, NEW M, NEW src, NEW c, NEW w, NEW v, AnyTracked(p, M, src, c, w, v),
         FieldInfo[w].ftype # "STRUCT", ~Retyped(w, R!Top.info),
         NEW e, NEW q, Settles(heap, p, e, q), NEW n \in Nat, n = Brings(e),
         Len(heap[v].items) = n, Len(q) = c.from + n,
         NEW f, f.fn = "items", f.type = R!Top.type, f.info = R!Top.info, f.left = n,
         f.got = <<>>,
         NEW d, d = [act |-> c.act, as |-> c.as, read |-> {}, doing |-> {},
                     from |-> c.from, to |-> Len(q)]
  PROVE  Reads(f, d, q) /\ Has(f, d, M)
<1>1. /\ c.act = AnyOf(w, v) /\ c.as = R!Top.info /\ c.from \in Nat /\ Len(p) = c.from + 1
      /\ w \in Infos /\ v \in VALUE /\ p[Len(p)] = Whole(heap, AnyOf(w, v))
      /\ c.act \in visited /\ c.act \in Activation /\ Wire(c.act) = c.act
      /\ R!Top.type = FieldInfo[w].ftype /\ FieldInfo[R!Top.info].ftype = FieldInfo[w].ftype
  BY DEF AnyTracked
<1>2. c.act.klass = NULL /\ c.act.info = w /\ c.act.val = v
  BY <1>1 DEF AnyOf
<1>3. ASSUME NEW i \in 1..n
      PROVE  q[c.from + i] = Whole(heap, Callee(heap, c.act, n + 1 - i))
  <2>0. \A j \in 1..Brings(e) :
          q[Len(p) - 1 + j] = Whole(heap, Callee(heap, AnyOf(w, v), Brings(e) + 1 - j))
    <3>1. PICK h : h = heap
      OBVIOUS
    <3>2. /\ w \in Infos /\ v \in VALUE /\ p[Len(p)] = Whole(h, AnyOf(w, v))
          /\ Settles(h, p, e, q)
      BY <1>1, <3>1
    <3>3. \A j \in 1..Brings(e) :
            /\ Brings(e) + 1 - j \in Slots(h, AnyOf(w, v))
            /\ q[Len(p) - 1 + j] = Whole(h, Callee(h, AnyOf(w, v), Brings(e) + 1 - j))
      BY <3>2, ValueDue
    <3> QED BY <3>1, <3>3
  <2>1. q[Len(p) - 1 + i] = Whole(heap, Callee(heap, AnyOf(w, v), Brings(e) + 1 - i))
    BY <2>0
  <2>2. Len(p) - 1 + i = c.from + i
    BY <1>1
  <2> QED BY <1>1, <2>1, <2>2
<1>4. Len(f.got) = 0
  OBVIOUS
<1>5. /\ d.act = c.act /\ d.as = R!Top.info /\ d.doing = {} /\ d.from = c.from
      /\ d.to = c.from + n
  BY <1>1
<1>6. d.from \in Nat /\ d.to \in Nat /\ d.from <= d.to
  BY <1>1, <1>5
<1>7. Reads(f, d, q)
  <2>1. f.fn \notin {"any", "struct", "union", "skip"}
    OBVIOUS
  <2>2. Len(heap[d.act.val].items) = Len(f.got) + f.left + IF d.doing = {} THEN 0 ELSE 1
    BY <1>2, <1>4, <1>5
  <2>3. \A i \in 1..f.left :
          q[d.from + i] = Whole(heap, Callee(heap, d.act, Len(heap[d.act.val].items) + 1 - i))
    BY <1>2, <1>3, <1>5
  <2>4. /\ d.to = d.from + f.left /\ d.act.klass = NULL /\ d.as = f.info
        /\ f.type = FieldInfo[d.act.info].ftype /\ f.type = FieldInfo[f.info].ftype
        /\ ~Retyped(d.act.info, f.info)
    BY <1>1, <1>2, <1>5
  <2>5. d.act \in visited /\ d.act \in Activation /\ Wire(d.act) = d.act
    BY <1>1, <1>5
  <2> QED BY <1>5, <1>6, <2>1, <2>2, <2>3, <2>4, <2>5 DEF Reads, HasObject
<1>8. Has(f, d, M)
  BY <1>4 DEF Has, HasObject
<1> QED BY <1>7, <1>8

\* A list or a set is begun: its elements are to be read, or skipped.
LEMMA ReadSequenceTraced ==
  ASSUME NEW due, NEW p, NEW M, NEW src, Tracing(due, p, M, src), Still, R!ReadSequence
  PROVE  Traced(due)'
<1>1. /\ rstack # <<>> /\ R!Top.fn = "any" /\ R!Top.type \in SequenceTypes
      /\ pos <= Len(input) /\ pos' = pos + 1 /\ mem' = mem /\ ret' = ret
  BY DEF R!ReadSequence, R!Reading, R!Expecting, SequenceTypes, R!SequenceTypes
<1>2. PICK c, w, v : AnyTracked(p, M, src, c, w, v)
  BY <1>1, AnyIsTracked
<1>3. /\ c.from \in Nat /\ Len(p) = c.from + 1 /\ ret = <<>>
      /\ w \in Infos /\ v \in VALUE /\ FieldInfo[w].ftype \in SequenceTypes
      /\ p[Len(p)] = Whole(heap, AnyOf(w, v)) /\ IsHeap(heap)
      /\ R!Top.info \in Infos /\ FieldInfo[R!Top.info].ftype = FieldInfo[w].ftype
      /\ TopTracked(p, M, src, c)
  BY <1>1, <1>2 DEF AnyTracked, Tracing, Follows
<1>4. FieldInfo[w].ftype # "STRUCT" /\ c.act = AnyOf(w, v) /\ c.as = R!Top.info
  BY <1>2, <1>3 DEF AnyTracked, SequenceTypes
<1>5. PICK n \in Nat : n = c.from
  BY <1>3
<1>6. PICK q : /\ q = due[pos' - 1] /\ Settles(heap, p, R!Event, q) /\ R!Event \in WireEvent
               /\ Len(q) = n + Brings(R!Event) /\ \A i \in 1..n : q[i] = p[i]
  BY <1>1, <1>3, <1>5, EventIsTracked
<1>7. PICK e, info : e = R!Event /\ info = R!Top.info
  OBVIOUS
<1>8. Settles(heap, p, e, q)
  BY <1>6, <1>7
<1>9. Brings(e) = e.size /\ e.elem = FieldInfo[FieldInfo[w].elementType].ftype
  BY <1>3, <1>8, SequenceDue
<1>10. e.size = Len(heap[v].items) /\ e.size \in Nat
  <2>1. Header(heap, AnyOf(w, v)) = <<e>>
    BY <1>3, <1>4, <1>8, ValueDue
  <2>2. PICK s : s = ListBegin(w, Len(heap[v].items))
    OBVIOUS
  <2>3. Header(heap, AnyOf(w, v)) = <<s>>
    <3>1. FieldInfo[w].ftype # "MAP" /\ FieldInfo[w].ftype \notin ScalarTypes
      BY <1>3 DEF ScalarTypes, SequenceTypes
    <3> QED BY <1>3, <1>4, <2>2, <3>1 DEF Header, AnyOf
  <2>4. e = s
    BY <2>1, <2>3
  <2>5. heap[v].items \in Seq(VALUE)
    BY <1>3 DEF IsHeap, HeapRecord
  <2>6. Len(heap[v].items) \in Nat
    BY <2>5, LenProperties
  <2> QED BY <2>2, <2>4, <2>6 DEF ListBegin
<1>11. PICK f : /\ rstack' = R!WithTop(f)
                /\ f = IF FieldInfo[info].elementType = NULL
                          \/ e.elem # FieldInfo[FieldInfo[info].elementType].ftype
                       THEN R!SkipFrame(e.size, <<nil>>)
                       ELSE R!ItemsFrame(R!Top.type, info, <<e.elem>>, e.size)
  BY <1>7 DEF R!ReadSequence
<1>12. FieldInfo[info].elementType \in Infos /\ FieldInfo[info].elementType # NULL
  BY <1>3, <1>7, InfoIsWellFormed, SchemaAssumption
<1>13. PICK d : d = [act |-> c.act, as |-> c.as, read |-> {}, doing |-> {},
                     from |-> c.from, to |-> Len(q)]
  OBVIOUS
<1>14. PICK m \in Nat : m = e.size
  BY <1>10
<1>15. /\ Len(q) = c.from + m /\ m = Brings(e) /\ Len(heap[v].items) = m
       /\ \A i \in 1..c.from : q[i] = p[i]
  BY <1>5, <1>6, <1>7, <1>9, <1>10, <1>14
<1>16. f \in RFrame /\ ~Ignores(f) /\ ~HasObject(f) /\ Reads(f, d, q) /\ Has(f, d, M)
  <2>1. CASE f = R!SkipFrame(e.size, <<nil>>) /\ Retyped(w, info)
    <3>1. f.fn = "skip" /\ f.left = m /\ f.value = <<nil>>
      BY <1>14, <2>1 DEF R!SkipFrame
    <3>2. f \in RFrame
      BY <1>14, <2>1 DEF R!SkipFrame, SkipFrames, RFrame
    <3>3. ~Ignores(f) /\ ~HasObject(f)
      BY <3>1 DEF Ignores, HasObject
    <3>4. /\ c.act \in visited /\ c.act \in Activation /\ Wire(c.act) = c.act
      BY <1>2 DEF AnyTracked
    <3>5. c.act.klass = NULL /\ c.act.info = w
      BY <1>4 DEF AnyOf
    <3>6. /\ d.act = c.act /\ d.as = info /\ d.doing = {} /\ d.from = c.from
          /\ d.to = c.from + m
      BY <1>4, <1>7, <1>13, <1>15
    <3>7. d.from \in Nat /\ d.to \in Nat /\ d.from <= d.to
      BY <1>3, <3>6
    <3>8. Reads(f, d, q)
      BY <2>1, <3>1, <3>3, <3>4, <3>5, <3>6, <3>7 DEF Reads
    <3>9. Has(f, d, M)
      BY <3>1, <3>3 DEF Has
    <3> QED BY <3>2, <3>3, <3>8, <3>9
  <2>2. CASE /\ f = R!ItemsFrame(R!Top.type, info, <<e.elem>>, e.size)
             /\ e.elem = FieldInfo[FieldInfo[info].elementType].ftype
    <3>1. /\ f.fn = "items" /\ f.left = m /\ f.type = R!Top.type /\ f.info = info
          /\ f.got = <<>>
      BY <1>14, <2>2 DEF R!ItemsFrame
    <3>2. ~Retyped(w, R!Top.info)
      BY <1>7, <1>9, <2>2 DEF Retyped
    <3>3. Reads(f, d, q) /\ Has(f, d, M)
      <4>1. AnyTracked(p, M, src, c, w, v) /\ f.info = R!Top.info
        BY <1>2, <1>7, <3>1
      <4> QED BY <1>4, <1>8, <1>13, <1>15, <3>1, <3>2, <4>1, ItemsAreRead
    <3>4. f \in RFrame
      <4>1. e.elem \in TType
        <5>1. e.ev = "list"
          BY <1>7 DEF R!ReadSequence, R!Expecting
        <5> QED BY <1>6, <1>7, <5>1, EventKinds
      <4>2. <<e.elem>> \in Seq(WireType) /\ <<>> \in Seq(Ref)
        BY <4>1 DEF WireType
      <4>3. R!Top.type \in {"LIST", "SET", "MAP"} /\ R!Top.type # "MAP"
        BY SMTT(40), <1>1 DEF SequenceTypes
      <4>4. f \in ItemsFrames
        BY <1>3, <1>7, <1>12, <1>14, <2>2, <4>2, <4>3 DEF R!ItemsFrame, ItemsFrames
      <4> QED BY <4>4 DEF RFrame
    <3> QED BY <3>1, <3>3, <3>4 DEF Ignores, HasObject
  <2>3. e.elem # FieldInfo[FieldInfo[info].elementType].ftype => Retyped(w, info)
    BY <1>3, <1>9 DEF Retyped
  <2> QED BY <1>11, <1>12, <2>1, <2>2, <2>3
<1>17. q = due[pos' - 1] /\ rstack' = R!WithTop(f) /\ ret' = <<>> /\ mem' = mem
  BY <1>1, <1>3, <1>6, <1>11
<1> QED BY <1>1, <1>2, <1>13, <1>15, <1>16, <1>17, ContainerIsBegun

\* A map is begun.
LEMMA ReadMapTraced ==
  ASSUME NEW due, NEW p, NEW M, NEW src, Tracing(due, p, M, src), Still, R!ReadMap
  PROVE  Traced(due)'
<1>1. /\ rstack # <<>> /\ R!Top.fn = "any" /\ R!Top.type = "MAP"
      /\ pos <= Len(input) /\ pos' = pos + 1 /\ mem' = mem /\ ret' = ret
  BY DEF R!ReadMap, R!Reading, R!Expecting
<1>2. PICK c, w, v : AnyTracked(p, M, src, c, w, v)
  BY <1>1, AnyIsTracked
<1>3. /\ c.from \in Nat /\ Len(p) = c.from + 1 /\ ret = <<>>
      /\ w \in Infos /\ v \in VALUE /\ FieldInfo[w].ftype = "MAP"
      /\ p[Len(p)] = Whole(heap, AnyOf(w, v)) /\ IsHeap(heap)
      /\ R!Top.info \in Infos /\ FieldInfo[R!Top.info].ftype = "MAP"
      /\ c.act \in visited
  BY <1>1, <1>2 DEF AnyTracked, Tracing, Follows
<1>4. c.act = AnyOf(w, v) /\ c.as = R!Top.info
  BY <1>2, <1>3 DEF AnyTracked
<1>5. PICK n \in Nat : n = c.from
  BY <1>3
<1>6. PICK q : /\ q = due[pos' - 1] /\ Settles(heap, p, R!Event, q) /\ R!Event \in WireEvent
               /\ Len(q) = n + Brings(R!Event) /\ \A i \in 1..n : q[i] = p[i]
  BY <1>1, <1>3, <1>5, EventIsTracked
<1>7. PICK e, info : e = R!Event /\ info = R!Top.info
  OBVIOUS
<1>8. Settles(heap, p, e, q) /\ e \in WireEvent
  BY <1>6, <1>7
<1>9. Brings(e) = 2 * e.size
  BY <1>3, <1>8, MapDue
<1>10. 2 * e.size = Len(heap[v].items) /\ 2 * e.size \in Nat
  <2>1. Header(heap, AnyOf(w, v)) = <<e>>
    BY <1>3, <1>8, ValueDue
  <2>2. PICK s : s = MapBegin(w, Len(heap[v].items) \div 2)
    OBVIOUS
  <2>3. Header(heap, AnyOf(w, v)) = <<s>>
    <3>1. FieldInfo[w].ftype \notin SequenceTypes /\ FieldInfo[w].ftype \notin ScalarTypes
      BY <1>3 DEF ScalarTypes, SequenceTypes
    <3> QED BY <1>3, <2>2, <3>1 DEF Header, AnyOf
  <2>4. e = s
    BY <2>1, <2>3
  <2>5. heap[v].items \in Seq(VALUE)
    BY <1>3 DEF IsHeap, HeapRecord
  <2>6. Len(heap[v].items) \in Nat
    BY <2>5, LenProperties
  <2>7. heap[v].type = "hash"
    <3>1. Verdict(heap, c.act) = "ok"
      BY <1>3 DEF Tracing, Checked
    <3>2. Convert(heap, w, v) = "ok"
      BY <1>4, <3>1 DEF Verdict, AnyOf
    <3> QED BY <1>3, <3>2 DEF Convert, Width
  <2>8. Len(heap[v].items) % 2 = 0
    BY <1>3, <2>7 DEF IsHeap
  <2>9. e.size = Len(heap[v].items) \div 2
    BY <2>2, <2>4 DEF MapBegin
  <2>10. \A L \in Nat : L % 2 = 0 => 2 * (L \div 2) = L
    OBVIOUS
  <2> QED BY <2>6, <2>8, <2>9, <2>10
<1>11. FieldInfo[info].keyType \in Infos /\ FieldInfo[info].elementType \in Infos
  BY <1>3, <1>7, SchemaAssumption DEF WellFormedInfo
<1>12. PICK m \in Nat : m = 2 * e.size
  BY <1>10
<1>13. PICK f : rstack' = R!WithTop(f) /\ f = R!ItemsFrame("MAP", info, R!MapTypes, m)
  <2>1. FieldInfo[info].keyType # NULL /\ FieldInfo[info].elementType # NULL
    BY <1>11, SchemaAssumption
  <2> QED BY <1>7, <1>12, <2>1 DEF R!ReadMap
<1>14. PICK d : d = [act |-> c.act, as |-> c.as, read |-> {}, doing |-> {},
                     from |-> c.from, to |-> Len(q)]
  OBVIOUS
<1>15. /\ Len(q) = c.from + m /\ m = Brings(e) /\ Len(heap[v].items) = m
       /\ \A i \in 1..c.from : q[i] = p[i]
  BY <1>5, <1>6, <1>7, <1>9, <1>10, <1>12
<1>16. /\ f.fn = "items" /\ f.left = m /\ f.type = R!Top.type /\ f.info = R!Top.info
       /\ f.got = <<>>
  BY <1>1, <1>7, <1>13 DEF R!ItemsFrame
<1>17. ~Retyped(w, R!Top.info) /\ FieldInfo[w].ftype # "STRUCT"
  BY <1>3 DEF Retyped, SequenceTypes
<1>18. Reads(f, d, q) /\ Has(f, d, M)
  BY <1>2, <1>8, <1>14, <1>15, <1>16, <1>17, ItemsAreRead
<1>19. f \in RFrame
  <2>1. e.elem \in TType /\ e.key \in TType
    <3>1. e.ev = "map"
      BY <1>7 DEF R!ReadMap, R!Expecting
    <3> QED BY <1>6, <1>7, <3>1, EventKinds
  <2>2. R!MapTypes \in Seq(WireType) /\ Len(R!MapTypes) = 2
    <3>1. \A a, b \in WireType : <<a, b>> \in Seq(WireType) /\ Len(<<a, b>>) = 2
      OBVIOUS
    <3>2. e.key \in WireType /\ e.elem \in WireType /\ "STOP" \in WireType
      BY <2>1 DEF WireType
    <3> QED BY <1>7, <3>1, <3>2 DEF R!MapTypes
  <2>3. <<>> \in Seq(Ref)
    BY EmptySeq
  <2>4. f \in ItemsFrames
    BY <1>3, <1>7, <1>11, <1>13, <2>2, <2>3 DEF R!ItemsFrame, ItemsFrames
  <2> QED BY <2>4 DEF RFrame
<1>20. ~Ignores(f) /\ ~HasObject(f)
  BY <1>16 DEF Ignores, HasObject
<1>21. q = due[pos' - 1] /\ rstack' = R!WithTop(f) /\ ret' = <<>> /\ mem' = mem
  BY <1>1, <1>3, <1>6, <1>13
<1> QED BY <1>1, <1>2, <1>14, <1>15, <1>18, <1>19, <1>20, <1>21, ContainerIsBegun

\* A struct or a union is begun, with an object of the reader's class.
LEMMA ReadStructOrUnionTraced ==
  ASSUME NEW due, NEW p, NEW M, NEW src, Tracing(due, p, M, src), Still, R!ReadStructOrUnion,
         rres'.st = "running"
  PROVE  Traced(due)'
<1>1. /\ rstack # <<>> /\ R!Top.fn = "any" /\ R!Top.type = "STRUCT"
      /\ pos' = pos /\ ret' = ret /\ ReaderTypes
  BY DEF R!ReadStructOrUnion, R!Reading, Tracing, Follows
<1>2. PICK c, w, v : AnyTracked(p, M, src, c, w, v)
  BY <1>1, AnyIsTracked
<1>3. /\ TopTracked(p, M, src, c) /\ ret = <<>> /\ c.doing = {}
      /\ c.to = c.from + 1 /\ c.to = Len(p) /\ c.from \in Nat
      /\ w \in Infos /\ v \in VALUE /\ FieldInfo[w].ftype = "STRUCT"
      /\ p[Len(p)] = Whole(heap, AnyOf(w, v)) /\ c.act = Wire(AnyOf(w, v))
      /\ c.act \in visited /\ c.act \in Activation /\ Wire(c.act) = c.act
      /\ c.as = Target(R!Top.info) /\ FieldInfo[R!Top.info].ftype = "STRUCT"
      /\ ~Ignores(R!Top)
  BY <1>1, <1>2 DEF AnyTracked
<1>4. PICK k \in Klasses :
        /\ k = FieldInfo[R!Top.info].klass
        /\ mem' = Append(mem, R!New(k))
        /\ rstack' = R!WithTop(R!StructFrame(k, Len(mem) + 1))
  <2>1. "crash" # "running"
    OBVIOUS
  <2> QED BY <1>1, <2>1, ReadStructOrUnionFrames
<1>5. PICK a, y, x : a = c.act /\ y = Len(mem) + 1 /\ x = R!New(k)
  OBVIOUS
<1>6. a = StructOf(FieldInfo[w].klass, v) /\ a.klass \in Klasses
  <2>1. FieldInfo[w].klass \in Klasses
    BY <1>3, StructDue
  <2> QED BY <1>3, <1>5, <2>1 DEF Wire, AnyOf, StructOf
<1>7. p[c.to] = [act |-> a, last |-> 0, rest |-> Present(heap, a.klass, a.val)]
  <2>1. a.klass # NULL
    BY <1>6, SchemaAssumption
  <2> QED BY <1>3, <1>5, <2>1 DEF Whole
<1>8. c.as = k
  BY <1>3, <1>4 DEF Target
<1>9. /\ OthersStay({}) /\ y \in DOMAIN mem' /\ mem'[y] = x /\ y \in Nat
      /\ \A m \in M : m[1] # y
  <2>1. Makes(x, y)
    BY <1>4, <1>5 DEF Makes
  <2>2. /\ OthersStay({}) /\ y \in DOMAIN mem' /\ mem'[y] = x /\ y \in Nat
        /\ IsNewTo(y, M)
    BY <2>1, NewIsAnother
  <2> QED BY <2>2 DEF IsNewTo
<1>10. PICK f : f = R!StructFrame(k, y)
  OBVIOUS
<1>11. f \in RFrame /\ f.klass = k /\ f.obj = y /\ HasObject(f) /\ f.last = 0
  <2>1. f \in RFrame /\ f.klass = k /\ f.obj = y
    BY <1>9, <1>10, StructFrameIsFrame
  <2>2. f.fn \in {"struct", "union"} /\ f.last = 0
    BY <1>10 DEF R!StructFrame
  <2> QED BY <2>1, <2>2 DEF HasObject
<1>12. PICK d : d = [act |-> a, as |-> k, read |-> {}, doing |-> {},
                     from |-> c.from, to |-> c.to]
  OBVIOUS
<1>13. /\ d.act = a /\ d.as = k /\ d.read = {} /\ d.doing = {} /\ d.from = c.from /\ d.to = c.to
  BY <1>12
<1>14. Reads(f, d, p)
  <2>1. f.fn \notin {"any", "items", "skip"} /\ ~Ignores(f)
    BY <1>11 DEF HasObject, Ignores
  <2>2. p[d.to] = [act |-> d.act, last |-> f.last,
                   rest |-> Present(heap, d.act.klass, d.act.val) \ (d.read \cup d.doing)]
    BY <1>7, <1>11, <1>13
  <2>3. /\ d.from \in Nat /\ d.to \in Nat /\ d.from <= d.to /\ d.to = d.from + 1
    BY <1>3, <1>13
  <2>4. /\ d.act \in visited /\ d.act \in Activation /\ Wire(d.act) = d.act
        /\ d.act.klass \in Klasses /\ d.as = f.klass
    BY <1>3, <1>5, <1>6, <1>11, <1>13
  <2> QED BY <1>13, <2>1, <2>2, <2>3, <2>4 DEF Reads
<1>15. Reads(f, d, p)'
  BY <1>11, <1>14, ReadsKept
<1>16. Has(f, d, M)'
  <2>1. FieldsMatch(y, a, k, {}, M)'
    BY <1>5, <1>9 DEF FieldsMatch
  <2>2. f.fn # "items"
    BY <1>11 DEF HasObject
  <2> QED BY <1>11, <1>13, <2>1, <2>2 DEF Has
<1>17. StaysAbove(p, p, M, M, src, {})
  <2>1. M \subseteq M /\ \A i \in 1..c.from : p[i] = p[i]
    OBVIOUS
  <2> QED BY <1>1, <1>3, <1>9, <2>1, StepIsAbove
<1>18. /\ c = src[Len(rstack)] /\ ~Ignores(f) /\ Part(d) = Part(c)
       /\ d.from = c.from /\ d.to = Len(p) /\ d.doing = {} /\ ret' = <<>>
       /\ \A m \in M : f.obj # m[1]
  BY <1>1, <1>3, <1>5, <1>8, <1>9, <1>11, <1>13 DEF TopTracked, Ignores, HasObject, Part
<1>19. rstack' = R!WithTop(f)
  BY <1>4, <1>5, <1>10
<1>20. \E src2 : Tracked(p, M, src2)'
  BY <1>3, <1>11, <1>15, <1>16, <1>17, <1>18, <1>19, TopGoesOn
<1>21. due[pos' - 1] = p
  BY <1>1 DEF Tracing
<1> QED BY <1>20, <1>21 DEF Traced

\* A container is being read.
ItemsTracked(p, M, src, c, t) ==
  /\ TopTracked(p, M, src, c) /\ t = R!Top /\ t \in ItemsFrames /\ t.fn = "items"
  /\ t.left \in Nat /\ t.got \in Seq(Ref) /\ Len(t.got) \in Nat
  /\ c.from \in Nat /\ c.to = c.from + t.left /\ c.to = Len(p) /\ c.act.klass = NULL /\ c.as = t.info
  /\ t.type = FieldInfo[c.act.info].ftype /\ t.type = FieldInfo[t.info].ftype
  /\ t.type \in {"LIST", "SET", "MAP"} /\ ~Retyped(c.act.info, t.info)
  /\ Len(heap[c.act.val].items) = Len(t.got) + t.left + IF c.doing = {} THEN 0 ELSE 1
  /\ \A i \in 1..t.left :
       p[c.from + i] = Whole(heap, Callee(heap, c.act, Len(heap[c.act.val].items) + 1 - i))
  /\ \A i \in 1..Len(t.got) : <<t.got[i], PartOf(c.act, c.as, i)>> \in M
  /\ c.act \in visited /\ c.act \in Activation /\ Wire(c.act) = c.act
  /\ c.doing = {} \/ c.doing = {Len(t.got) + 1}
  /\ Slots(heap, c.act) = 1..Len(heap[c.act.val].items)

\* The loop of a container, as it is tracked.
LEMMA ItemsAreTracked ==
  ASSUME NEW due, NEW p, NEW M, NEW src, Tracing(due, p, M, src), rstack # <<>>,
         R!Top.fn = "items"
  PROVE  \E c, t : ItemsTracked(p, M, src, c, t)
<1>1. PICK c : TopTracked(p, M, src, c)
  BY TopIsTracked
<1>2. PICK t : t = R!Top
  OBVIOUS
<1>3. t \in ItemsFrames /\ t.fn = "items" /\ ~Ignores(t)
  <2>1. rstack \in Seq(RFrame)
    BY <1>1 DEF TopTracked
  <2> QED BY <1>2, <2>1, TopKinds DEF Ignores
<1>4. /\ t.left \in Nat /\ t.got \in Seq(Ref) /\ Len(t.got) \in Nat
      /\ t.type \in {"LIST", "SET", "MAP"}
  BY <1>3, LenProperties DEF ItemsFrames
<1>5. Reads(t, c, p) /\ Has(t, c, M) /\ c.to = Len(p) /\ c.from \in Nat
  BY <1>1, <1>2 DEF TopTracked
<1>6. /\ c.to = c.from + t.left /\ c.act.klass = NULL /\ c.as = t.info
      /\ t.type = FieldInfo[c.act.info].ftype /\ t.type = FieldInfo[t.info].ftype
      /\ ~Retyped(c.act.info, t.info)
      /\ Len(heap[c.act.val].items) = Len(t.got) + t.left + IF c.doing = {} THEN 0 ELSE 1
      /\ \A i \in 1..t.left :
           p[c.from + i] = Whole(heap, Callee(heap, c.act, Len(heap[c.act.val].items) + 1 - i))
      /\ c.act \in visited /\ c.act \in Activation /\ Wire(c.act) = c.act
      /\ c.doing = {} \/ c.doing = {Len(t.got) + 1}
  BY <1>3, <1>5 DEF Reads
<1>7. \A i \in 1..Len(t.got) : <<t.got[i], PartOf(c.act, c.as, i)>> \in M
  BY <1>3, <1>5 DEF Has
<1>8. Slots(heap, c.act) = 1..Len(heap[c.act.val].items)
  <2>1. c.act.val \in VALUE
    <3>1. c.act.klass = NULL
      BY <1>6
    <3> QED BY <1>6, <3>1, RootIsActivation DEF Activation
  <2>2. heap[c.act.val].items \in Seq(VALUE)
    BY <2>1 DEF Tracing, Follows, IsHeap, HeapRecord
  <2>3. DOMAIN heap[c.act.val].items = 1..Len(heap[c.act.val].items)
    BY <2>2, LenProperties
  <2> QED BY <1>4, <1>6, <2>3 DEF Slots, ScalarTypes
<1>9. ItemsTracked(p, M, src, c, t)
  BY <1>1, <1>2, <1>3, <1>4, <1>5, <1>6, <1>7, <1>8 DEF ItemsTracked
<1> QED BY <1>9

\* The loop of a container hands its next item to readAny.
LEMMA NextItemTraced ==
  ASSUME NEW due, NEW p, NEW M, NEW src, Tracing(due, p, M, src), Still, R!NextItem
  PROVE  Traced(due)'
<1>1. /\ rstack # <<>> /\ R!Top.fn = "items" /\ ret = <<>> /\ R!Top.left > 0
      /\ pos' = pos /\ mem' = mem /\ ret' = <<>> /\ ReaderTypes
  BY DEF R!NextItem, R!Reading, Tracing, Follows
<1>2. PICK c, t : ItemsTracked(p, M, src, c, t)
  BY <1>1, ItemsAreTracked
<1>3. PICK n, m, a : n = t.left /\ m = Len(t.got) /\ a = c.act
  OBVIOUS
<1>4. /\ TopTracked(p, M, src, c) /\ t = R!Top /\ n \in Nat \ {0} /\ m \in Nat /\ c.from \in Nat
      /\ c.to = c.from + n /\ c.to = Len(p) /\ a.klass = NULL /\ c.as = t.info /\ c.doing = {}
      /\ t.type = FieldInfo[a.info].ftype /\ t.type = FieldInfo[t.info].ftype
      /\ ~Retyped(a.info, t.info) /\ t.fn = "items"
      /\ a \in visited /\ a \in Activation /\ Wire(a) = a
  <2>1. t = R!Top /\ n \in Nat /\ n > 0
    <3>1. t = R!Top /\ t.left \in Nat
      BY <1>2 DEF ItemsTracked
    <3> QED BY <1>1, <1>3, <3>1
  <2>2. c.doing = {}
    BY <1>1, <1>2 DEF ItemsTracked, TopTracked
  <2>3. /\ TopTracked(p, M, src, c) /\ m \in Nat /\ c.from \in Nat
        /\ c.to = c.from + n /\ c.to = Len(p) /\ a.klass = NULL /\ c.as = t.info
        /\ t.type = FieldInfo[a.info].ftype /\ t.type = FieldInfo[t.info].ftype
        /\ ~Retyped(a.info, t.info) /\ t.fn = "items"
        /\ a \in visited /\ a \in Activation /\ Wire(a) = a
    BY <1>2, <1>3 DEF ItemsTracked
  <2>4. n \in Nat \ {0}
    BY <2>1
  <2> QED BY <2>1, <2>2, <2>3, <2>4
<1>5. /\ Len(heap[a.val].items) = m + n
      /\ \A j \in 1..n : p[c.from + j] = Whole(heap, Callee(heap, a, m + n + 1 - j))
      /\ \A j \in 1..m : <<t.got[j], PartOf(a, c.as, j)>> \in M
      /\ Slots(heap, a) = 1..m + n
  <2>1. Len(heap[a.val].items) = m + n
    BY <1>2, <1>3, <1>4 DEF ItemsTracked
  <2> QED BY <1>2, <1>3, <2>1 DEF ItemsTracked
<1>6. PICK f \in ItemsFrames, g \in AnyFrames :
        /\ rstack' = Append(R!WithTop(f), g)
        /\ f.left = R!Top.left - 1
        /\ f.type = R!Top.type /\ f.info = R!Top.info /\ f.got = R!Top.got
        /\ g.info = R!Alternate(R!Top, FieldInfo[f.info].keyType, FieldInfo[f.info].elementType)
  BY <1>1, NextItemFrames
<1>7. /\ f.fn = "items" /\ f.left = n - 1 /\ f.type = t.type /\ f.info = t.info /\ f.got = t.got
      /\ f \in RFrame /\ ~HasObject(f) /\ ~Ignores(f)
  BY <1>3, <1>4, <1>6 DEF ItemsFrames, RFrame, HasObject, Ignores
<1>8. g.fn = "any" /\ g \in RFrame /\ ~HasObject(g) /\ ~Ignores(g)
  BY <1>6 DEF AnyFrames, RFrame, HasObject, Ignores
<1>9. PICK i : i = m + 1
  OBVIOUS
<1>10. i \in Int /\ i \in Slots(heap, a)
  BY <1>4, <1>5, <1>9
<1>11. g.info = ItemInfo(t.info, i)
  <2>1. m % 2 = 0 <=> i % 2 = 1
    <3>1. \A x \in Nat : x % 2 = 0 <=> (x + 1) % 2 = 1
      OBVIOUS
    <3> QED BY <1>4, <1>9, <3>1
  <2> QED BY <1>3, <1>4, <1>6, <2>1 DEF R!Alternate, ItemInfo
<1>12. PICK b : b = PartOf(a, c.as, i)
  OBVIOUS
<1>13. /\ b.act \in visited /\ b.act \in Activation /\ Wire(b.act) = b.act
       /\ p[c.from + n] = Whole(heap, b.act)
  <2>1. /\ b.act \in visited /\ b.act \in Activation /\ Wire(b.act) = b.act
        /\ Whole(heap, Callee(heap, a, i)) = Whole(heap, b.act)
    BY <1>4, <1>10, <1>12, PartWasWritten DEF Tracing
  <2>2. n \in 1..n /\ m + n + 1 - n = i
    BY <1>4, <1>9
  <2>3. p[c.from + n] = Whole(heap, Callee(heap, a, i))
    BY <1>5, <2>2
  <2> QED BY <2>1, <2>3
<1>14. b.as = Target(g.info)
  BY <1>4, <1>11, <1>12 DEF PartOf
<1>15. PICK d : d = [act |-> a, as |-> c.as, read |-> {}, doing |-> {i},
                     from |-> c.from, to |-> c.from + (n - 1)]
  OBVIOUS
<1>16. PICK e : e = [act |-> b.act, as |-> b.as, read |-> {}, doing |-> {},
                     from |-> c.from + (n - 1), to |-> c.from + n]
  OBVIOUS
<1>17. /\ d.act = a /\ d.as = c.as /\ d.doing = {i} /\ d.doing # {} /\ d.from = c.from
       /\ d.to = c.from + (n - 1)
       /\ d.from \in Nat /\ d.to \in Nat /\ d.from <= d.to
  BY <1>4, <1>15
<1>18. /\ e.act = b.act /\ e.as = b.as /\ e.doing = {} /\ e.from = c.from + (n - 1)
       /\ e.to = c.from + n /\ e.to = e.from + 1
       /\ e.from \in Nat /\ e.to \in Nat /\ e.from <= e.to
  BY <1>4, <1>16
<1>19. Reads(f, d, p)
  <2>1. Len(heap[d.act.val].items) = Len(f.got) + f.left + IF d.doing = {} THEN 0 ELSE 1
    <3>1. m + n = m + (n - 1) + 1
      BY <1>4
    <3> QED BY <1>3, <1>5, <1>7, <1>17, <3>1
  <2>2. \A j \in 1..f.left :
          p[d.from + j] = Whole(heap, Callee(heap, d.act, Len(heap[d.act.val].items) + 1 - j))
    <3>1. \A j \in 1..n - 1 : j \in 1..n
      BY <1>4
    <3> QED BY <1>5, <1>7, <1>17, <3>1
  <2>3. /\ d.to = d.from + f.left /\ d.act.klass = NULL /\ d.as = f.info
        /\ f.type = FieldInfo[d.act.info].ftype /\ f.type = FieldInfo[f.info].ftype
        /\ ~Retyped(d.act.info, f.info) /\ d.doing = {Len(f.got) + 1}
    BY <1>3, <1>4, <1>7, <1>9, <1>17
  <2>4. d.act \in visited /\ d.act \in Activation /\ Wire(d.act) = d.act
    BY <1>4, <1>17
  <2>5. f.fn \notin {"any", "skip"}
    BY <1>7
  <2> QED BY <1>7, <1>17, <2>1, <2>2, <2>3, <2>4, <2>5 DEF Reads
<1>20. Reads(g, e, p)
  <2>1. p[e.to] = Whole(heap, e.act) /\ e.as = Target(g.info)
    BY <1>13, <1>14, <1>18
  <2>2. e.act \in visited /\ e.act \in Activation /\ Wire(e.act) = e.act
    BY <1>13, <1>18
  <2>3. g.fn \notin {"items", "skip"}
    BY <1>8
  <2> QED BY <1>8, <1>18, <2>1, <2>2, <2>3 DEF Reads
<1>21. Reads(f, d, p)' /\ Reads(g, e, p)'
  BY <1>7, <1>8, <1>19, <1>20, ReadsKept
<1>22. Has(f, d, M)' /\ Has(g, e, M)'
  <2>1. Has(f, d, M)
    BY <1>3, <1>5, <1>7, <1>17 DEF Has
  <2>2. Has(g, e, M)
    BY <1>8 DEF Has
  <2> QED BY <1>7, <1>8, <2>1, <2>2, HasKept
<1>23. AskedBy(g, e, d)
  <2>1. Part(e) = PartOf(d.act, d.as, i)
    BY <1>12, <1>17, <1>18, PartIsPart
  <2> QED BY <1>8, <1>10, <1>17, <2>1 DEF AskedBy
<1>24. StaysAbove(p, p, M, M, src, {})
  <2>1. OthersStay({}) /\ M \subseteq M /\ \A j \in 1..c.from : p[j] = p[j]
    BY <1>1 DEF OthersStay
  <2> QED BY <1>1, <1>4, <2>1, StepIsAbove
<1>25. /\ c = src[Len(rstack)] /\ ~Ignores(R!Top) /\ Part(d) = Part(c)
       /\ d.from = c.from /\ e.from = d.to /\ e.to = Len(p) /\ e.doing = {}
  BY <1>3, <1>4, <1>17, <1>18 DEF TopTracked, Ignores, Part
<1>26. \E src2 : Tracked(p, M, src2)'
  BY <1>1, <1>6, <1>7, <1>8, <1>21, <1>22, <1>23, <1>24, <1>25, TopCalls
<1>27. due[pos' - 1] = p
  BY <1>1 DEF Tracing
<1> QED BY <1>26, <1>27 DEF Traced

\* It takes up what it is given,
LEMMA StoreItemTraced ==
  ASSUME NEW due, NEW p, NEW M, NEW src, Tracing(due, p, M, src), Still, R!StoreItem
  PROVE  Traced(due)'
<1>1. /\ rstack # <<>> /\ R!Top.fn = "items" /\ ret # <<>>
      /\ pos' = pos /\ mem' = mem /\ ret' = <<>> /\ ReaderTypes
  BY DEF R!StoreItem, R!Reading, Tracing, Follows
<1>2. PICK c, t : ItemsTracked(p, M, src, c, t)
  BY <1>1, ItemsAreTracked
<1>3. PICK n, m, a : n = t.left /\ m = Len(t.got) /\ a = c.act
  OBVIOUS
<1>4. /\ TopTracked(p, M, src, c) /\ t = R!Top /\ n \in Nat /\ m \in Nat /\ c.from \in Nat
      /\ t.got \in Seq(Ref)
      /\ c.to = c.from + n /\ c.to = Len(p) /\ a.klass = NULL /\ c.as = t.info
      /\ t.type = FieldInfo[a.info].ftype /\ t.type = FieldInfo[t.info].ftype
      /\ ~Retyped(a.info, t.info) /\ t.fn = "items"
      /\ a \in visited /\ a \in Activation /\ Wire(a) = a
      /\ c.doing = {} \/ c.doing = {m + 1}
  BY <1>1, <1>2, <1>3 DEF ItemsTracked, TopTracked
<1>5. PICK f \in ItemsFrames, v \in Ref :
        /\ rstack' = R!WithTop(f) /\ ret = <<v>> /\ f.left = R!Top.left
        /\ f.type = R!Top.type /\ f.info = R!Top.info
        /\ f.got = Append(R!Top.got, v)
  BY <1>1, StoreItemFrames
<1>6. c.doing = {m + 1} /\ <<v, PartOf(a, c.as, m + 1)>> \in M
  <2>1. PICK i \in Int : c.doing = {i} /\ <<ret[1], PartOf(c.act, c.as, i)>> \in M
    BY <1>1, <1>4 DEF TopTracked
  <2>2. i = m + 1 /\ ret[1] = v
    BY <1>4, <1>5, <2>1
  <2> QED BY <1>3, <2>1, <2>2
<1>7. /\ f.fn = "items" /\ f.left = n /\ f.type = t.type /\ f.info = t.info
      /\ f \in RFrame /\ ~HasObject(f) /\ ~Ignores(f)
  BY <1>3, <1>4, <1>5 DEF ItemsFrames, RFrame, HasObject, Ignores
<1>8. /\ Len(f.got) = m + 1 /\ f.got[m + 1] = v
      /\ \A j \in 1..m : f.got[j] = t.got[j]
  <2>1. f.got = Append(t.got, v)
    BY <1>4, <1>5
  <2> QED BY <1>3, <1>4, <2>1, AppendProperties
<1>9. /\ Len(heap[a.val].items) = m + n + 1
      /\ \A j \in 1..n : p[c.from + j] = Whole(heap, Callee(heap, a, Len(heap[a.val].items) + 1 - j))
      /\ \A j \in 1..m : <<t.got[j], PartOf(a, c.as, j)>> \in M
  BY <1>2, <1>3, <1>6 DEF ItemsTracked
<1>10. PICK d : d = [act |-> a, as |-> c.as, read |-> {}, doing |-> {},
                     from |-> c.from, to |-> c.to]
  OBVIOUS
<1>11. /\ d.act = a /\ d.as = c.as /\ d.doing = {} /\ d.from = c.from /\ d.to = c.to
       /\ d.from \in Nat /\ d.to \in Nat /\ d.from <= d.to
  BY <1>4, <1>10
<1>12. Reads(f, d, p)
  <2>1. Len(heap[d.act.val].items) = Len(f.got) + f.left + IF d.doing = {} THEN 0 ELSE 1
    <3>1. m + n + 1 = (m + 1) + n + 0
      BY <1>4
    <3> QED BY <1>7, <1>8, <1>9, <1>11, <3>1
  <2>2. \A j \in 1..f.left :
          p[d.from + j] = Whole(heap, Callee(heap, d.act, Len(heap[d.act.val].items) + 1 - j))
    BY <1>7, <1>9, <1>11
  <2>3. /\ d.to = d.from + f.left /\ d.act.klass = NULL /\ d.as = f.info
        /\ f.type = FieldInfo[d.act.info].ftype /\ f.type = FieldInfo[f.info].ftype
        /\ ~Retyped(d.act.info, f.info)
    BY <1>3, <1>4, <1>7, <1>11
  <2>4. d.act \in visited /\ d.act \in Activation /\ Wire(d.act) = d.act
    BY <1>4, <1>11
  <2>5. f.fn \notin {"any", "skip"}
    BY <1>7
  <2> QED BY <1>7, <1>11, <2>1, <2>2, <2>3, <2>4, <2>5 DEF Reads
<1>13. Reads(f, d, p)'
  BY <1>7, <1>12, ReadsKept
<1>14. Has(f, d, M)'
  <2>1. \A j \in 1..m + 1 : <<f.got[j], PartOf(a, c.as, j)>> \in M
    <3>1. \A j \in 1..m + 1 : j \in 1..m \/ j = m + 1
      BY <1>4
    <3> QED BY <1>6, <1>8, <1>9, <3>1
  <2>2. Has(f, d, M)
    BY <1>7, <1>8, <1>11, <2>1 DEF Has
  <2> QED BY <1>7, <2>2, HasKept
<1>15. StaysAbove(p, p, M, M, src, {})
  <2>1. OthersStay({}) /\ M \subseteq M /\ \A j \in 1..c.from : p[j] = p[j]
    BY <1>1 DEF OthersStay
  <2> QED BY <1>1, <1>4, <2>1, StepIsAbove
<1>16. /\ c = src[Len(rstack)] /\ ~Ignores(R!Top) /\ Part(d) = Part(c)
       /\ d.from = c.from /\ d.to = Len(p)
  BY <1>3, <1>4, <1>11 DEF TopTracked, Ignores, Part
<1>17. \E src2 : Tracked(p, M, src2)'
  BY <1>1, <1>5, <1>7, <1>11, <1>13, <1>14, <1>15, <1>16, TopGoesOn
<1>18. due[pos' - 1] = p
  BY <1>1 DEF Tracing
<1> QED BY <1>17, <1>18 DEF Traced

\* A value that was written is no object that is being filled.
LEMMA ValuesAreNoObjects ==
  ASSUME NEW due, NEW p, NEW M, NEW src, Tracing(due, p, M, src), NEW v \in VALUE
  PROVE  BelowAreNot({v})
<1> SUFFICES ASSUME NEW n \in 1..Len(rstack) - 1, HasObject(rstack[n]) PROVE rstack[n].obj # v
  BY DEF BelowAreNot
<1>1. rstack \in Seq(RFrame) /\ Owns /\ mem \in Seq(RObject)
  BY DEF Tracing, Follows, ReaderTypes, ObjectsInv
<1>2. Len(rstack) \in Nat /\ Len(mem) \in Nat
  BY <1>1, LenProperties
<1>3. n \in 1..Len(rstack)
  BY <1>2
<1>4. rstack[n].obj \in Nat
  BY <1>1, <1>2, <1>3 DEF Owns
<1> QED BY <1>4, RoundTripAssumption

\* The loop of a container returns it when it has read all.
LEMMA ReturnItemsTraced ==
  ASSUME NEW due, NEW p, NEW M, NEW src, Tracing(due, p, M, src), Still, R!ReturnItems
  PROVE  Traced(due)'
<1>1. /\ rstack # <<>> /\ R!Top.fn = "items" /\ ret = <<>> /\ R!Top.left = 0
      /\ pos' = pos /\ rstack' = R!Pop /\ ReaderTypes
  BY DEF R!ReturnItems, R!Reading, R!Return, Tracing, Follows
<1>2. PICK c, t : ItemsTracked(p, M, src, c, t)
  BY <1>1, ItemsAreTracked
<1>3. PICK m, a, got, r : m = Len(t.got) /\ a = c.act /\ got = t.got /\ r = c.as
  OBVIOUS
<1>4. /\ TopTracked(p, M, src, c) /\ m \in Nat /\ c.from \in Nat /\ got \in Seq(Ref)
      /\ c.to = c.from + t.left /\ c.to = Len(p) /\ a.klass = NULL /\ r = t.info
      /\ t.type = FieldInfo[a.info].ftype /\ t.type \in {"LIST", "SET", "MAP"}
      /\ ~Retyped(a.info, r) /\ t.fn = "items" /\ t = R!Top
  BY <1>2, <1>3 DEF ItemsTracked
<1>5. t.left = 0 /\ c.doing = {}
  BY <1>1, <1>4 DEF TopTracked
<1>6. Len(p) = c.from
  BY <1>4, <1>5
<1>7. Slots(heap, a) = 1..m /\ \A i \in 1..m : <<got[i], PartOf(a, r, i)>> \in M
  <2>1. Len(heap[a.val].items) = m
    <3>1. Len(heap[a.val].items) = m + 0 + 0
      BY <1>2, <1>3, <1>5 DEF ItemsTracked
    <3> QED BY <1>4, <3>1
  <2> QED BY <1>2, <1>3, <2>1 DEF ItemsTracked
<1>8. PICK o \in RObject :
        /\ mem' = Append(mem, o) /\ ret' = <<Len(mem) + 1>>
        /\ o.type = R!Top.type /\ o.items = R!Built(R!Top)
  BY <1>1, ReturnItemsFrames
<1>9. PICK y : y = Len(mem) + 1
  OBVIOUS
<1>10. /\ OthersStay({}) /\ y \in DOMAIN mem' /\ mem'[y] = o /\ BelowAreNot({y})
  <2>1. Makes(o, y)
    BY <1>8, <1>9 DEF Makes
  <2> QED BY <2>1, NewIsAnother
<1>11. PICK M2 : M2 = M \cup {<<y, Part(c)>>}
  OBVIOUS
<1>12. ItemsMatch(y, a, r, M2)'
  <2>1. heap' = heap
    BY DEF Still
  <2>2. DOMAIN got = 1..m /\ got = [i \in 1..m |-> got[i]]
    BY <1>3, <1>4, LenProperties
  <2>3. \A i \in 1..m : <<got[i], PartOf(a, r, i)>> \in M2
    BY <1>7, <1>11
  <2>4. got \in Seq({x[1] : x \in M2})
    <3>1. \A i \in 1..m : got[i] \in {x[1] : x \in M2}
      <4> SUFFICES ASSUME NEW i \in 1..m PROVE got[i] \in {x[1] : x \in M2}
        OBVIOUS
      <4>1. PICK x \in M2 : x = <<got[i], PartOf(a, r, i)>>
        BY <2>3
      <4>2. x[1] = got[i]
        BY <4>1
      <4> QED BY <4>2
    <3> QED BY <1>4, <2>2, <3>1, IsASeq
  <2>5. mem'[y].items = R!Built([type |-> FieldInfo[a.info].ftype, got |-> got])
    <3>1. mem'[y].items = R!Built(t)
      BY <1>4, <1>8, <1>10
    <3>2. PICK s : s = [type |-> FieldInfo[a.info].ftype, got |-> got]
      OBVIOUS
    <3>3. s.type = t.type /\ s.got = t.got
      BY <1>3, <1>4, <3>2
    <3>4. R!Built(t) = R!Built(s)
      BY <3>3 DEF R!Built
    <3> QED BY <3>1, <3>2, <3>4
  <2>6. /\ Slots(heap, a)' = Slots(heap, a) /\ \A i : PartOf(a, r, i)' = PartOf(a, r, i)
        /\ FieldInfo[a.info].ftype' = FieldInfo[a.info].ftype
    BY <2>1 DEF PartOf
  <2>7. R!Built([type |-> FieldInfo[a.info].ftype, got |-> got])'
          = R!Built([type |-> FieldInfo[a.info].ftype, got |-> got])
    BY DEF R!Built
  <2> QED BY <1>7, <2>2, <2>3, <2>4, <2>5, <2>6, <2>7 DEF ItemsMatch
<1>13. Matches(y, a, r, M2)'
  <2>1. FieldInfo[a.info].ftype \notin ScalarTypes
    BY <1>4 DEF ScalarTypes
  <2>2. mem'[y].type = FieldInfo[a.info].ftype
    BY <1>4, <1>8, <1>10
  <2> QED BY <1>4, <1>10, <1>12, <2>1, <2>2 DEF Matches
<1>14. StaysAbove(p, p, M, M2, src, {})
  <2>1. M \subseteq M2 /\ \A i \in 1..c.from : p[i] = p[i]
    BY <1>11
  <2> QED BY <1>1, <1>4, <1>10, <2>1, StepIsAbove
<1>15. /\ c = src[Len(rstack)] /\ ret' = <<y>> /\ y \in VALUE \cup DOMAIN mem'
       /\ ~Ignores(R!Top)
  BY <1>4, <1>8, <1>9, <1>10 DEF TopTracked, Ignores
<1>16. Tracked(p, M2, src)'
  BY <1>1, <1>3, <1>6, <1>10, <1>11, <1>13, <1>14, <1>15, TopReturns
<1>17. due[pos' - 1] = p
  BY <1>1 DEF Tracing
<1> QED BY <1>16, <1>17 DEF Traced

\* A skip reads on,
LEMMA SkipTraced ==
  ASSUME NEW due, NEW p, NEW M, NEW src, Tracing(due, p, M, src), Still, R!Skip
  PROVE  Traced(due)'
<1>1. /\ rstack # <<>> /\ R!Top.fn = "skip" /\ R!Top.left > 0 /\ pos <= Len(input)
      /\ pos' = pos + 1 /\ mem' = mem /\ ret' = ret
  BY DEF R!Skip, R!Reading
<1>2. PICK c, t : TopTracked(p, M, src, c) /\ t = R!Top
  BY <1>1, TopIsTracked
<1>3. ret = <<>> /\ c.doing = {} /\ c.from \in Nat /\ c.to = Len(p) /\ Reads(t, c, p)
  BY <1>1, <1>2, NothingReturned DEF Tracing, TopTracked
<1>4. t \in SkipFrames
  <2>1. rstack \in Seq(RFrame)
    BY <1>2 DEF TopTracked
  <2> QED BY <1>1, <1>2, <2>1, TopKinds
<1>5. t.left \in Nat /\ t.left > 0 /\ t.fn = "skip"
  BY <1>1, <1>2, <1>4 DEF SkipFrames
<1>6. /\ c.to = c.from + t.left
      /\ t.value # <<>> => c.act.klass = NULL /\ Retyped(c.act.info, c.as)
      /\ ~Ignores(t) => c.act \in visited /\ c.act \in Activation /\ Wire(c.act) = c.act
  BY <1>3, <1>5 DEF Reads
<1>7. PICK n \in Nat : n = c.from + t.left - 1 /\ Len(p) = n + 1
  BY <1>3, <1>5, <1>6
<1>8. PICK q : /\ q = due[pos' - 1] /\ Settles(heap, p, R!Event, q) /\ R!Event \in WireEvent
               /\ Len(q) = n + Brings(R!Event) /\ \A i \in 1..n : q[i] = p[i]
  BY <1>1, <1>7, EventIsTracked
<1>9. PICK e : e = R!Event
  OBVIOUS
<1>10. R!Weight(e) = Brings(e) /\ Brings(e) \in Nat
  <2>1. /\ e.ev \in {"field", "stop", "list", "map", "scalar"}
        /\ e.ev \in {"list", "map"} => e.size \in Nat
    BY <1>8, <1>9, EventKinds
  <2>2. CASE e.ev = "list"
    BY <2>1, <2>2 DEF R!Weight, Brings
  <2>3. CASE e.ev = "map"
    BY <2>1, <2>3 DEF R!Weight, Brings
  <2>4. CASE e.ev \in {"field", "stop", "scalar"}
    BY <2>4 DEF R!Weight, Brings
  <2> QED BY <2>1, <2>2, <2>3, <2>4
<1>11. PICK f : f = [t EXCEPT !.left = @ - 1 + R!Weight(e)]
  OBVIOUS
<1>12. rstack' = R!WithTop(f)
  BY <1>2, <1>9, <1>11 DEF R!Skip
<1>13. /\ f.fn = "skip" /\ f.left = t.left - 1 + Brings(e) /\ f.value = t.value
       /\ f.left \in Nat /\ f \in RFrame
  <2>1. t.left - 1 + R!Weight(e) \in Nat
    BY <1>5, <1>10
  <2>2. f \in SkipFrames
    BY <1>4, <1>11, <2>1 DEF SkipFrames
  <2> QED BY <1>4, <1>10, <1>11, <2>1, <2>2 DEF SkipFrames, RFrame
<1>14. (Ignores(f) <=> Ignores(t)) /\ ~HasObject(f)
  BY <1>5, <1>13 DEF Ignores, HasObject
<1>15. PICK d : d = [act |-> c.act, as |-> c.as, read |-> {}, doing |-> {},
                     from |-> c.from, to |-> Len(q)]
  OBVIOUS
<1>16. /\ d.act = c.act /\ d.as = c.as /\ d.doing = {} /\ d.from = c.from /\ d.to = Len(q)
       /\ d.to = d.from + f.left /\ d.from \in Nat /\ d.to \in Nat /\ d.from <= d.to
  <2>1. Len(q) = c.from + f.left
    BY <1>3, <1>5, <1>6, <1>7, <1>8, <1>9, <1>10, <1>13
  <2> QED BY <1>3, <1>13, <1>15, <2>1
<1>17. Reads(f, d, q)
  BY <1>6, <1>13, <1>14, <1>16 DEF Reads
<1>18. Reads(f, d, q)'
  BY <1>13, <1>17, ReadsKept
<1>19. Has(f, d, M)'
  BY <1>13, <1>14 DEF Has
<1>20. StaysAbove(p, q, M, M, src, {})
  <2>1. OthersStay({}) /\ M \subseteq M
    BY <1>1 DEF OthersStay
  <2>2. \A i \in 1..c.from : q[i] = p[i]
    <3>1. \A i \in 1..c.from : i \in 1..n
      BY <1>3, <1>5, <1>6, <1>7
    <3> QED BY <1>8, <3>1
  <2> QED BY <1>1, <1>2, <2>1, <2>2, StepIsAbove
<1>21. /\ c = src[Len(rstack)] /\ Part(d) = Part(c) /\ ret' = <<>>
  BY <1>1, <1>2, <1>3, <1>16 DEF TopTracked, Part
<1>22. \E src2 : Tracked(q, M, src2)'
  BY <1>2, <1>12, <1>13, <1>14, <1>16, <1>18, <1>19, <1>20, <1>21, TopGoesOn
<1> QED BY <1>8, <1>22 DEF Traced

\* ... and gives nothing, or nil, for what it skipped.
LEMMA SkippedTraced ==
  ASSUME NEW due, NEW p, NEW M, NEW src, Tracing(due, p, M, src), Still, R!Skipped
  PROVE  Traced(due)'
<1>1. /\ rstack # <<>> /\ R!Top.fn = "skip" /\ R!Top.left = 0
      /\ pos' = pos /\ mem' = mem /\ rstack' = R!Pop /\ ret' = R!Top.value
  BY DEF R!Skipped, R!Reading
<1>2. PICK c, t : TopTracked(p, M, src, c) /\ t = R!Top
  BY <1>1, TopIsTracked
<1>3. c.from \in Nat /\ c.to = Len(p) /\ Reads(t, c, p) /\ c = src[Len(rstack)]
  BY <1>2 DEF TopTracked
<1>4. t \in SkipFrames
  <2>1. rstack \in Seq(RFrame)
    BY <1>2 DEF TopTracked
  <2> QED BY <1>1, <1>2, <2>1, TopKinds
<1>5. t.left = 0 /\ t.fn = "skip" /\ t.value \in {<<>>, <<nil>>}
  BY <1>1, <1>2, <1>4 DEF SkipFrames
<1>6. /\ c.to = c.from + t.left
      /\ t.value # <<>> => c.act.klass = NULL /\ Retyped(c.act.info, c.as)
  BY <1>3, <1>5 DEF Reads
<1>7. Len(p) = c.from
  BY <1>3, <1>5, <1>6
<1>8. PICK M2 : M2 = IF Ignores(t) THEN M ELSE M \cup {<<nil, Part(c)>>}
  OBVIOUS
<1>9. StaysAbove(p, p, M, M2, src, {})
  <2>1. OthersStay({}) /\ M \subseteq M2 /\ \A i \in 1..c.from : p[i] = p[i]
    BY <1>1, <1>8 DEF OthersStay
  <2> QED BY <1>1, <1>2, <2>1, StepIsAbove
<1>10. CASE Ignores(t)
  <2>1. M2 = M /\ ret' = <<>>
    BY <1>1, <1>2, <1>8, <1>10 DEF Ignores
  <2> QED BY <1>1, <1>2, <1>3, <1>7, <1>9, <1>10, <2>1, TopReturns DEF Tracing, Traced
<1>11. CASE ~Ignores(t)
  <2>1. t.value = <<nil>> /\ <<nil>> # <<>>
    BY <1>5, <1>11 DEF Ignores
  <2>2. M2 = M \cup {<<nil, Part(c)>>} /\ ret' = <<nil>>
    BY <1>1, <1>2, <1>8, <1>11, <2>1
  <2>3. c.act.klass = NULL /\ Retyped(c.act.info, c.as)
    BY <1>6, <2>1
  <2>4. Matches(nil, c.act, c.as, M2)'
    <3>1. FieldInfo[c.act.info].ftype \notin ScalarTypes
      BY <2>3 DEF Retyped, SequenceTypes, ScalarTypes
    <3> QED BY <2>3, <3>1 DEF Matches
  <2>5. nil \in VALUE /\ BelowAreNot({nil})
    BY ValuesAreNoObjects, SchemaAssumption
  <2>6. Tracked(p, M2, src)'
    BY <1>1, <1>2, <1>3, <1>7, <1>9, <1>11, <2>2, <2>4, <2>5, TopReturns
  <2> QED BY <1>1, <2>6 DEF Tracing, Traced
<1> QED BY <1>10, <1>11

\* The reader begins with a new object of which it has read nothing.
LEMMA DeserializeTraced ==
  ASSUME NEW due, Follows(due), TypeOK, Starting, Checked, Still, R!Deserialize
  PROVE  Traced(due)'
<1>1. /\ rres.st = "called" /\ pos' = pos /\ ret' = ret /\ mem' = <<R!New(readerKlass)>>
      /\ rstack' = <<R!StructFrame(readerKlass, 1)>>
  BY DEF R!Deserialize
<1>2. pos = 1 /\ ret = <<>>
  BY <1>1 DEF Follows, Progress, Starting
<1>3. PICK p : p = due[pos - 1]
  OBVIOUS
<1>4. p = <<Whole(heap, Root)>>
  BY <1>2, <1>3 DEF Follows, Accounts
<1>5. Root \in Activation /\ Root \in visited /\ Klass \in Klasses /\ Root.klass = Klass
  BY RootIsActivation DEF Checked, Root, StructOf, TypeOK
<1>6. Wire(Root) = Root /\ Root.klass # NULL
  BY <1>5, SchemaAssumption DEF Wire
<1>7. PICK all : all = Present(heap, Root.klass, Root.val)
  OBVIOUS
<1>8. Len(p) = 1 /\ p[1] = [act |-> Root, last |-> 0, rest |-> all]
  <2>1. Len(p) = 1 /\ p[1] = Whole(heap, Root)
    BY <1>4
  <2> QED BY <1>6, <1>7, <2>1 DEF Whole
<1>9. PICK f : f = R!StructFrame(readerKlass, 1)
  OBVIOUS
<1>10. /\ f.fn \in {"struct", "union"} /\ f.klass = readerKlass /\ f.last = 0 /\ f.obj = 1
       /\ HasObject(f) /\ ~Ignores(f)
  BY <1>9 DEF R!StructFrame, HasObject, Ignores
<1>11. PICK c : c = [act |-> Root, as |-> readerKlass, read |-> {}, doing |-> {},
                     from |-> 0, to |-> 1]
  OBVIOUS
<1>12. PICK src : src = [n \in {1} |-> c]
  OBVIOUS
<1>13. src[1] = c /\ Part(c) = Origin
  BY <1>11, <1>12 DEF Part, Origin
<1>14. Len(rstack') = 1 /\ rstack'[1] = f /\ rstack' # <<>> /\ 1..1 = {1}
  BY <1>1, <1>9
<1>15. Reads(f, c, p)
  <2>1. /\ c.from = 0 /\ c.to = 1 /\ c.act = Root /\ c.as = readerKlass
        /\ c.read = {} /\ c.doing = {}
    BY <1>11
  <2>2. /\ c.from \in Nat /\ c.to \in Nat /\ c.from <= c.to /\ c.to = c.from + 1
        /\ c.act \in visited /\ c.act \in Activation /\ Wire(c.act) = c.act
        /\ c.act.klass \in Klasses /\ c.as = f.klass
    BY <1>5, <1>6, <1>10, <2>1
  <2>3. /\ c.read \subseteq Present(heap, c.act.klass, c.act.val)
        /\ p[c.to] = [act |-> c.act, last |-> f.last,
                      rest |-> Present(heap, c.act.klass, c.act.val) \ (c.read \cup c.doing)]
    BY <1>7, <1>8, <1>10, <2>1
  <2>4. f.fn # "any" /\ f.fn # "items" /\ f.fn # "skip"
    BY <1>10
  <2> QED BY <2>1, <2>2, <2>3, <2>4 DEF Reads
<1>16. Reads(f, c, p)'
  <2>1. f \in RFrame
    BY <1>9, StructFrameIsFrame DEF Follows, ReaderTypes
  <2> QED BY <1>15, <2>1, ReadsKept
<1>17. Has(f, c, {})'
  <2>1. c.act = Root /\ c.as = readerKlass /\ c.read = {}
    BY <1>11
  <2>2. mem'[1] = R!New(readerKlass)
    BY <1>1
  <2>3. PICK r, o : r = readerKlass /\ o = R!New(r)
    OBVIOUS
  <2>4. (R!New(r))' = o /\ mem'[f.obj] = o
    BY <1>10, <2>2, <2>3 DEF R!New, R!Object, R!Unset
  <2>5. FieldsMatch(f.obj, c.act, r, {}, {})'
    BY <2>4 DEF FieldsMatch
  <2>6. FieldsMatch(f.obj, c.act, c.as, c.read, {})'
    BY <2>1, <2>3, <2>5
  <2> QED BY <1>10, <2>6 DEF Has, HasObject
<1>18. Shares(src, p)'
  <2>1. Part(src[1]) = Origin'
    BY <1>13, AskedStays
  <2>2. src[1].to = Len(p) /\ src[1].to = 1
    BY <1>8, <1>11, <1>13
  <2>3. \A n \in 1..Len(rstack') : n = 1
    BY <1>14
  <2>4. \A n \in 1..Len(rstack') : Reads(rstack[n], src[n], p)'
    BY <1>13, <1>14, <1>16, <2>3
  <2>5. ~Ignores(rstack'[1])
    BY <1>10, <1>14
  <2>6. \A m, n \in 1..Len(rstack') : ~(m < n)
    BY <2>3
  <2> QED BY <1>14, <2>1, <2>2, <2>3, <2>4, <2>5, <2>6 DEF Shares, Ignores, Part
<1>19. Returned(src, {})'
  <2>1. ret' = <<>> /\ src[Len(rstack')].doing = {}
    BY <1>1, <1>2, <1>11, <1>13, <1>14
  <2> QED BY <1>14, <2>1 DEF Returned
<1>20. LeftAlone({})' /\ Corresponds({})'
  BY DEF LeftAlone, Corresponds
<1>21. \A n \in 1..Len(rstack') : Has(rstack[n], src[n], {})'
  BY <1>13, <1>14, <1>17
<1>22. Tracked(p, {}, src)'
  BY <1>18, <1>19, <1>20, <1>21 DEF Tracked
<1> QED BY <1>1, <1>3, <1>22 DEF Traced

\* What deserialize returns.
Answers == \E M : Corresponds(M) /\ <<ret[1], Origin>> \in M

\* What the outermost call returned is the answer.
LEMMA DeserializeEndAnswers ==
  ASSUME NEW due, NEW p, NEW M, NEW src, Tracing(due, p, M, src), Still, R!DeserializeEnd
  PROVE  Answers'
<1>1. rstack = <<>> /\ mem' = mem /\ ret' = ret
  BY DEF R!DeserializeEnd
<1>2. <<ret[1], Origin>> \in M /\ Corresponds(M)
  BY <1>1 DEF Tracing, Tracked, Returned
<1>3. OthersStay({}) /\ \A m \in M : m[1] \notin {}
  BY <1>1 DEF OthersStay
<1>4. \A m \in M : Matches(m[1], m[2].act, m[2].as, M)'
  BY <1>2, <1>3, CorrespondsKept
<1>5. <<ret'[1], Origin'>> \in M
  BY <1>1, <1>2, AskedStays
<1> QED BY <1>4, <1>5 DEF Answers, Corresponds

\* Every step of a reader that goes on.
LEMMA TracedStep ==
  ASSUME NEW due, NEW p, NEW M, NEW src, Tracing(due, p, M, src), Still, R!Next,
         rres'.st = "running"
  PROVE  Traced(due)'
<1>0. Follows(due) /\ rres.st = "running"
  BY DEF Tracing
<1>1. ~R!Deserialize /\ ~R!DeserializeEnd /\ ~R!EndOfFile
  BY <1>0 DEF R!Deserialize, R!DeserializeEnd, R!EndOfFile, R!Running, R!End
<1>2. ~R!LeaveUnion /\ ~R!Garble
  BY <1>0, LeavesNothing, NothingIsGarbled
<1>3. CASE R!ReadField \/ R!StoreField \/ R!ReadUnionField \/ R!StoreUnionField \/ R!ReadUnionStop
  BY <1>3, ReadFieldTraced, StoreFieldTraced, ReadUnionFieldTraced, StoreUnionFieldTraced,
     ReadUnionStopTraced
<1>4. CASE R!ReadScalar \/ R!ReadSequence \/ R!ReadMap \/ R!ReadStructOrUnion
  BY <1>4, ReadScalarTraced, ReadSequenceTraced, ReadMapTraced, ReadStructOrUnionTraced
<1>5. CASE R!NextItem \/ R!StoreItem \/ R!ReturnItems \/ R!Skip \/ R!Skipped
  BY <1>5, NextItemTraced, StoreItemTraced, ReturnItemsTraced, SkipTraced, SkippedTraced
<1> QED BY <1>1, <1>2, <1>3, <1>4, <1>5 DEF R!Next

\* A reader that is not running begins, and only the end of deserialize is a success.
LEMMA ReaderSteps ==
  ASSUME R!Next
  PROVE  /\ input' = input /\ readerKlass' = readerKlass
         /\ rres.st \in {"called", "running"}
         /\ rres.st = "called" => R!Deserialize
         /\ rres'.st = "ok" => R!DeserializeEnd
<1>1. input' = input /\ readerKlass' = readerKlass
  BY DEF R!Next, R!Deserialize, R!ReadField, R!StoreField, R!ReadUnionField,
     R!StoreUnionField, R!ReadUnionStop, R!LeaveUnion, R!ReadScalar, R!ReadSequence,
     R!ReadMap, R!ReadStructOrUnion, R!NextItem, R!StoreItem, R!ReturnItems, R!Skip,
     R!Skipped, R!EndOfFile, R!Garble, R!DeserializeEnd
<1>2. CASE R!Deserialize
  BY <1>1, <1>2 DEF R!Deserialize, R!Running
<1>3. CASE R!DeserializeEnd
  BY <1>1, <1>3 DEF R!DeserializeEnd
<1>4. CASE R!EndOfFile \/ R!Garble
  BY <1>1, <1>4 DEF R!EndOfFile, R!Garble, R!End, R!Running
<1>5. CASE R!ReadField \/ R!ReadUnionStop \/ R!ReadStructOrUnion
  BY <1>1, <1>5 DEF R!ReadField, R!ReadUnionStop, R!ReadStructOrUnion, R!Reading, R!End, R!Running
<1>6. CASE R!StoreField \/ R!ReadUnionField \/ R!StoreUnionField \/ R!LeaveUnion
  BY <1>1, <1>6 DEF R!StoreField, R!ReadUnionField, R!StoreUnionField, R!LeaveUnion, R!Reading
<1>7. CASE R!ReadScalar \/ R!ReadSequence \/ R!ReadMap \/ R!Skip \/ R!Skipped
  BY <1>1, <1>7 DEF R!ReadScalar, R!ReadSequence, R!ReadMap, R!Skip, R!Skipped, R!Reading
<1>8. CASE R!NextItem \/ R!StoreItem \/ R!ReturnItems
  BY <1>1, <1>8 DEF R!NextItem, R!StoreItem, R!ReturnItems, R!Reading
<1> QED BY <1>2, <1>3, <1>4, <1>5, <1>6, <1>7, <1>8 DEF R!Next

\* What was written has been checked.
LEMMA WhatIsSentWasChecked ==
  ASSUME TypeOK, IInv, res.st = "ok"
  PROVE  Checked
<1>1. stack = <<>> /\ Root \in visited \cup Owed
  BY DEF IInv, RootInv
<1>2. Owed = {}
  BY <1>1 DEF Owed
<1> QED BY <1>1, <1>2 DEF IInv, ClosedInv, TypeOK, Checked

\* An account that is followed goes on being followed.
LEMMA FollowsStep ==
  ASSUME ReaderInv, ReaderInv', Read, NEW due, Follows(due)
  PROVE  Follows(due)'
<1>1. R!Next /\ UNCHANGED <<heap, call, out, res>>
  BY DEF Read, vars
<1>2. input' = input /\ readerKlass' = readerKlass
  BY <1>1, ReaderSteps
<1>3. TypeOK /\ PairsInv /\ Steady
  BY <1>1, <1>2 DEF ReaderInv, RTTypedInv, RTInv, ShapeInv, Steady
<1>4. Progress(due)'
  BY <1>1, <1>3, ProgressStep
<1>5. IsHeap(heap') /\ OutTyped' /\ ReaderTypes'
  BY DEF ReaderInv, RTTypedInv, RTInv, ShapeInv, TypeOK
<1>6. Root' = Root /\ Klass' = Klass
  BY <1>1 DEF Root, StructOf, Klass
<1>7. /\ input # NULL /\ Understandable /\ Understood /\ Sent
      /\ Accounts(heap, Root, out, due) /\ due[Len(out)] = <<>>
  BY DEF Follows
<1>8. input' # NULL /\ Understandable' /\ Understood' /\ Sent'
  BY <1>1, <1>2, <1>6, <1>7 DEF Understandable, Understood, Sent
<1>9. Accounts(heap, Root, out, due)' /\ due[Len(out')] = <<>>
  BY <1>1, <1>6, <1>7
<1> QED BY <1>4, <1>5, <1>8, <1>9 DEF Follows

\* A reader that understands what was written is tracked until it answers.
AnswersInv ==
  Understandable /\ Understood /\ input # NULL =>
    /\ rres.st = "running" => \E due : Follows(due) /\ Traced(due)
    /\ rres.st = "ok" => Answers

\* A step of the reader.
LEMMA ReadKeepsAnswers ==
  ASSUME ReaderInv, ReaderInv', AnswersInv, Read
  PROVE  AnswersInv'
<1>1. R!Next /\ UNCHANGED <<heap, call, out, res, visited>>
  BY DEF Read, vars
<1>2. /\ input' = input /\ readerKlass' = readerKlass
      /\ rres.st \in {"called", "running"}
      /\ rres.st = "called" => R!Deserialize
      /\ rres'.st = "ok" => R!DeserializeEnd
  BY <1>1, ReaderSteps
<1>3. Still
  BY <1>1, <1>2 DEF Still
<1>4. (Understandable' <=> Understandable) /\ (Understood' <=> Understood)
  BY <1>1, <1>2 DEF Understandable, Understood, Klass
<1> SUFFICES ASSUME Understandable, Understood, input # NULL
             PROVE  /\ rres'.st = "running" => \E due : Follows(due)' /\ Traced(due)'
                    /\ rres'.st = "ok" => Answers'
  BY <1>2, <1>4 DEF AnswersInv
<1>5. /\ TypeOK /\ Starting /\ ObjectsInv /\ RetInv /\ ObjectsAreObjects /\ OutTyped
      /\ ReaderTypes /\ IsHeap(heap) /\ IInv
  BY DEF ReaderInv, RTTypedInv, RTInv, TypedInv, ShapeInv, TypeOK
<1>6. /\ res.st = "ok" /\ Sent
      /\ \E due : Accounts(heap, Root, out, due) /\ due[Len(out)] = <<>> /\ Progress(due)
  BY DEF ReaderInv, ReadInv
<1>7. Checked
  BY <1>5, <1>6, WhatIsSentWasChecked
<1>8. CASE rres.st = "called"
  <2>1. PICK due : Follows(due)
    BY <1>5, <1>6 DEF Follows
  <2>2. Follows(due)'
    BY <2>1, FollowsStep
  <2>3. Traced(due)'
    BY <1>2, <1>3, <1>5, <1>7, <1>8, <2>1, DeserializeTraced
  <2>4. rres'.st # "ok"
    BY <1>2, <1>8 DEF R!Deserialize, R!Running
  <2> QED BY <2>2, <2>3, <2>4
<1>9. CASE rres.st = "running"
  <2>1. PICK due : Follows(due) /\ Traced(due)
    BY <1>9 DEF AnswersInv
  <2>2. PICK M, src : Tracked(due[pos - 1], M, src)
    BY <2>1 DEF Traced
  <2>3. PICK p : p = due[pos - 1]
    OBVIOUS
  <2>4. Tracing(due, p, M, src)
    BY <1>5, <1>7, <1>9, <2>1, <2>2, <2>3 DEF Tracing
  <2>5. Follows(due)'
    BY <2>1, FollowsStep
  <2>6. rres'.st = "running" => Traced(due)'
    BY <1>1, <1>3, <2>4, TracedStep
  <2>7. rres'.st = "ok" => Answers'
    BY <1>2, <1>3, <2>4, DeserializeEndAnswers
  <2> QED BY <2>5, <2>6, <2>7
<1> QED BY <1>2, <1>8, <1>9

\* Nothing is read while it is written, nor when it is delivered.
LEMMA AnswersStep ==
  ReaderInv /\ ReaderInv' /\ AnswersInv /\ [RTNext]_<<vars, rvars>> => AnswersInv'
<1> SUFFICES ASSUME ReaderInv, ReaderInv', AnswersInv, [RTNext]_<<vars, rvars>>
             PROVE  AnswersInv'
  OBVIOUS
<1>0. ReadInv /\ ReadInv' /\ IInv
  BY DEF ReaderInv
<1>1. CASE Read
  BY <1>1, ReadKeepsAnswers
<1>2. CASE Deliver
  <2>1. rres.st = "called" /\ rres' = rres
    BY <1>0, <1>2 DEF Deliver, ReadInv
  <2> QED BY <2>1 DEF AnswersInv
<1>3. CASE Write
  <2>1. ~Done /\ UNCHANGED <<readerKlass, input, pos, rres>>
    BY <1>3 DEF Write, rvars
  <2>2. Klass' = Klass
    <3>1. [Next]_vars
      BY <1>3 DEF Write
    <3>2. Root' = Root
      BY <1>0, <3>1, RootIsConstant
    <3>3. Root.klass = Klass /\ (Root.klass)' = Klass'
      BY DEF Root, StructOf
    <3> QED BY <3>2, <3>3
  <2>3. Understood' => Understood
    BY <2>1, <2>2 DEF Understood
  <2>4. ~(Understandable' /\ Understood' /\ input' # NULL)
    <3>1. ~(Understandable /\ Understood /\ input # NULL)
      BY <1>0, <2>1 DEF ReadInv, Done
    <3> QED BY <2>1, <2>3, <3>1 DEF Understandable
  <2> QED BY <2>4 DEF AnswersInv
<1>4. CASE UNCHANGED <<vars, rvars>>
  <2>1. /\ UNCHANGED <<heap, call, stack, out, visited, res>>
        /\ UNCHANGED <<readerKlass, input, pos, mem, rstack, ret, rres>>
    BY <1>4 DEF vars, rvars
  <2>2. Root' = Root /\ Klass' = Klass /\ Still
    BY <2>1 DEF Root, StructOf, Klass, Still
  <2>3. (Understood' <=> Understood) /\ (Understandable' <=> Understandable)
    BY <2>1, <2>2 DEF Understood, Understandable
  <2>4. ASSUME NEW due, Follows(due) PROVE Follows(due)'
    <3>1. Progress(due)'
      BY <2>1, <2>4 DEF Follows, Progress, TwoFields
    <3>2. IsHeap(heap') /\ OutTyped' /\ ReaderTypes'
      BY DEF ReaderInv, RTTypedInv, RTInv, ShapeInv, TypeOK
    <3>3. input' # NULL /\ Understandable' /\ Understood' /\ Sent'
      BY <2>1, <2>3, <2>4 DEF Follows, Sent
    <3>4. Accounts(heap, Root, out, due)' /\ due[Len(out')] = <<>>
      BY <2>1, <2>2, <2>4 DEF Follows
    <3> QED BY <3>1, <3>2, <3>3, <3>4 DEF Follows
  <2>5. ASSUME NEW due, Traced(due) PROVE Traced(due)'
    <3>1. PICK M, src : Tracked(due[pos - 1], M, src)
      BY <2>5 DEF Traced
    <3>2. PICK p : p = due[pos - 1]
      OBVIOUS
    <3>3. OthersStay({}) /\ rstack \in Seq(RFrame)
      BY <2>1 DEF OthersStay, ReaderInv, RTTypedInv, RTInv, ReaderTypes
    <3>4. Corresponds(M)'
      BY <2>2, <3>1, <3>3, CorrespondsKept DEF Tracked, Corresponds
    <3>5. ASSUME NEW n \in 1..Len(rstack)
          PROVE  Reads(rstack[n], src[n], p)' /\ Has(rstack[n], src[n], M)'
      <4>1. PICK f, c : f = rstack[n] /\ c = src[n]
        OBVIOUS
      <4>2. f \in RFrame /\ Reads(f, c, p) /\ Has(f, c, M)
        BY <3>1, <3>2, <3>3, <3>5, <4>1, ElementOfSeq DEF Tracked, Shares
      <4>3. Reads(f, c, p)' /\ Has(f, c, M)'
        BY <2>1, <2>2, <4>2, ReadsKept, HasKept
      <4>4. f = rstack'[n]
        BY <2>1, <4>1
      <4> QED BY <4>1, <4>3, <4>4
    <3>6. Shares(src, p)'
      BY <2>1, <2>2, <3>1, <3>2, <3>5, AskedStays DEF Tracked, Shares, Ignores, Part
    <3>7. Returned(src, M)' /\ LeftAlone(M)'
      BY <2>1, <2>2, <3>1, AskedStays DEF Tracked, Returned, LeftAlone, HasObject
    <3> QED BY <2>1, <3>2, <3>4, <3>5, <3>6, <3>7 DEF Traced, Tracked
  <2>6. ASSUME Answers PROVE Answers'
    <3>1. PICK M : Corresponds(M) /\ <<ret[1], Origin>> \in M
      BY <2>6 DEF Answers
    <3>2. OthersStay({}) /\ \A m \in M : m[1] \notin {}
      BY <2>1 DEF OthersStay
    <3>3. Corresponds(M)'
      BY <2>2, <3>1, <3>2, CorrespondsKept DEF Corresponds
    <3>4. <<ret'[1], Origin'>> \in M
      BY <2>1, <2>2, <3>1, AskedStays
    <3> QED BY <3>3, <3>4 DEF Answers
  <2> QED BY <2>1, <2>3, <2>4, <2>5, <2>6 DEF AnswersInv
<1> QED BY <1>1, <1>2, <1>3, <1>4 DEF RTNext

\* Nothing has been read yet.
LEMMA AnswersInit == RTInit => AnswersInv
BY DEF RTInit, AnswersInv

\* What a version of a class that fits reads is what another wrote, whatever the
\* schema, the object graph and the two versions: the object that deserialize returns
\* corresponds to the one that serialize was given, field by field and item by item,
\* at every depth, and has its defaults where nothing was written or known.
THEOREM WhatIsReadWasWritten ==
  ASSUME NEW I, Fits(Compatible, I)
  PROVE  RTSpec => []WrittenIsRead
<1>1. ReaderInv /\ AnswersInv => WrittenIsRead
  <2>1. Understandable
    BY DEF Understandable
  <2> SUFFICES ASSUME ReaderInv, AnswersInv, rres.st = "ok", Understood
               PROVE  \E M : Corresponds(M) /\ <<ret[1], Origin>> \in M
    BY DEF WrittenIsRead
  <2>2. input # NULL
    BY DEF ReaderInv, ReadInv
  <2>3. Answers
    BY <2>1, <2>2 DEF AnswersInv
  <2> QED BY <2>3 DEF Answers
<1>2. RTInit => ReaderInv /\ AnswersInv
  BY ReaderInvInit, AnswersInit
<1>3. ReaderInv /\ AnswersInv /\ [RTNext]_<<vars, rvars>> => (ReaderInv /\ AnswersInv)'
  BY ReaderInvStep, AnswersStep
<1> QED BY <1>1, <1>2, <1>3, PTL DEF RTSpec

=============================================================================
