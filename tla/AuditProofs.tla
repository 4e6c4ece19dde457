---------------------------- MODULE AuditProofs ----------------------------
(****************************************************************************)
(* The walk of compare_single_struct over two lists of members says of every *)
(* id what is true of it, for any two structs, whatever else was compared    *)
(* before; an audit that passes has found the two versions to be compatible; *)
(* and one of a file against itself is silent.                               *)
(****************************************************************************)
EXTENDS Audit, SequenceTheorems, WellFoundedInduction, TLAPS

(****************************************************************************)
(* What there is to compare.                                                 *)
(****************************************************************************)
Comparing ==
  {m \in [kind : {"members"}, news : Members, olds : Members, i : Nat, j : Nat,
          said : [MergeMessages -> SUBSET Int]] :
     m.i \in 1..Len(m.news) + 1 /\ m.j \in 1..Len(m.olds) + 1}
Among(kind, S) == [kind : {kind}, news : Seq(S), old : S]

\* Whether w may be said of id x, and whether it may be left unsaid; these differ
\* where defaults may compare either way.
May(news, olds, w, x) ==
  LET isNew == x \in Keys(news)
      isOld == x \in Keys(olds)
      n == At(news, x)
      o == At(olds, x)
  IN \/ w = "removed" /\ ~ isNew
     \/ w = "middle" /\ isNew /\ ~ isOld /\ \E y \in Keys(olds) : x < y
     \/ w = "required_added" /\ isNew /\ ~ isOld /\ Required(n) /\ \A y \in Keys(olds) : y < x
     \/ w = "type" /\ isNew /\ isOld /\ ~ compare_type[<<n.type, o.type>>]
     \/ w = "requiredness" /\ isNew /\ isOld /\ ~ (Required(n) <=> Required(o))
     \/ w = "field_name" /\ isNew /\ isOld /\ n.name # o.name
     \/ w = "default" /\ isNew /\ isOld /\ FALSE \in compare_defaults[<<n.value, o.value>>]
                      /\ ~ (Required(n) /\ Required(o))
MayNot(news, olds, w, x) ==
  IF w = "default"
  THEN x \in Keys(news) \cap Keys(olds) =>
         \/ Required(At(news, x)) /\ Required(At(olds, x))
         \/ TRUE \in compare_defaults[<<At(news, x).value, At(olds, x).value>>]
  ELSE ~ May(news, olds, w, x)
IsTold(news, olds, messages, x) ==
  \A w \in MergeMessages :
    IF w \in messages THEN May(news, olds, w, x) ELSE MayNot(news, olds, w, x)

\* The ids that were walked over are smaller than those at the iterators, and of
\* them, and of no others, everything has been said.
Passed(ms, i) == {ms[k].key : k \in 1..i - 1}
Walked(m) == Passed(m.news, m.i) \cup Passed(m.olds, m.j)
Apart(m) ==
  /\ m.i \in DOMAIN m.news => \A x \in Walked(m) : x < m.news[m.i].key
  /\ m.j \in DOMAIN m.olds => \A x \in Walked(m) : x < m.olds[m.j].key
SaidSoFar(m) ==
  /\ \A w \in MergeMessages : m.said[w] \subseteq Walked(m)
  /\ \A x \in Walked(m) : IsTold(m.news, m.olds, {w \in MergeMessages : x \in m.said[w]}, x)

Walks == {m \in Comparing : Apart(m) /\ SaidSoFar(m)}
Items ==
  Walks \cup Among("service", Services) \cup Among("function", Functions)
    \cup Among("enum", Enums) \cup Among("struct", Structs) \cup Among("const", Consts)
    \cup {[kind |-> "namespaces", news |-> new.namespaces, old |-> old.namespaces]}

\* The inductive invariant.
Inv == IsProgram(new) /\ IsProgram(old) /\ todo \in Seq(Items)

(****************************************************************************)
(* Members of a struct.                                                      *)
(****************************************************************************)

\* They are fields, and an id is that of one of them.
LEMMA MembersFacts ==
  ASSUME NEW ms \in Members
  PROVE  /\ DOMAIN ms = 1..Len(ms) /\ Len(ms) \in Nat
         /\ \A k \in DOMAIN ms : ms[k].key \in Int /\ At(ms, ms[k].key) = ms[k]
         /\ \A k, l \in DOMAIN ms : k < l => ms[k].key < ms[l].key
         /\ Keys(ms) \subseteq Int
<1>1. ms \in Seq(Fields) /\ \A k, l \in DOMAIN ms : k < l => ms[k].key < ms[l].key
  BY DEF Members
<1>2. DOMAIN ms = 1..Len(ms) /\ Len(ms) \in Nat /\ \A k \in DOMAIN ms : ms[k] \in Fields
  BY <1>1, LenProperties, ElementOfSeq
<1>3. \A k \in DOMAIN ms : ms[k].key \in Int
  BY <1>2 DEF Fields
<1>4. ASSUME NEW k \in DOMAIN ms PROVE At(ms, ms[k].key) = ms[k]
  <2> DEFINE l == CHOOSE l \in DOMAIN ms : ms[l].key = ms[k].key
  <2>1. l \in DOMAIN ms /\ ms[l].key = ms[k].key
    OBVIOUS
  <2>2. l = k
    <3> HIDE DEF l
    <3> QED BY <2>1, <1>1, <1>2, <1>3
  <2> QED BY <2>2 DEF At
<1>5. Keys(ms) \subseteq Int
  BY <1>3 DEF Keys
<1> QED BY <1>1, <1>2, <1>3, <1>4, <1>5

\* The ids passed in one list when its iterator moves on or stays.
LEMMA OneTurnOn ==
  ASSUME NEW ms, NEW i \in Nat \ {0}, NEW d \in 0..1, NEW key, d = 1 => ms[i].key = key
  PROVE  Passed(ms, i + d) = Passed(ms, i) \cup (IF d = 1 THEN {key} ELSE {})
<1>1. CASE d = 0
  BY <1>1 DEF Passed
<1>2. CASE d = 1
  <2>1. 1..i + d - 1 = (1..i - 1) \cup {i}
    BY <1>2
  <2> QED BY <1>2, <2>1 DEF Passed
<1>3. d = 0 \/ d = 1
  OBVIOUS
<1> QED BY <1>1, <1>2, <1>3

\* ... and in both.
LEMMA TurnPasses ==
  ASSUME NEW m, m.i \in Nat \ {0}, m.j \in Nat \ {0}, NEW key,
         NEW di \in 0..1, NEW dj \in 0..1, di + dj # 0,
         di = 1 => m.news[m.i].key = key,
         dj = 1 => m.olds[m.j].key = key
  PROVE  Passed(m.news, m.i + di) \cup Passed(m.olds, m.j + dj) = Walked(m) \cup {key}
<1>1. Passed(m.news, m.i + di) = Passed(m.news, m.i) \cup (IF di = 1 THEN {key} ELSE {})
  BY OneTurnOn
<1>2. Passed(m.olds, m.j + dj) = Passed(m.olds, m.j) \cup (IF dj = 1 THEN {key} ELSE {})
  BY OneTurnOn
<1>3. di = 1 \/ dj = 1
  OBVIOUS
<1> QED BY <1>1, <1>2, <1>3 DEF Walked

\* A turn of the loop: what lies at one iterator or at both is passed, and said of
\* its id is what may be.
LEMMA TurnKeepsWalk ==
  ASSUME NEW m \in Walks, NEW messages \in SUBSET MergeMessages, NEW key \in Int,
         NEW di \in 0..1, NEW dj \in 0..1, di + dj # 0,
         NEW said, said = [w \in MergeMessages |->
                             IF w \in messages THEN m.said[w] \cup {key} ELSE m.said[w]],
         di = 1 => m.i \in DOMAIN m.news /\ m.news[m.i].key = key,
         dj = 1 => m.j \in DOMAIN m.olds /\ m.olds[m.j].key = key,
         di = 0 /\ m.i \in DOMAIN m.news => key < m.news[m.i].key,
         dj = 0 /\ m.j \in DOMAIN m.olds => key < m.olds[m.j].key,
         IsTold(m.news, m.olds, messages, key)
  PROVE  [m EXCEPT !.i = @ + di, !.j = @ + dj, !.said = said] \in Walks
<1> DEFINE q == [m EXCEPT !.i = @ + di, !.j = @ + dj, !.said = said]
<1>1. /\ m.news \in Members /\ m.olds \in Members
      /\ m.i \in 1..Len(m.news) + 1 /\ m.j \in 1..Len(m.olds) + 1
      /\ m.said \in [MergeMessages -> SUBSET Int]
      /\ m \in [kind : {"members"}, news : Members, olds : Members, i : Nat, j : Nat,
                said : [MergeMessages -> SUBSET Int]]
      /\ Apart(m) /\ SaidSoFar(m)
  BY DEF Walks, Comparing
<1>2. /\ q.news = m.news /\ q.olds = m.olds /\ q.i = m.i + di /\ q.j = m.j + dj
      /\ q.said = said /\ q.kind = "members"
  BY <1>1
<1>3. said \in [MergeMessages -> SUBSET Int]
  BY <1>1
<1>4. q \in Comparing
  <2>1. q.i \in 1..Len(m.news) + 1 /\ q.j \in 1..Len(m.olds) + 1
    BY <1>1, <1>2, MembersFacts
  <2>2. q \in [kind : {"members"}, news : Members, olds : Members, i : Nat, j : Nat,
               said : [MergeMessages -> SUBSET Int]]
    <3>1. q.i \in Nat /\ q.j \in Nat
      BY <1>1, <1>2
    <3> QED BY <1>1, <1>2, <1>3, <3>1
  <2> HIDE DEF q
  <2> QED BY <2>1, <2>2, <1>2 DEF Comparing
<1> HIDE DEF q
<1>5. Walked(q) = Walked(m) \cup {key}
  <2>1. /\ m.i \in Nat \ {0} /\ m.j \in Nat \ {0}
        /\ di = 1 => m.news[m.i].key = key
        /\ dj = 1 => m.olds[m.j].key = key
    BY <1>1, MembersFacts
  <2>2. Passed(m.news, m.i + di) \cup Passed(m.olds, m.j + dj) = Walked(m) \cup {key}
    BY <2>1, TurnPasses
  <2> QED BY <1>2, <2>2 DEF Walked
<1>6. Walked(m) \subseteq Int
  BY <1>1, MembersFacts DEF Walked, Passed
<1>7. key \notin Walked(m)
  BY <1>1, <1>6 DEF Apart
<1>8. Apart(q)
  <2>1. q.i \in DOMAIN q.news => \A x \in Walked(q) : x < q.news[q.i].key
    <3> SUFFICES ASSUME q.i \in DOMAIN m.news, NEW x \in Walked(m) \cup {key}
                 PROVE  x < m.news[q.i].key
      BY <1>2, <1>5
    <3>1. m.i \in DOMAIN m.news /\ m.news[m.i].key \in Int /\ m.news[q.i].key \in Int
      BY <1>1, <1>2, MembersFacts
    <3>2. x \in Walked(m) => x < m.news[m.i].key
      BY <1>1, <3>1 DEF Apart
    <3>3. di = 1 => m.news[m.i].key < m.news[q.i].key
      BY <1>1, <1>2, <3>1, MembersFacts
    <3> QED BY <1>1, <1>2, <1>6, <3>1, <3>2, <3>3
  <2>2. q.j \in DOMAIN q.olds => \A x \in Walked(q) : x < q.olds[q.j].key
    <3> SUFFICES ASSUME q.j \in DOMAIN m.olds, NEW x \in Walked(m) \cup {key}
                 PROVE  x < m.olds[q.j].key
      BY <1>2, <1>5
    <3>1. m.j \in DOMAIN m.olds /\ m.olds[m.j].key \in Int /\ m.olds[q.j].key \in Int
      BY <1>1, <1>2, MembersFacts
    <3>2. x \in Walked(m) => x < m.olds[m.j].key
      BY <1>1, <3>1 DEF Apart
    <3>3. dj = 1 => m.olds[m.j].key < m.olds[q.j].key
      BY <1>1, <1>2, <3>1, MembersFacts
    <3> QED BY <1>1, <1>2, <1>6, <3>1, <3>2, <3>3
  <2> QED BY <2>1, <2>2 DEF Apart
<1>9. SaidSoFar(q)
  <2>1. \A w \in MergeMessages : q.said[w] \subseteq Walked(q)
    BY <1>1, <1>2, <1>5 DEF SaidSoFar
  <2>2. ASSUME NEW x \in Walked(q)
        PROVE  IsTold(m.news, m.olds, {w \in MergeMessages : x \in q.said[w]}, x)
    <3>1. CASE x \in Walked(m)
      <4>1. {w \in MergeMessages : x \in q.said[w]} = {w \in MergeMessages : x \in m.said[w]}
        BY <1>2, <1>7, <3>1
      <4> QED BY <4>1, <3>1, <1>1 DEF SaidSoFar
    <3>2. CASE x = key
      <4>1. {w \in MergeMessages : x \in q.said[w]} = messages
        BY <1>1, <1>2, <1>7, <3>2 DEF SaidSoFar
      <4> QED BY <4>1, <3>2
    <3> QED BY <3>1, <3>2, <1>5
  <2> QED BY <2>1, <2>2, <1>2 DEF SaidSoFar
<1> QED BY <1>4, <1>8, <1>9 DEF Walks, q

(****************************************************************************)
(* Comparisons still to be made.                                             *)
(****************************************************************************)

\* A set of positions in a sequence has a last one.
LessThan == {p \in Nat \X Nat : p[1] < p[2]}
LEMMA LastPosition ==
  ASSUME NEW n \in Nat, NEW T, T \subseteq 1..n, T # {}
  PROVE  \E i \in T : \A j \in T : j <= i
<1> DEFINE U == {n - i : i \in T}
<1>1. IsWellFoundedOn(LessThan, Nat)
  BY NatLessThanWellFounded DEF OpToRel, LessThan
<1>2. U \subseteq Nat /\ U # {}
  <2>1. \A i \in T : n - i \in Nat
    OBVIOUS
  <2>2. PICK i \in T : TRUE
    OBVIOUS
  <2> QED BY <2>1, <2>2
<1>3. PICK u \in U : \A v \in U : <<v, u>> \notin LessThan
  <2> HIDE DEF U
  <2> QED BY <1>1, <1>2, WFMin
<1>4. PICK i \in T : u = n - i
  OBVIOUS
<1>5. \A j \in T : ~ (n - j < n - i)
  BY <1>2, <1>3, <1>4 DEF LessThan
<1> QED BY <1>4, <1>5

\* The new definition that is found has the old one's name.
LEMMA CounterpartIs ==
  ASSUME NEW S, Item.news \in Seq(S), Found
  PROVE  Counterpart \in Range(Item.news) /\ Counterpart.name = Item.old.name
<1> DEFINE T == {k \in DOMAIN Item.news : Item.news[k].name = Item.old.name}
<1>1. DOMAIN Item.news = 1..Len(Item.news) /\ Len(Item.news) \in Nat
  BY LenProperties
<1>2. T # {} /\ T \subseteq 1..Len(Item.news)
  BY <1>1 DEF Found
<1>3. PICK k \in T : \A l \in T : l <= k
  <2> HIDE DEF T
  <2> QED BY <1>1, <1>2, LastPosition
<1>4. \E j \in DOMAIN Item.news :
        /\ Item.news[j].name = Item.old.name
        /\ \A l \in DOMAIN Item.news : Item.news[l].name = Item.old.name => l <= j
  BY <1>3
<1>5. PICK j \in DOMAIN Item.news : Counterpart = Item.news[j] /\ Item.news[j].name = Item.old.name
  BY <1>4 DEF Counterpart
<1> QED BY <1>5 DEF Range

LEMMA CounterpartIsNew ==
  ASSUME NEW S, Item.news \in Seq(S), Found
  PROVE  Counterpart \in S
BY CounterpartIs, RangeOfSeq

\* What the comparisons that are queued consist of.
LEMMA CompareType ==
  ASSUME NEW kind, NEW S, NEW news \in Seq(S), NEW olds \in Seq(S)
  PROVE  Compare(kind, news, olds) \in Seq(Among(kind, S))
<1>1. DOMAIN olds = 1..Len(olds) /\ Len(olds) \in Nat /\ \A k \in DOMAIN olds : olds[k] \in S
  BY LenProperties, ElementOfSeq
<1>2. \A k \in DOMAIN olds : [kind |-> kind, news |-> news, old |-> olds[k]] \in Among(kind, S)
  BY <1>1 DEF Among
<1>3. Compare(kind, news, olds) \in [1..Len(olds) -> Among(kind, S)]
  BY <1>1, <1>2 DEF Compare
<1> QED BY <1>1, <1>3, SeqDef

LEMMA CompareMembersIsWalk ==
  ASSUME NEW news \in Members, NEW olds \in Members
  PROVE  CompareMembers(news, olds) \in Walks
<1> DEFINE m == CompareMembers(news, olds)
<1>1. /\ m.kind = "members" /\ m.news = news /\ m.olds = olds /\ m.i = 1 /\ m.j = 1
      /\ m.said = [w \in MergeMessages |-> {}]
  BY DEF CompareMembers
<1>2. m \in Comparing
  <2>1. m \in [kind : {"members"}, news : Members, olds : Members, i : Nat, j : Nat,
               said : [MergeMessages -> SUBSET Int]]
    BY DEF CompareMembers
  <2>2. Len(news) \in Nat /\ Len(olds) \in Nat
    BY MembersFacts
  <2> HIDE DEF m
  <2> QED BY <1>1, <2>1, <2>2 DEF Comparing
<1> HIDE DEF m
<1>3. Walked(m) = {}
  BY <1>1 DEF Walked, Passed
<1>4. Apart(m) /\ SaidSoFar(m)
  BY <1>1, <1>3 DEF Apart, SaidSoFar
<1> QED BY <1>2, <1>4 DEF Walks, m

\* A comparison makes way for those it asks for.
LEMMA ThenInv ==
  ASSUME Inv, ~Done, UNCHANGED <<new, old>>, NEW items \in Seq(Items), Then(items)
  PROVE  Inv'
<1>1. Tail(todo) \in Seq(Items)
  BY HeadTailProperties DEF Inv, Done
<1>2. todo' \in Seq(Items)
  BY <1>1, ConcatProperties DEF Then
<1>3. Items' = Items
  BY DEF Items, Walks, Comparing
<1> QED BY <1>2, <1>3 DEF Inv, IsProgram

\* The comparison at hand, by its kind.
LEMMA ItemFacts ==
  ASSUME Inv, ~Done
  PROVE  /\ Item \in Items
         /\ Item.kind = "service" => Item \in Among("service", Services)
         /\ Item.kind = "function" => Item \in Among("function", Functions)
         /\ Item.kind = "struct" => Item \in Among("struct", Structs)
         /\ Item.kind = "members" => Item \in Walks
<1>1. Item \in Items
  BY HeadTailProperties DEF Inv, Done, Item
<1>2. /\ Item \in Walks => Item.kind = "members"
      /\ Item \in Among("service", Services) => Item.kind = "service"
      /\ Item \in Among("function", Functions) => Item.kind = "function"
      /\ Item \in Among("enum", Enums) => Item.kind = "enum"
      /\ Item \in Among("struct", Structs) => Item.kind = "struct"
      /\ Item \in Among("const", Consts) => Item.kind = "const"
      /\ Item = [kind |-> "namespaces", news |-> new.namespaces, old |-> old.namespaces]
           => Item.kind = "namespaces"
  BY DEF Walks, Comparing, Among
<1> QED BY <1>1, <1>2 DEF Items

(****************************************************************************)
(* The turns of the loop.                                                    *)
(****************************************************************************)

\* Where the walk is.
LEMMA WalkFacts ==
  ASSUME Inv, Doing("members")
  PROVE  /\ Item \in Walks /\ Item.news \in Members /\ Item.olds \in Members
         /\ Item.i \in 1..Len(Item.news) + 1 /\ Item.j \in 1..Len(Item.olds) + 1
         /\ \A k \in DOMAIN Item.news : k < Item.i => Item.news[k].key \in Walked(Item)
         /\ \A k \in DOMAIN Item.olds : k < Item.j => Item.olds[k].key \in Walked(Item)
<1>1. Item \in Walks
  BY ItemFacts DEF Doing
<1>2. /\ Item.news \in Members /\ Item.olds \in Members
      /\ Item.i \in 1..Len(Item.news) + 1 /\ Item.j \in 1..Len(Item.olds) + 1
  BY <1>1 DEF Walks, Comparing
<1>3. \A k \in DOMAIN Item.news : k < Item.i => Item.news[k].key \in Walked(Item)
  BY <1>2, MembersFacts DEF Walked, Passed
<1>4. \A k \in DOMAIN Item.olds : k < Item.j => Item.olds[k].key \in Walked(Item)
  BY <1>2, MembersFacts DEF Walked, Passed
<1> QED BY <1>1, <1>2, <1>3, <1>4

\* The ids of a list are those walked over, that at the iterator and greater ones.
LEMMA NewKeys ==
  ASSUME Inv, Doing("members"), NEW x \in Keys(Item.news)
  PROVE  /\ x \in Int
         /\ AtNew => NewField.key \in Int /\ (x \in Walked(Item) \/ x = NewField.key \/ NewField.key < x)
         /\ ~AtNew => x \in Walked(Item)
<1>1. PICK k \in DOMAIN Item.news : x = Item.news[k].key
  BY DEF Keys
<1>2. /\ DOMAIN Item.news = 1..Len(Item.news) /\ Len(Item.news) \in Nat /\ x \in Int
      /\ \A l, n \in DOMAIN Item.news : l < n => Item.news[l].key < Item.news[n].key
      /\ \A l \in DOMAIN Item.news : Item.news[l].key \in Int
  BY <1>1, WalkFacts, MembersFacts
<1>3. k < Item.i \/ k = Item.i \/ k > Item.i
  BY <1>2, WalkFacts
<1>4. CASE k < Item.i
  BY <1>1, <1>2, <1>4, WalkFacts DEF AtNew, NewField
<1>5. CASE k = Item.i
  BY <1>1, <1>2, <1>5 DEF AtNew, NewField
<1>6. CASE k > Item.i
  BY <1>1, <1>2, <1>6, WalkFacts DEF AtNew, NewField
<1> QED BY <1>3, <1>4, <1>5, <1>6

LEMMA OldKeys ==
  ASSUME Inv, Doing("members"), NEW x \in Keys(Item.olds)
  PROVE  /\ x \in Int
         /\ AtOld => OldField.key \in Int /\ (x \in Walked(Item) \/ x = OldField.key \/ OldField.key < x)
         /\ ~AtOld => x \in Walked(Item)
<1>1. PICK k \in DOMAIN Item.olds : x = Item.olds[k].key
  BY DEF Keys
<1>2. /\ DOMAIN Item.olds = 1..Len(Item.olds) /\ Len(Item.olds) \in Nat /\ x \in Int
      /\ \A l, n \in DOMAIN Item.olds : l < n => Item.olds[l].key < Item.olds[n].key
      /\ \A l \in DOMAIN Item.olds : Item.olds[l].key \in Int
  BY <1>1, WalkFacts, MembersFacts
<1>3. k < Item.j \/ k = Item.j \/ k > Item.j
  BY <1>2, WalkFacts
<1>4. CASE k < Item.j
  BY <1>1, <1>2, <1>4, WalkFacts DEF AtOld, OldField
<1>5. CASE k = Item.j
  BY <1>1, <1>2, <1>5 DEF AtOld, OldField
<1>6. CASE k > Item.j
  BY <1>1, <1>2, <1>6, WalkFacts DEF AtOld, OldField
<1> QED BY <1>3, <1>4, <1>5, <1>6

\* What is at the iterators is behind all that was walked over.
LEMMA AheadOfWalk ==
  ASSUME Inv, Doing("members")
  PROVE  /\ AtNew => /\ NewField.key \in Keys(Item.news) /\ NewField.key \in Int
                     /\ At(Item.news, NewField.key) = NewField
                     /\ \A x \in Walked(Item) : x < NewField.key
         /\ AtOld => /\ OldField.key \in Keys(Item.olds) /\ OldField.key \in Int
                     /\ At(Item.olds, OldField.key) = OldField
                     /\ \A x \in Walked(Item) : x < OldField.key
<1>1. Item \in Walks /\ Item.news \in Members /\ Item.olds \in Members /\ Apart(Item)
  BY WalkFacts DEF Walks
<1> QED BY <1>1, MembersFacts DEF AtNew, AtOld, NewField, OldField, Keys, Apart

\* A turn of the loop keeps the invariant if what it says is what may be said.
LEMMA TurnInv ==
  ASSUME Inv, Doing("members"), NEW messages \in SUBSET MergeMessages, NEW key \in Int,
         NEW di \in 0..1, NEW dj \in 0..1, di + dj # 0,
         di = 1 => AtNew /\ NewField.key = key,
         dj = 1 => AtOld /\ OldField.key = key,
         di = 0 /\ AtNew => key < NewField.key,
         dj = 0 /\ AtOld => key < OldField.key,
         IsTold(Item.news, Item.olds, messages, key),
         Turn(messages, key, di, dj)
  PROVE  Inv'
<1> DEFINE said == Say(messages, key)
           q == [Item EXCEPT !.i = @ + di, !.j = @ + dj, !.said = said]
<1>1. said = [w \in MergeMessages |->
        IF w \in messages THEN Item.said[w] \cup {key} ELSE Item.said[w]]
  BY DEF Say
<1>2. q \in Walks
  <2> HIDE DEF said
  <2>1. Item \in Walks
    BY WalkFacts
  <2>2. /\ di = 1 => Item.i \in DOMAIN Item.news /\ Item.news[Item.i].key = key
        /\ dj = 1 => Item.j \in DOMAIN Item.olds /\ Item.olds[Item.j].key = key
        /\ di = 0 /\ Item.i \in DOMAIN Item.news => key < Item.news[Item.i].key
        /\ dj = 0 /\ Item.j \in DOMAIN Item.olds => key < Item.olds[Item.j].key
    BY DEF AtNew, AtOld, NewField, OldField
  <2> QED BY ZenonT(40), <1>1, <2>1, <2>2, TurnKeepsWalk
<1>3. <<q>> \in Seq(Items)
  <2> HIDE DEF q
  <2> QED BY <1>2 DEF Items
<1>4. Then(<<q>>) /\ UNCHANGED <<new, old>>
  BY DEF Turn, Report
<1> HIDE DEF q
<1> QED BY <1>3, <1>4, ThenInv DEF Doing

LEMMA RemovedInv == Inv /\ FieldRemoved => Inv'
<1> SUFFICES ASSUME Inv, FieldRemoved PROVE Inv'
  OBVIOUS
<1> DEFINE key == OldField.key
<1>1. Doing("members") /\ AtOld /\ (AtNew => key < NewField.key) /\ key \in Int
  BY AheadOfWalk DEF FieldRemoved
<1>2. key \notin Keys(Item.news)
  BY <1>1, NewKeys, AheadOfWalk
<1>3. IsTold(Item.news, Item.olds, {"removed"}, key)
  BY <1>2 DEF IsTold, May, MayNot, MergeMessages, MergeFailures, MergeWarnings
<1>4. {"removed"} \in SUBSET MergeMessages
  BY DEF MergeMessages, MergeFailures
<1> QED BY <1>1, <1>3, <1>4, TurnInv DEF FieldRemoved

LEMMA AddedAtEndInv == Inv /\ FieldAddedAtEnd => Inv'
<1> SUFFICES ASSUME Inv, FieldAddedAtEnd PROVE Inv'
  OBVIOUS
<1> DEFINE key == NewField.key
           messages == {"required_added" : f \in {f \in {NewField} : Required(f)}}
<1>1. Doing("members") /\ AtNew /\ ~AtOld /\ key \in Int
  BY AheadOfWalk DEF FieldAddedAtEnd
<1>2. key \in Keys(Item.news) /\ At(Item.news, key) = NewField /\ \A y \in Keys(Item.olds) : y \in Int /\ y < key
  BY <1>1, OldKeys, AheadOfWalk
<1>3. key \notin Keys(Item.olds) /\ ~ \E y \in Keys(Item.olds) : key < y
  BY <1>1, <1>2
<1>4. \A w : w \in messages <=> w = "required_added" /\ Required(NewField)
  OBVIOUS
<1>5. IsTold(Item.news, Item.olds, messages, key)
  <2> HIDE DEF key, messages
  <2> QED BY <1>2, <1>3, <1>4 DEF IsTold, May, MayNot, MergeMessages, MergeFailures, MergeWarnings
<1>6. messages \in SUBSET MergeMessages
  BY <1>4 DEF MergeMessages, MergeFailures
<1> QED BY <1>1, <1>5, <1>6, TurnInv DEF FieldAddedAtEnd

LEMMA AddedInMiddleInv == Inv /\ FieldAddedInMiddle => Inv'
<1> SUFFICES ASSUME Inv, FieldAddedInMiddle PROVE Inv'
  OBVIOUS
<1> DEFINE key == NewField.key
<1>1. Doing("members") /\ AtNew /\ AtOld /\ key < OldField.key /\ key \in Int
  BY AheadOfWalk DEF FieldAddedInMiddle
<1>2. key \in Keys(Item.news) /\ \E y \in Keys(Item.olds) : key < y
  BY <1>1, AheadOfWalk
<1>3. key \notin Keys(Item.olds)
  BY <1>1, OldKeys, AheadOfWalk
<1>4. ~ \A y \in Keys(Item.olds) : y < key
  BY <1>1, <1>2, OldKeys
<1>5. IsTold(Item.news, Item.olds, {"middle"}, key)
  <2> HIDE DEF key
  <2> QED BY <1>2, <1>3, <1>4 DEF IsTold, May, MayNot, MergeMessages, MergeFailures, MergeWarnings
<1>6. {"middle"} \in SUBSET MergeMessages
  BY DEF MergeMessages, MergeFailures
<1> QED BY <1>1, <1>5, <1>6, TurnInv DEF FieldAddedInMiddle

LEMMA StructFieldInv == Inv /\ compare_struct_field => Inv'
<1> SUFFICES ASSUME Inv, compare_struct_field PROVE Inv'
  OBVIOUS
<1> DEFINE key == NewField.key
           Messages(same) ==
             {w \in MergeMessages :
                \/ w = "type" /\ ~ compare_type[<<NewField.type, OldField.type>>]
                \/ w = "requiredness" /\ ~ (Required(NewField) <=> Required(OldField))
                \/ w = "default" /\ ~ same /\ ~ (Required(NewField) /\ Required(OldField))
                \/ w = "field_name" /\ NewField.name # OldField.name}
<1>1. Doing("members") /\ AtNew /\ AtOld /\ key = OldField.key /\ key \in Int
  BY AheadOfWalk DEF compare_struct_field
<1>2. /\ key \in Keys(Item.news) /\ At(Item.news, key) = NewField
      /\ key \in Keys(Item.olds) /\ At(Item.olds, key) = OldField
  BY <1>1, AheadOfWalk
<1>3. PICK same \in BOOLEAN :
        /\ same \in compare_defaults[<<NewField.value, OldField.value>>]
        /\ Turn(Messages(same), key, 1, 1)
  BY DEF compare_struct_field
<1>4. Messages(same) \in SUBSET MergeMessages
  OBVIOUS
<1>5. IsTold(Item.news, Item.olds, Messages(same), key)
  <2> HIDE DEF key
  <2>1. CASE same = TRUE
    BY <1>2, <1>3, <2>1 DEF IsTold, May, MayNot, MergeMessages, MergeFailures, MergeWarnings
  <2>2. CASE same = FALSE
    BY ZenonT(40), <1>2, <1>3, <2>2 DEF IsTold, May, MayNot, MergeMessages, MergeFailures, MergeWarnings
  <2> QED BY <2>1, <2>2
<1> DEFINE messages == Messages(same)
<1>6. /\ messages \in SUBSET MergeMessages
      /\ IsTold(Item.news, Item.olds, messages, key)
      /\ Turn(messages, key, 1, 1)
  BY <1>3, <1>4, <1>5
<1> HIDE DEF Messages, messages
<1> QED BY <1>1, <1>6, TurnInv

(****************************************************************************)
(* All steps.                                                                *)
(****************************************************************************)

\* What is to be compared at first, kind by kind.
LEMMA InitTodo ==
  ASSUME Init
  PROVE  /\ IsProgram(new) /\ IsProgram(old)
         /\ todo \in Seq(Items)
         /\ Range(todo) = {[kind |-> "namespaces", news |-> new.namespaces, old |-> old.namespaces]}
                            \cup Range(Compare("service", new.services, old.services))
                            \cup Range(Compare("enum", new.enums, old.enums))
                            \cup Range(Compare("struct", new.structs, old.structs))
                            \cup Range(Compare("struct", new.xceptions, old.xceptions))
                            \cup Range(Compare("const", new.consts, old.consts))
<1>1. IsProgram(new) /\ IsProgram(old)
  BY ProgramsAssumption DEF Init
<1> DEFINE namespaces == [kind |-> "namespaces", news |-> new.namespaces, old |-> old.namespaces]
           services == Compare("service", new.services, old.services)
           enums == Compare("enum", new.enums, old.enums)
           structs == Compare("struct", new.structs, old.structs)
           xceptions == Compare("struct", new.xceptions, old.xceptions)
           consts == Compare("const", new.consts, old.consts)
<1>2. namespaces \in Items
  BY DEF Items
<1>3. /\ services \in Seq(Items) /\ enums \in Seq(Items) /\ structs \in Seq(Items)
      /\ xceptions \in Seq(Items) /\ consts \in Seq(Items)
  <2>1. /\ Among("service", Services) \subseteq Items /\ Among("enum", Enums) \subseteq Items
        /\ Among("struct", Structs) \subseteq Items /\ Among("const", Consts) \subseteq Items
    BY DEF Items
  <2>2. /\ services \in Seq(Among("service", Services))
        /\ enums \in Seq(Among("enum", Enums))
        /\ structs \in Seq(Among("struct", Structs))
        /\ xceptions \in Seq(Among("struct", Structs))
        /\ consts \in Seq(Among("const", Consts))
    BY <1>1, CompareType DEF IsProgram
  <2> HIDE DEF services, enums, structs, xceptions, consts
  <2> QED BY <2>1, <2>2, SeqMonotonic
<1>4. todo = <<namespaces>> \o services \o enums \o structs \o xceptions \o consts
  BY DEF Init
<1> HIDE DEF namespaces, services, enums, structs, xceptions, consts
<1>5. <<namespaces>> \in Seq(Items) /\ Range(<<namespaces>>) = {namespaces}
  BY <1>2 DEF Range
<1>6. \A s, t \in Seq(Items) : s \o t \in Seq(Items) /\ Range(s \o t) = Range(s) \cup Range(t)
  BY ConcatProperties, RangeConcatenation
<1> DEFINE a == <<namespaces>> \o services
           b == a \o enums
           c == b \o structs
           d == c \o xceptions
           e == d \o consts
<1>7. a \in Seq(Items) /\ Range(a) = {namespaces} \cup Range(services)
  BY <1>3, <1>5, <1>6
<1> HIDE DEF a
<1>8. b \in Seq(Items) /\ Range(b) = Range(a) \cup Range(enums)
  BY <1>3, <1>6, <1>7
<1> HIDE DEF b
<1>9. c \in Seq(Items) /\ Range(c) = Range(b) \cup Range(structs)
  BY <1>3, <1>6, <1>8
<1> HIDE DEF c
<1>10. d \in Seq(Items) /\ Range(d) = Range(c) \cup Range(xceptions)
  BY <1>3, <1>6, <1>9
<1> HIDE DEF d
<1>11. e \in Seq(Items) /\ Range(e) = Range(d) \cup Range(consts)
  BY <1>3, <1>6, <1>10
<1>12. todo = e
  BY <1>4 DEF a, b, c, d, e
<1> HIDE DEF e
<1> QED BY <1>1, <1>7, <1>8, <1>9, <1>10, <1>11, <1>12 DEF namespaces, services, enums, structs, xceptions, consts

LEMMA InitInv == Init => Inv
BY InitTodo DEF Inv

LEMMA NextInv == Inv /\ [Next]_vars => Inv'
<1> SUFFICES ASSUME Inv, [Next]_vars PROVE Inv'
  OBVIOUS
<1>0. <<>> \in Seq(Items)
  OBVIOUS
<1>1. CASE compare_namespace
  BY <1>0, <1>1, ThenInv DEF compare_namespace, Doing, Report
<1>2. CASE \E kind \in {"service", "function", "enum", "struct", "const"} : Missing(kind)
  BY <1>0, <1>2, ThenInv DEF Missing, Doing, Report
<1>3. CASE compare_services
  <2>1. Item \in Among("service", Services) /\ Found /\ ~Done /\ UNCHANGED <<new, old>>
    BY <1>3, ItemFacts DEF compare_services, Doing, Report
  <2>2. Counterpart \in Services /\ Item.old \in Services
    BY <2>1, CounterpartIsNew DEF Among
  <2>3. Compare("function", Counterpart.functions, Item.old.functions) \in Seq(Among("function", Functions))
    BY <2>2, CompareType DEF Services
  <2>4. Compare("function", Counterpart.functions, Item.old.functions) \in Seq(Items)
    BY <2>3, SeqMonotonic DEF Items
  <2> QED BY <1>3, <2>1, <2>4, ThenInv DEF compare_services
<1>4. CASE compare_single_function
  <2>1. Item \in Among("function", Functions) /\ Found /\ ~Done /\ UNCHANGED <<new, old>>
    BY <1>4, ItemFacts DEF compare_single_function, Doing, Report
  <2>2. Counterpart \in Functions /\ Item.old \in Functions
    BY <2>1, CounterpartIsNew DEF Among
  <2> DEFINE m == CompareMembers(Counterpart.args, Item.old.args)
             q == CompareMembers(Counterpart.throws, Item.old.throws)
  <2>3. m \in Items /\ q \in Items
    BY <2>2, CompareMembersIsWalk DEF Functions, Items
  <2>4. <<m, q>> \in Seq(Items)
    <3> HIDE DEF m, q
    <3> QED BY <2>3
  <2> QED BY <1>4, <2>1, <2>4, ThenInv DEF compare_single_function
<1>5. CASE compare_enum_values
  BY <1>0, <1>5, ThenInv DEF compare_enum_values, Doing, Report
<1>6. CASE compare_structs
  <2>1. Item \in Among("struct", Structs) /\ Found /\ ~Done /\ UNCHANGED <<new, old>>
    BY <1>6, ItemFacts DEF compare_structs, Doing, Report
  <2>2. Counterpart \in Structs /\ Item.old \in Structs
    BY <2>1, CounterpartIsNew DEF Among
  <2> DEFINE m == CompareMembers(Counterpart.members, Item.old.members)
  <2>3. m \in Items
    BY <2>2, CompareMembersIsWalk DEF Structs, Items
  <2>4. <<m>> \in Seq(Items)
    <3> HIDE DEF m
    <3> QED BY <2>3
  <2> QED BY <1>6, <2>1, <2>4, ThenInv DEF compare_structs
<1>7. CASE compare_consts
  <2>1. ~Done /\ UNCHANGED <<new, old>> /\ Then(<<>>)
    BY <1>7 DEF compare_consts, Doing, Report
  <2> QED BY <1>0, <2>1, ThenInv
<1>8. CASE FieldRemoved \/ FieldAddedAtEnd \/ FieldAddedInMiddle \/ compare_struct_field
  BY <1>8, RemovedInv, AddedAtEndInv, AddedInMiddleInv, StructFieldInv
<1>9. CASE MembersCompared
  BY <1>0, <1>9, ThenInv DEF MembersCompared, Doing, Report
<1>10. CASE UNCHANGED vars
  BY <1>10 DEF vars, Inv, IsProgram, Items, Walks, Comparing
<1> QED BY <1>1, <1>2, <1>3, <1>4, <1>5, <1>6, <1>7, <1>8, <1>9, <1>10 DEF Next

\* At every turn all has been said of the ids walked over and nothing of others, and
\* those that remain are greater (t_audit.cpp:263-302).
THEOREM WalkInvariant == Spec => []Inv
BY InitInv, NextInv, PTL DEF Spec

\* At the end of the walk all that is to be said of either list's ids has been.
LEMMA AllTold ==
  ASSUME Inv, Doing("members"), ~AtNew, ~AtOld
  PROVE  LET ids == Keys(Item.news) \cup Keys(Item.olds)
         IN \A w \in MergeMessages :
              /\ Item.said[w] \subseteq ids
              /\ \A x \in ids : IF x \in Item.said[w] THEN May(Item.news, Item.olds, w, x)
                                                     ELSE MayNot(Item.news, Item.olds, w, x)
<1> DEFINE ids == Keys(Item.news) \cup Keys(Item.olds)
<1>1. Walked(Item) = ids
  <2>1. ids \subseteq Walked(Item)
    BY NewKeys, OldKeys
  <2>2. Walked(Item) \subseteq ids
    BY SMTT(40), WalkFacts, MembersFacts DEF Walked, Passed, Keys
  <2> QED BY <2>1, <2>2
<1>2. /\ \A w \in MergeMessages : Item.said[w] \subseteq ids
      /\ \A x \in ids : IsTold(Item.news, Item.olds, {w \in MergeMessages : x \in Item.said[w]}, x)
  BY <1>1, WalkFacts DEF Walks, SaidSoFar
<1> QED BY <1>2 DEF IsTold

\* The walk ends having said of each id of either struct just what is true of it
\* (t_audit.cpp:253-303).
THEOREM WalkIsExact == Spec => []MergeIsExact
<1>1. Inv => MergeIsExact
  <2> SUFFICES ASSUME Inv, Doing("members"), ~AtNew, ~AtOld
               PROVE  MembersExact(Item.news, Item.olds, Item.said)
    BY DEF MergeIsExact
  <2> DEFINE ids == Keys(Item.news) \cup Keys(Item.olds)
  <2>2. \A w \in MergeMessages : Item.said[w] \subseteq ids
    BY AllTold
  <2>3. \A w \in MergeMessages : \A x \in ids :
          IF x \in Item.said[w] THEN May(Item.news, Item.olds, w, x) ELSE MayNot(Item.news, Item.olds, w, x)
    BY AllTold
  <2>4. \A w \in MergeMessages \ {"default"} :
          Item.said[w] = {x \in ids : May(Item.news, Item.olds, w, x)}
    BY <2>2, <2>3 DEF MayNot
  <2>5. {"removed", "required_added", "middle", "type", "requiredness", "field_name"}
          \subseteq MergeMessages \ {"default"}
    BY DEF MergeMessages, MergeFailures, MergeWarnings
  <2>6. /\ Item.said["removed"] = Keys(Item.olds) \ Keys(Item.news)
        /\ Item.said["middle"] = {k \in Keys(Item.news) \ Keys(Item.olds) : \E o \in Keys(Item.olds) : k < o}
    <3>1. \A x : May(Item.news, Item.olds, "removed", x) <=> x \notin Keys(Item.news)
      BY DEF May
    <3>2. \A x : May(Item.news, Item.olds, "middle", x) <=>
                   /\ x \in Keys(Item.news) /\ x \notin Keys(Item.olds)
                   /\ \E y \in Keys(Item.olds) : x < y
      BY DEF May
    <3>3. /\ Item.said["removed"] = {x \in ids : May(Item.news, Item.olds, "removed", x)}
          /\ Item.said["middle"] = {x \in ids : May(Item.news, Item.olds, "middle", x)}
      BY <2>4, <2>5
    <3> QED BY <3>1, <3>2, <3>3
  <2>7. Item.said["required_added"] =
          {k \in Keys(Item.news) \ Keys(Item.olds) :
             Required(At(Item.news, k)) /\ \A o \in Keys(Item.olds) : o < k}
    <3>1. \A x : May(Item.news, Item.olds, "required_added", x) <=>
                   /\ x \in Keys(Item.news) /\ x \notin Keys(Item.olds)
                   /\ Required(At(Item.news, x)) /\ \A y \in Keys(Item.olds) : y < x
      BY DEF May
    <3> QED BY <2>4, <2>5, <3>1
  <2>8. Item.said["type"] = {k \in Keys(Item.news) \cap Keys(Item.olds) :
          ~ compare_type[<<At(Item.news, k).type, At(Item.olds, k).type>>]}
    BY ZenonT(40), <2>4, <2>5 DEF May
  <2>9. Item.said["requiredness"] = {k \in Keys(Item.news) \cap Keys(Item.olds) :
          ~ (Required(At(Item.news, k)) <=> Required(At(Item.olds, k)))}
    BY ZenonT(40), <2>4, <2>5 DEF May
  <2>10. Item.said["field_name"] = {k \in Keys(Item.news) \cap Keys(Item.olds) :
          At(Item.news, k).name # At(Item.olds, k).name}
    BY <2>4, <2>5 DEF May
  <2>11. \A k \in Keys(Item.news) \cap Keys(Item.olds) :
           LET n == At(Item.news, k)
               o == At(Item.olds, k)
           IN IF k \in Item.said["default"]
              THEN FALSE \in compare_defaults[<<n.value, o.value>>] /\ ~ (Required(n) /\ Required(o))
              ELSE (Required(n) /\ Required(o)) \/ TRUE \in compare_defaults[<<n.value, o.value>>]
    <3>1. "default" \in MergeMessages
      BY DEF MergeMessages, MergeWarnings
    <3> QED BY <2>3, <3>1 DEF May, MayNot
  <2> QED BY <2>6, <2>7, <2>8, <2>9, <2>10, <2>11 DEF MembersExact
<1> QED BY <1>1, WalkInvariant, PTL

(****************************************************************************)
(* Recursion over data.  A function of types or values is defined by what it *)
(* is of their parts; it exists because nothing is part of itself.           *)
(****************************************************************************)

\* Below[x] are the parts of x, and none is part of itself.
Tree(D, Below) ==
  /\ Below \in [D -> SUBSET D]
  /\ \A S \in SUBSET D : S # {} => \E x \in S : Below[x] \cap S = {}

\* H[x] gives what is asked for x from what has been found of its parts.
Yields(D, Below, Out, H) == \A x \in D : \A g \in [Below[x] -> Out] : H[x][g] \in Out

\* g is what the equation asks for, on a set E that has the parts of its members.
Solves(g, E, D, Below, Out, H) ==
  /\ E \subseteq D /\ g \in [E -> Out]
  /\ \A x \in E : Below[x] \subseteq E /\ g[x] = H[x][[y \in Below[x] |-> g[y]]]

\* Two solutions agree.
LEMMA SolutionsAgree ==
  ASSUME NEW D, NEW Below, Tree(D, Below), NEW Out, NEW H,
         NEW g, NEW E, Solves(g, E, D, Below, Out, H),
         NEW h, NEW F, Solves(h, F, D, Below, Out, H),
         NEW x \in E \cap F
  PROVE  g[x] = h[x]
<1> DEFINE S == {z \in E \cap F : g[z] # h[z]}
<1>1. SUFFICES ASSUME S # {} PROVE FALSE
  OBVIOUS
<1>2. S \in SUBSET D
  BY DEF Solves
<1>3. PICK z \in S : Below[z] \cap S = {}
  BY <1>1, <1>2 DEF Tree
<1>4. z \in E /\ z \in F /\ g[z] # h[z]
  BY <1>3
<1>5. Below[z] \subseteq E /\ Below[z] \subseteq F
  BY <1>4 DEF Solves
<1>6. \A y \in Below[z] : g[y] = h[y]
  BY <1>3, <1>5
<1>7. [y \in Below[z] |-> g[y]] = [y \in Below[z] |-> h[y]]
  BY <1>6
<1>8. g[z] = H[z][[y \in Below[z] |-> g[y]]] /\ h[z] = H[z][[y \in Below[z] |-> h[y]]]
  BY <1>4 DEF Solves
<1> QED BY <1>4, <1>7, <1>8

\* There is one for all data.
LEMMA RecursionOverData ==
  ASSUME NEW D, NEW Below, Tree(D, Below), NEW Out, NEW H,
         Yields(D, Below, Out, H)
  PROVE  \E f \in [D -> Out] : \A x \in D : f[x] = H[x][[y \in Below[x] |-> f[y]]]
<1> DEFINE Sol(g, E) == Solves(g, E, D, Below, Out, H)
           F == {x \in D : \E g, E : Sol(g, E) /\ x \in E}
           Value(x) == CHOOSE v : \E g, E : Sol(g, E) /\ x \in E /\ v = g[x]
           f == [x \in F |-> Value(x)]
<1>1. ASSUME NEW g, NEW E, Sol(g, E), NEW x \in E
      PROVE  x \in F /\ f[x] = g[x]
  <2>1. x \in F
    BY <1>1 DEF Solves
  <2>2. \E v : \E h, G : Sol(h, G) /\ x \in G /\ v = h[x]
    BY <1>1
  <2>3. PICK h, G : Sol(h, G) /\ x \in G /\ Value(x) = h[x]
    <3> HIDE DEF Sol
    <3> QED BY <2>2
  <2>4. g[x] = h[x]
    BY <1>1, <2>3, SolutionsAgree
  <2> QED BY <2>1, <2>3, <2>4
<1>2. ASSUME NEW x \in F
      PROVE  /\ f[x] \in Out /\ Below[x] \subseteq F
             /\ f[x] = H[x][[y \in Below[x] |-> f[y]]]
  <2>1. PICK g, E : Sol(g, E) /\ x \in E
    BY <1>2
  <2>2. Below[x] \subseteq E /\ g[x] \in Out /\ g[x] = H[x][[y \in Below[x] |-> g[y]]]
    BY <2>1 DEF Solves
  <2>3. \A y \in E : y \in F /\ f[y] = g[y]
    <3> HIDE DEF f, F, Sol
    <3> QED BY <1>1, <2>1
  <2>4. [y \in Below[x] |-> f[y]] = [y \in Below[x] |-> g[y]]
    <3> HIDE DEF f, F
    <3> QED BY <2>2, <2>3
  <2> HIDE DEF f, F
  <2> QED BY <2>1, <2>2, <2>3, <2>4
<1>3. Sol(f, F)
  <2>1. f = [x \in F |-> f[x]]
    OBVIOUS
  <2>2. F \subseteq D
    OBVIOUS
  <2> HIDE DEF f, F
  <2> QED BY <1>2, <2>1, <2>2 DEF Solves
<1>4. F = D
  <2> DEFINE S == D \ F
  <2>1. SUFFICES ASSUME S # {} PROVE FALSE
    OBVIOUS
  <2>2. PICK x \in S : Below[x] \cap S = {}
    <3> HIDE DEF F
    <3> QED BY <2>1 DEF Tree
  <2>3. x \in D /\ x \notin F /\ Below[x] \subseteq F
    <3>1. x \in D /\ x \notin F /\ Below[x] \subseteq D
      BY <2>2 DEF Tree
    <3> HIDE DEF F
    <3> QED BY <2>2, <3>1
  <2> DEFINE E == F \cup {x}
             g == [z \in E |-> IF z = x THEN H[x][[y \in Below[x] |-> f[y]]] ELSE f[z]]
  <2> HIDE DEF f, F
  <2>4. [y \in Below[x] |-> f[y]] \in [Below[x] -> Out]
    BY <1>2, <2>3
  <2>5. g \in [E -> Out]
    <3>1. H[x][[y \in Below[x] |-> f[y]]] \in Out
      BY <2>3, <2>4 DEF Yields
    <3>2. \A z \in E : (IF z = x THEN H[x][[y \in Below[x] |-> f[y]]] ELSE f[z]) \in Out
      BY <1>2, <3>1
    <3> QED BY <3>2
  <2>6. \A z \in F : g[z] = f[z]
    BY <2>3
  <2>7. ASSUME NEW z \in E
        PROVE  Below[z] \subseteq E /\ g[z] = H[z][[y \in Below[z] |-> g[y]]]
    <3>1. Below[z] \subseteq F
      BY <1>2, <2>3
    <3>2. [y \in Below[z] |-> g[y]] = [y \in Below[z] |-> f[y]]
      <4> HIDE DEF g
      <4> QED BY <2>6, <3>1
    <3>3. g[z] = H[z][[y \in Below[z] |-> f[y]]]
      <4>1. CASE z = x
        BY <4>1
      <4>2. CASE z \in F
        BY <1>2, <2>6, <4>2
      <4> QED BY <4>1, <4>2
    <3> HIDE DEF g
    <3> QED BY <3>1, <3>2, <3>3
  <2>8. Sol(g, E)
    <3>1. E \subseteq D
      BY <2>3 DEF F
    <3> HIDE DEF g, E
    <3> QED BY <2>5, <2>7, <3>1 DEF Solves
  <2>9. x \in E
    OBVIOUS
  <2> HIDE DEF g, E
  <2> QED BY <2>3, <2>8, <2>9 DEF F
<1>5. f \in [D -> Out] /\ \A x \in D : f[x] = H[x][[y \in Below[x] |-> f[y]]]
  <2> HIDE DEF f, F
  <2> QED BY <1>3, <1>4 DEF Solves
<1> QED BY <1>5

\* Pairs, by their first component.
ByFirst(A, B, P) == [p \in A \X B |-> {q \in A \X B : q[1] \in P[p[1]]}]
LEMMA PairsAreWellFounded ==
  ASSUME NEW A, NEW B, NEW P, Tree(A, P)
  PROVE  Tree(A \X B, ByFirst(A, B, P))
<1> DEFINE Below == ByFirst(A, B, P)
<1>0. SUFFICES ASSUME NEW S \in SUBSET (A \X B), S # {}
               PROVE  \E x \in S : Below[x] \cap S = {}
  BY DEF Tree, ByFirst
<1> DEFINE S1 == {q[1] : q \in S}
<1>1. S1 \in SUBSET A /\ S1 # {}
  <2>1. \A q \in S : q[1] \in A /\ q[1] \in S1
    BY <1>0
  <2> QED BY <1>0, <2>1
<1>2. PICK a \in S1 : P[a] \cap S1 = {}
  <2> HIDE DEF S1
  <2> QED BY <1>1 DEF Tree
<1>3. PICK x \in S : x[1] = a
  BY <1>2
<1>4. \A q \in Below[x] : q[1] \in P[a]
  BY <1>0, <1>3 DEF ByFirst
<1>5. \A q \in S : q[1] \in S1
  OBVIOUS
<1> HIDE DEF Below, S1
<1> QED BY <1>2, <1>3, <1>4, <1>5

\* The parts of a type.
LEMMA TypeFacts ==
  ASSUME NEW t \in Types
  PROVE  /\ TypeParts(t) \subseteq Types
         /\ t.name = "" => /\ TypeParts(t) = {t.parts[i] : i \in DOMAIN t.parts}
                           /\ t.kind \in Containers
                           /\ DOMAIN t.parts = 1..(IF t.kind = "map" THEN 2 ELSE 1)
                           /\ \A i \in DOMAIN t.parts : t.parts[i] \in Types /\ t.parts[i] \in TypeParts(t)
         /\ t.name # "" => TypeParts(t) = {}
<1>1. IsType(t)
  BY TypesAssumption
<1>2. CASE t.name # ""
  BY <1>2 DEF TypeParts
<1>3. CASE t.name = ""
  <2>1. t.kind \in Containers /\ t.parts \in [1..(IF t.kind = "map" THEN 2 ELSE 1) -> Types]
    BY <1>1, <1>3 DEF IsType
  <2>2. TypeParts(t) = {t.parts[i] : i \in DOMAIN t.parts}
    BY <1>3 DEF TypeParts, Range
  <2> QED BY <1>3, <2>1, <2>2
<1> QED BY <1>2, <1>3

TypeTree == [t \in Types |-> TypeParts(t)]
LEMMA TypesAreTrees == Tree(Types, TypeTree)
<1>1. TypeTree \in [Types -> SUBSET Types]
  BY TypeFacts DEF TypeTree
<1>2. ASSUME NEW S \in SUBSET Types, S # {} PROVE \E x \in S : TypeTree[x] \cap S = {}
  BY <1>2, TypesAssumption DEF TypeTree
<1> QED BY <1>1, <1>2 DEF Tree

\* compare_type is what its equation says.
LEMMA CompareTypeIs ==
  ASSUME NEW n \in Types, NEW o \in Types
  PROVE  compare_type[<<n, o>>] =
           IF n.name = "" /\ o.name = ""
           THEN n.kind = o.kind /\ \A i \in DOMAIN n.parts : compare_type[<<n.parts[i], o.parts[i]>>]
           ELSE n.name = o.name
<1> DEFINE D == Types \X Types
           Below == ByFirst(Types, Types, TypeTree)
           Body(p, g) == LET x == p[1]
                             y == p[2]
                         IN IF x.name = "" /\ y.name = ""
                            THEN x.kind = y.kind /\ \A i \in DOMAIN x.parts : g[<<x.parts[i], y.parts[i]>>]
                            ELSE x.name = y.name
           H == [p \in D |-> [g \in [Below[p] -> BOOLEAN] |-> Body(p, g)]]
<1>1. Tree(D, Below)
  BY TypesAreTrees, PairsAreWellFounded
<1>3. Yields(D, Below, BOOLEAN, H)
  <2>1. \A x \in D : \A g \in [Below[x] -> BOOLEAN] : H[x][g] = Body(x, g)
    OBVIOUS
  <2>2. \A x, g : Body(x, g) \in BOOLEAN
    OBVIOUS
  <2> HIDE DEF H, Body, Below, D
  <2> QED BY <2>1, <2>2 DEF Yields
<1>4. PICK f \in [D -> BOOLEAN] : \A x \in D : f[x] = H[x][[y \in Below[x] |-> f[y]]]
  <2> HIDE DEF H, Below, D
  <2> QED BY <1>1, <1>3, RecursionOverData
<1>5. ASSUME NEW p \in D PROVE f[p] = Body(p, f)
  <2> DEFINE g == [y \in Below[p] |-> f[y]]
  <2>1. g \in [Below[p] -> BOOLEAN]
    <3>1. Below[p] \subseteq D
      BY <1>1 DEF Tree
    <3> HIDE DEF Below, D
    <3> QED BY <1>4, <3>1
  <2>2. f[p] = Body(p, g)
    <3>1. H[p][g] = Body(p, g)
      <4> HIDE DEF Body, g
      <4> QED BY <2>1
    <3> QED BY <1>4, <3>1
  <2>3. ASSUME p[1].name = "", p[2].name = "", p[1].kind = p[2].kind, NEW i \in DOMAIN p[1].parts
        PROVE  g[<<p[1].parts[i], p[2].parts[i]>>] = f[<<p[1].parts[i], p[2].parts[i]>>]
    <3>1. p[1].parts[i] \in TypeParts(p[1]) /\ p[1].parts[i] \in Types
      BY <2>3, TypeFacts
    <3>2. DOMAIN p[1].parts = DOMAIN p[2].parts
      <4>1. p[1] \in Types /\ p[2] \in Types
        OBVIOUS
      <4> QED BY <2>3, <4>1, TypeFacts
    <3>3. p[2].parts[i] \in Types
      BY <2>3, <3>2, TypeFacts
    <3>4. <<p[1].parts[i], p[2].parts[i]>> \in Below[p]
      BY <3>1, <3>3 DEF TypeTree, ByFirst
    <3> HIDE DEF Below
    <3> QED BY <3>4
  <2> HIDE DEF g
  <2> QED BY <2>2, <2>3
<1>6. f = [pair \in D |-> Body(pair, f)]
  <2> HIDE DEF Body, D
  <2> QED BY SMTT(40), <1>5
<1>7. compare_type = [pair \in D |-> Body(pair, compare_type)]
  BY <1>6 DEF compare_type
<1> QED BY <1>7

\* ... and so is SameWire its equation says.
LEMMA SameWireIs ==
  ASSUME NEW n \in Types, NEW o \in Types
  PROVE  SameWire[<<n, o>>] =
           IF n.name # "" /\ o.name # "" THEN n.means = o.means
           ELSE /\ n.name = "" /\ o.name = "" /\ n.kind = o.kind
                /\ \A i \in DOMAIN n.parts : SameWire[<<n.parts[i], o.parts[i]>>]
<1> DEFINE D == Types \X Types
           Below == ByFirst(Types, Types, TypeTree)
           Body(p, g) == LET x == p[1]
                             y == p[2]
                         IN IF x.name # "" /\ y.name # "" THEN x.means = y.means
                            ELSE /\ x.name = "" /\ y.name = "" /\ x.kind = y.kind
                                 /\ \A i \in DOMAIN x.parts : g[<<x.parts[i], y.parts[i]>>]
           H == [p \in D |-> [g \in [Below[p] -> BOOLEAN] |-> Body(p, g)]]
<1>1. Tree(D, Below)
  BY TypesAreTrees, PairsAreWellFounded
<1>3. Yields(D, Below, BOOLEAN, H)
  <2>1. \A x \in D : \A g \in [Below[x] -> BOOLEAN] : H[x][g] = Body(x, g)
    OBVIOUS
  <2>2. \A x, g : Body(x, g) \in BOOLEAN
    OBVIOUS
  <2> HIDE DEF H, Body, Below, D
  <2> QED BY <2>1, <2>2 DEF Yields
<1>4. PICK f \in [D -> BOOLEAN] : \A x \in D : f[x] = H[x][[y \in Below[x] |-> f[y]]]
  <2> HIDE DEF H, Below, D
  <2> QED BY <1>1, <1>3, RecursionOverData
<1>5. ASSUME NEW p \in D PROVE f[p] = Body(p, f)
  <2> DEFINE g == [y \in Below[p] |-> f[y]]
  <2>1. g \in [Below[p] -> BOOLEAN]
    <3>1. Below[p] \subseteq D
      BY <1>1 DEF Tree
    <3> HIDE DEF Below, D
    <3> QED BY <1>4, <3>1
  <2>2. f[p] = Body(p, g)
    <3>1. H[p][g] = Body(p, g)
      <4> HIDE DEF Body, g
      <4> QED BY <2>1
    <3> QED BY <1>4, <3>1
  <2>3. ASSUME p[1].name = "", p[2].name = "", p[1].kind = p[2].kind, NEW i \in DOMAIN p[1].parts
        PROVE  g[<<p[1].parts[i], p[2].parts[i]>>] = f[<<p[1].parts[i], p[2].parts[i]>>]
    <3>1. p[1].parts[i] \in TypeParts(p[1]) /\ p[1].parts[i] \in Types
      BY <2>3, TypeFacts
    <3>2. DOMAIN p[1].parts = DOMAIN p[2].parts
      <4>1. p[1] \in Types /\ p[2] \in Types
        OBVIOUS
      <4> QED BY <2>3, <4>1, TypeFacts
    <3>3. p[2].parts[i] \in Types
      BY <2>3, <3>2, TypeFacts
    <3>4. <<p[1].parts[i], p[2].parts[i]>> \in Below[p]
      BY <3>1, <3>3 DEF TypeTree, ByFirst
    <3> HIDE DEF Below
    <3> QED BY <3>4
  <2> HIDE DEF g
  <2> QED BY <2>2, <2>3
<1>6. f = [pair \in D |-> Body(pair, f)]
  <2> HIDE DEF Body, D
  <2> QED BY <1>5
<1>7. SameWire = [pair \in D |-> Body(pair, SameWire)]
  <2>1. \E g : g = [pair \in D |-> Body(pair, g)]
    <3> HIDE DEF Body, D
    <3> QED BY <1>6
  <2> QED BY <2>1, Zenon DEF SameWire
<1> QED BY <1>7
\* ... and Leaves.
LEMMA LeavesIs ==
  ASSUME NEW t \in Types
  PROVE  Leaves[t] = IF t.name # "" THEN {t} ELSE UNION {Leaves[t.parts[i]] : i \in DOMAIN t.parts}
<1> DEFINE Body(x, g) == IF x.name # "" THEN {x} ELSE UNION {g[x.parts[i]] : i \in DOMAIN x.parts}
           H == [x \in Types |-> [g \in [TypeTree[x] -> SUBSET Types] |-> Body(x, g)]]
<1>1. TypeTree \in [Types -> SUBSET Types]
  BY TypesAreTrees DEF Tree
<1>2. \A x \in Types : x.name = "" => \A i \in DOMAIN x.parts : x.parts[i] \in TypeTree[x]
  BY TypeFacts DEF TypeTree
<1>3. Yields(Types, TypeTree, SUBSET Types, H)
  <2> SUFFICES ASSUME NEW x \in Types, NEW g \in [TypeTree[x] -> SUBSET Types]
               PROVE  H[x][g] \in SUBSET Types
    BY DEF Yields
  <2>1. H[x][g] = Body(x, g)
    OBVIOUS
  <2>2. Body(x, g) \in SUBSET Types
    BY <1>2
  <2> HIDE DEF H, Body
  <2> QED BY <2>1, <2>2
<1>4. PICK f \in [Types -> SUBSET Types] : \A x \in Types : f[x] = H[x][[y \in TypeTree[x] |-> f[y]]]
  <2> HIDE DEF H
  <2> QED BY TypesAreTrees, <1>3, RecursionOverData
<1>5. ASSUME NEW x \in Types PROVE f[x] = Body(x, f)
  <2> DEFINE g == [y \in TypeTree[x] |-> f[y]]
  <2>1. g \in [TypeTree[x] -> SUBSET Types]
    BY <1>1, <1>4
  <2>2. f[x] = Body(x, g)
    <3>1. H[x][g] = Body(x, g)
      <4> HIDE DEF Body, g
      <4> QED BY <2>1
    <3> QED BY <1>4, <3>1
  <2>3. x.name = "" => {g[x.parts[i]] : i \in DOMAIN x.parts} = {f[x.parts[i]] : i \in DOMAIN x.parts}
    BY <1>2
  <2> HIDE DEF g
  <2> QED BY <2>2, <2>3
<1>6. f = [x \in Types |-> Body(x, f)]
  <2> HIDE DEF Body
  <2> QED BY <1>5
<1>7. Leaves = [x \in Types |-> Body(x, Leaves)]
  BY ZenonT(40), <1>6 DEF Leaves
<1> QED BY <1>7

\* A type is the same as itself.
LEMMA TypeIsItself ==
  ASSUME NEW t \in Types
  PROVE  compare_type[<<t, t>>]
<1> DEFINE S == {x \in Types : ~ compare_type[<<x, x>>]}
<1>1. SUFFICES ASSUME S # {} PROVE FALSE
  OBVIOUS
<1>2. PICK x \in S : TypeParts(x) \cap S = {}
  <2>1. S \in SUBSET Types
    OBVIOUS
  <2> HIDE DEF S
  <2> QED BY <1>1, <2>1, TypesAssumption
<1>3. x \in Types /\ ~ compare_type[<<x, x>>]
  BY <1>2
<1>4. x.name = "" => \A i \in DOMAIN x.parts : compare_type[<<x.parts[i], x.parts[i]>>]
  BY <1>2, <1>3, TypeFacts
<1> QED BY <1>3, <1>4, CompareTypeIs

\* Types that compare are the same on the wire, if the names in them stand for the
\* same types.
LEMMA ComparedIsSameOnWire ==
  ASSUME NEW n \in Types, NEW o \in Types, compare_type[<<n, o>>],
         \A a \in Leaves[n], b \in Leaves[o] : a.name = b.name => a.means = b.means
  PROVE  SameWire[<<n, o>>]
<1> DEFINE Alike(x, y) == /\ compare_type[<<x, y>>]
                          /\ \A a \in Leaves[x], b \in Leaves[y] : a.name = b.name => a.means = b.means
           S == {x \in Types : \E y \in Types : Alike(x, y) /\ ~ SameWire[<<x, y>>]}
<1>1. SUFFICES ASSUME S # {} PROVE FALSE
  OBVIOUS
<1>2. PICK x \in S : TypeParts(x) \cap S = {}
  <2>1. S \in SUBSET Types
    OBVIOUS
  <2> HIDE DEF S
  <2> QED BY <1>1, <2>1, TypesAssumption
<1>3. PICK y \in Types : x \in Types /\ Alike(x, y) /\ ~ SameWire[<<x, y>>]
  BY <1>2
<1>4. CASE x.name = "" /\ y.name = ""
  <2>1. x.kind = y.kind /\ \A i \in DOMAIN x.parts : compare_type[<<x.parts[i], y.parts[i]>>]
    BY <1>3, <1>4, CompareTypeIs
  <2>2. DOMAIN x.parts = DOMAIN y.parts
    BY <1>3, <1>4, <2>1, TypeFacts
  <2>3. ASSUME NEW i \in DOMAIN x.parts PROVE SameWire[<<x.parts[i], y.parts[i]>>]
    <3>1. x.parts[i] \in Types /\ y.parts[i] \in Types /\ x.parts[i] \in TypeParts(x)
      BY <1>3, <1>4, <2>2, <2>3, TypeFacts
    <3>2. Leaves[x.parts[i]] \subseteq Leaves[x] /\ Leaves[y.parts[i]] \subseteq Leaves[y]
      <4>1. Leaves[x] = UNION {Leaves[x.parts[j]] : j \in DOMAIN x.parts}
        BY <1>3, <1>4, LeavesIs
      <4>2. Leaves[y] = UNION {Leaves[y.parts[j]] : j \in DOMAIN y.parts}
        BY <1>3, <1>4, LeavesIs
      <4> QED BY <2>2, <2>3, <4>1, <4>2
    <3>3. Alike(x.parts[i], y.parts[i])
      BY <1>3, <2>1, <2>3, <3>2
    <3>4. x.parts[i] \notin S
      <4> HIDE DEF S
      <4> QED BY <1>2, <3>1
    <3> HIDE DEF Alike
    <3> QED BY <3>1, <3>3, <3>4
  <2> QED BY <1>3, <1>4, <2>1, <2>3, SameWireIs
<1>5. CASE ~ (x.name = "" /\ y.name = "")
  <2>1. x.name = y.name
    BY <1>3, <1>5, CompareTypeIs
  <2>2. Leaves[x] = {x} /\ Leaves[y] = {y}
    BY <1>3, <1>5, <2>1, LeavesIs
  <2>3. x.means = y.means
    BY <1>3, <2>1, <2>2
  <2> QED BY <1>3, <1>5, <2>1, <2>3, SameWireIs
<1> QED BY <1>4, <1>5

\* The parts of a value.
LEMMA ValueFacts ==
  ASSUME NEW v \in Values
  PROVE  /\ ValueParts(v) \subseteq Values
         /\ v.cv = "list" =>
              /\ DOMAIN v.v = 1..Len(v.v) /\ Len(v.v) \in Nat
              /\ \A i \in DOMAIN v.v : v.v[i] \in Values /\ v.v[i] \in ValueParts(v)
         /\ v.cv = "map" =>
              /\ DOMAIN v.v = 1..Len(v.v) /\ Len(v.v) \in Nat
              /\ \A i \in DOMAIN v.v : /\ v.v[i][1] \in Values /\ v.v[i][1] \in ValueParts(v)
                                       /\ v.v[i][2] \in Values /\ v.v[i][2] \in ValueParts(v)
<1>1. IsValue(v)
  BY ValuesAssumption
<1>2. CASE v.cv = "list"
  <2>1. v.v \in Seq(Values) /\ ValueParts(v) = Range(v.v)
    BY <1>1, <1>2 DEF IsValue, ValueParts
  <2>2. DOMAIN v.v = 1..Len(v.v) /\ Len(v.v) \in Nat /\ \A i \in DOMAIN v.v : v.v[i] \in Values
    BY <2>1, LenProperties, ElementOfSeq
  <2> QED BY <1>2, <2>1, <2>2 DEF Range
<1>3. CASE v.cv = "map"
  <2>1. v.v \in Seq(Values \X Values) /\ ValueParts(v) = UNION {{e[1], e[2]} : e \in Range(v.v)}
    BY <1>1, <1>3 DEF IsValue, ValueParts
  <2>2. DOMAIN v.v = 1..Len(v.v) /\ Len(v.v) \in Nat /\ \A i \in DOMAIN v.v : v.v[i] \in Values \X Values
    BY <2>1, LenProperties, ElementOfSeq
  <2>3. \A i \in DOMAIN v.v : v.v[i] \in Range(v.v)
    BY DEF Range
  <2>4. \A e \in Range(v.v) : e \in Values \X Values
    BY <2>2 DEF Range
  <2> QED BY <1>3, <2>1, <2>2, <2>3, <2>4
<1>4. CASE v.cv # "list" /\ v.cv # "map"
  BY <1>4 DEF ValueParts
<1> QED BY <1>2, <1>3, <1>4

DefaultTree == [v \in Defaults |-> IF v \in Values THEN ValueParts(v) ELSE {}]
LEMMA DefaultsAreTrees == Tree(Defaults, DefaultTree)
<1>1. DefaultTree \in [Defaults -> SUBSET Defaults]
  BY ValueFacts DEF DefaultTree, Defaults
<1>2. ASSUME NEW S \in SUBSET Defaults, S # {} PROVE \E x \in S : DefaultTree[x] \cap S = {}
  <2>1. CASE S \cap Values = {}
    BY <1>2, <2>1 DEF DefaultTree
  <2>2. CASE S \cap Values # {}
    <3>1. PICK x \in S \cap Values : ValueParts(x) \cap (S \cap Values) = {}
      BY <2>2, ValuesAssumption
    <3>2. ValueParts(x) \subseteq Values
      BY <3>1, ValueFacts
    <3> QED BY <1>2, <3>1, <3>2 DEF DefaultTree
  <2> QED BY <2>1, <2>2
<1> QED BY <1>1, <1>2 DEF Tree

LEMMA EveryType == ASSUME NEW outcomes PROVE Every(outcomes) \in SUBSET BOOLEAN
BY DEF Every

\* compare_defaults is what its equation says.
LEMMA CompareDefaultsIs ==
  ASSUME NEW n \in Defaults, NEW o \in Defaults
  PROVE  LET Both(x, y) == compare_defaults[<<x, y>>]
         IN compare_defaults[<<n, o>>] =
              IF n = NULL \/ o = NULL THEN {n = o}
              ELSE IF n.cv # o.cv THEN {FALSE}
              ELSE IF n.cv \notin {"list", "map"} THEN {n.v = o.v}
              ELSE IF Len(n.v) # Len(o.v) THEN {FALSE}
              ELSE IF n.cv = "list" THEN Every([i \in DOMAIN n.v |-> Both(n.v[i], o.v[i])])
              ELSE UNION {Every([i \in DOMAIN n.v |->
                            Every(<<Both(n.v[i][1], o.v[p[i]][1]), Both(n.v[i][2], o.v[p[i]][2])>>)])
                          : p \in Bijection(DOMAIN n.v, DOMAIN o.v)}
<1> DEFINE D == Defaults \X Defaults
           Below == ByFirst(Defaults, Defaults, DefaultTree)
           Lists(x, y, g) == Every([i \in DOMAIN x.v |-> g[<<x.v[i], y.v[i]>>]])
           Maps(x, y, g) == UNION {Every([i \in DOMAIN x.v |->
                              Every(<<g[<<x.v[i][1], y.v[p[i]][1]>>], g[<<x.v[i][2], y.v[p[i]][2]>>]>>)])
                            : p \in Bijection(DOMAIN x.v, DOMAIN y.v)}
           Body(pair, g) ==
             LET x == pair[1]
                 y == pair[2]
             IN IF x = NULL \/ y = NULL THEN {x = y}
                ELSE IF x.cv # y.cv THEN {FALSE}
                ELSE IF x.cv \notin {"list", "map"} THEN {x.v = y.v}
                ELSE IF Len(x.v) # Len(y.v) THEN {FALSE}
                ELSE IF x.cv = "list" THEN Lists(x, y, g) ELSE Maps(x, y, g)
           H == [p \in D |-> [g \in [Below[p] -> SUBSET BOOLEAN] |-> Body(p, g)]]
<1>1. Tree(D, Below)
  BY DefaultsAreTrees, PairsAreWellFounded
<1>3. Yields(D, Below, SUBSET BOOLEAN, H)
  <2>1. \A x \in D : \A g \in [Below[x] -> SUBSET BOOLEAN] : H[x][g] = Body(x, g)
    <3> HIDE DEF Body, D, Below
    <3> QED OBVIOUS
  <2>2. \A x, y, g : Lists(x, y, g) \in SUBSET BOOLEAN
    BY EveryType
  <2>3. \A x, y, g : Maps(x, y, g) \in SUBSET BOOLEAN
    BY EveryType
  <2>4. \A x, g : Body(x, g) \in SUBSET BOOLEAN
    <3> HIDE DEF Lists, Maps
    <3> QED BY <2>2, <2>3
  <2> HIDE DEF H, Body, Below, D
  <2> QED BY <2>1, <2>4 DEF Yields
<1>4. PICK f \in [D -> SUBSET BOOLEAN] : \A x \in D : f[x] = H[x][[y \in Below[x] |-> f[y]]]
  <2> HIDE DEF H, Below, D
  <2> QED BY <1>1, <1>3, RecursionOverData
<1>5. ASSUME NEW p \in D PROVE f[p] = Body(p, f)
  <2> DEFINE g == [y \in Below[p] |-> f[y]]
             x == p[1]
             y == p[2]
  <2>1. g \in [Below[p] -> SUBSET BOOLEAN]
    <3>1. Below[p] \subseteq D
      BY SMTT(40), <1>1 DEF Tree
    <3> HIDE DEF Below, D
    <3> QED BY <1>4, <3>1
  <2>2. f[p] = Body(p, g)
    <3>1. H[p][g] = Body(p, g)
      <4> HIDE DEF Body, g
      <4> QED BY <2>1
    <3> QED BY Zenon, <1>4, <3>1
  <2>3. ASSUME x \in Values, NEW a \in ValueParts(x), NEW b \in Values
        PROVE  g[<<a, b>>] = f[<<a, b>>]
    <3>1. <<a, b>> \in Below[p]
      BY <2>3, ValueFacts DEF DefaultTree, ByFirst, Defaults
    <3> HIDE DEF Below
    <3> QED BY <3>1
  <2>4. SUFFICES ASSUME x # NULL, y # NULL, x.cv = y.cv, Len(x.v) = Len(y.v)
                 PROVE  /\ x.cv = "list" => Lists(x, y, g) = Lists(x, y, f)
                        /\ x.cv = "map" => Maps(x, y, g) = Maps(x, y, f)
    <3> HIDE DEF Lists, Maps, g
    <3> QED BY <2>2
  <2>5. x \in Values /\ y \in Values
    BY <2>4 DEF Defaults
  <2> HIDE DEF g, x, y
  <2>6. ASSUME x.cv = "list" PROVE Lists(x, y, g) = Lists(x, y, f)
    <3>1. \A i \in DOMAIN x.v : x.v[i] \in ValueParts(x) /\ y.v[i] \in Values
      BY <2>4, <2>5, <2>6, ValueFacts
    <3>2. \A i \in DOMAIN x.v : g[<<x.v[i], y.v[i]>>] = f[<<x.v[i], y.v[i]>>]
      BY <2>3, <2>5, <3>1
    <3>3. [i \in DOMAIN x.v |-> g[<<x.v[i], y.v[i]>>]] = [i \in DOMAIN x.v |-> f[<<x.v[i], y.v[i]>>]]
      BY <3>2
    <3> QED BY <3>3
  <2>7. ASSUME x.cv = "map" PROVE Maps(x, y, g) = Maps(x, y, f)
    <3>1. \A i \in DOMAIN x.v : x.v[i][1] \in ValueParts(x) /\ x.v[i][2] \in ValueParts(x)
      BY <2>5, <2>7, ValueFacts
    <3>2. \A j \in DOMAIN y.v : y.v[j][1] \in Values /\ y.v[j][2] \in Values
      BY <2>4, <2>5, <2>7, ValueFacts
    <3>3. ASSUME NEW q \in Bijection(DOMAIN x.v, DOMAIN y.v)
          PROVE  [i \in DOMAIN x.v |->
                    Every(<<g[<<x.v[i][1], y.v[q[i]][1]>>], g[<<x.v[i][2], y.v[q[i]][2]>>]>>)]
                   = [i \in DOMAIN x.v |->
                        Every(<<f[<<x.v[i][1], y.v[q[i]][1]>>], f[<<x.v[i][2], y.v[q[i]][2]>>]>>)]
      <4>1. \A i \in DOMAIN x.v : q[i] \in DOMAIN y.v
        BY DEF Bijection, Injection
      <4>2. ASSUME NEW i \in DOMAIN x.v
            PROVE  /\ g[<<x.v[i][1], y.v[q[i]][1]>>] = f[<<x.v[i][1], y.v[q[i]][1]>>]
                   /\ g[<<x.v[i][2], y.v[q[i]][2]>>] = f[<<x.v[i][2], y.v[q[i]][2]>>]
        <5>1. x.v[i][1] \in ValueParts(x) /\ x.v[i][2] \in ValueParts(x)
          BY <3>1
        <5>2. q[i] \in DOMAIN y.v
          BY <4>1
        <5>3. y.v[q[i]][1] \in Values /\ y.v[q[i]][2] \in Values
          BY <3>2, <5>2
        <5> QED BY <2>3, <2>5, <5>1, <5>3
      <4> QED BY <4>2
    <3> DEFINE Of(g1, q) == Every([i \in DOMAIN x.v |->
                 Every(<<g1[<<x.v[i][1], y.v[q[i]][1]>>], g1[<<x.v[i][2], y.v[q[i]][2]>>]>>)])
    <3>4. \A q \in Bijection(DOMAIN x.v, DOMAIN y.v) : Of(g, q) = Of(f, q)
      BY <3>3
    <3>5. /\ Maps(x, y, g) = UNION {Of(g, q) : q \in Bijection(DOMAIN x.v, DOMAIN y.v)}
          /\ Maps(x, y, f) = UNION {Of(f, q) : q \in Bijection(DOMAIN x.v, DOMAIN y.v)}
      OBVIOUS
    <3> HIDE DEF Of, Maps
    <3> QED BY <3>4, <3>5
  <2> QED BY <2>6, <2>7
<1>6. f = [pair \in D |-> Body(pair, f)]
  <2> HIDE DEF Body, D
  <2> QED BY <1>5
<1>7. compare_defaults = [pair \in D |-> Body(pair, compare_defaults)]
  <2>1. \E g : g = [pair \in D |-> Body(pair, g)]
    <3> HIDE DEF Body, D
    <3> QED BY <1>6
  <2> QED BY <2>1, Zenon DEF compare_defaults
<1>8. compare_defaults[<<n, o>>] = Body(<<n, o>>, compare_defaults)
  <2> HIDE DEF Body
  <2> QED BY <1>7
<1> QED BY <1>8

\* ... and Unordered.
ValueTree == [v \in Values |-> ValueParts(v)]
LEMMA UnorderedIs ==
  ASSUME NEW v \in Values
  PROVE  Unordered[v] <=> (v.cv = "map" /\ Len(v.v) >= 2) \/ \E w \in ValueParts(v) : Unordered[w]
<1> DEFINE Body(x, g) == (x.cv = "map" /\ Len(x.v) >= 2) \/ \E w \in ValueParts(x) : g[w]
           H == [x \in Values |-> [g \in [ValueTree[x] -> BOOLEAN] |-> Body(x, g)]]
<1>1. Tree(Values, ValueTree)
  <2>1. ValueTree \in [Values -> SUBSET Values]
    BY ValueFacts DEF ValueTree
  <2>2. ASSUME NEW S \in SUBSET Values, S # {} PROVE \E x \in S : ValueTree[x] \cap S = {}
    BY <2>2, ValuesAssumption DEF ValueTree
  <2> QED BY <2>1, <2>2 DEF Tree
<1>2. Yields(Values, ValueTree, BOOLEAN, H)
  <2>1. \A x \in Values : \A g \in [ValueTree[x] -> BOOLEAN] : H[x][g] = Body(x, g)
    <3> HIDE DEF Body
    <3> QED OBVIOUS
  <2>2. \A x, g : Body(x, g) \in BOOLEAN
    OBVIOUS
  <2> HIDE DEF H, Body
  <2> QED BY <2>1, <2>2 DEF Yields
<1>3. PICK f \in [Values -> BOOLEAN] : \A x \in Values : f[x] = H[x][[y \in ValueTree[x] |-> f[y]]]
  <2> HIDE DEF H
  <2> QED BY <1>1, <1>2, RecursionOverData
<1>4. ASSUME NEW x \in Values PROVE f[x] = Body(x, f)
  <2> DEFINE g == [y \in ValueTree[x] |-> f[y]]
  <2>1. g \in [ValueTree[x] -> BOOLEAN]
    BY <1>1, <1>3 DEF Tree
  <2>2. f[x] = Body(x, g)
    <3>1. H[x][g] = Body(x, g)
      <4> HIDE DEF Body, g
      <4> QED BY <2>1
    <3> QED BY <1>3, <3>1
  <2>3. \A w \in ValueParts(x) : g[w] = f[w]
    BY DEF ValueTree
  <2> HIDE DEF g
  <2> QED BY <2>2, <2>3
<1>5. f = [x \in Values |-> Body(x, f)]
  <2> HIDE DEF Body
  <2> QED BY <1>4
<1>6. Unordered = [x \in Values |-> Body(x, Unordered)]
  <2>1. \E g : g = [x \in Values |-> Body(x, g)]
    <3> HIDE DEF Body
    <3> QED BY <1>5
  <2> QED BY <2>1, Zenon DEF Unordered
<1> QED BY <1>6

\* What has but one outcome in all its parts has one outcome.
LEMMA EveryTrue ==
  ASSUME NEW outcomes, \A i \in DOMAIN outcomes : outcomes[i] = {TRUE}
  PROVE  Every(outcomes) = {TRUE}
<1>1. TRUE \in Every(outcomes)
  BY Zenon DEF Every
<1>2. FALSE \notin Every(outcomes)
  BY Zenon DEF Every
<1>3. Every(outcomes) \subseteq BOOLEAN
  BY DEF Every
<1> QED BY <1>1, <1>2, <1>3

LEMMA BothTrue ==
  ASSUME NEW x, x = {TRUE}
  PROVE  Every(<<x, x>>) = {TRUE}
<1> DEFINE s == <<x, x>>
<1>1. DOMAIN s = {1, 2} /\ s[1] = x /\ s[2] = x
  OBVIOUS
<1>2. \A i \in DOMAIN s : s[i] = {TRUE}
  <2> HIDE DEF s
  <2> QED BY <1>1
<1> HIDE DEF s
<1>3. Every(s) = {TRUE}
  BY Zenon, <1>2, EveryTrue
<1> QED BY <1>3 DEF s

\* A value without maps of several entries is the same as itself.
LEMMA ValueIsItself ==
  ASSUME NEW v \in Values, ~ Unordered[v]
  PROVE  compare_defaults[<<v, v>>] = {TRUE}
<1> DEFINE S == {x \in Values : ~ Unordered[x] /\ compare_defaults[<<x, x>>] # {TRUE}}
<1>1. SUFFICES ASSUME S # {} PROVE FALSE
  OBVIOUS
<1>2. PICK x \in S : ValueParts(x) \cap S = {}
  <2>1. S \in SUBSET Values
    OBVIOUS
  <2> HIDE DEF S
  <2> QED BY <1>1, <2>1, ValuesAssumption
<1>3. x \in Values /\ ~ Unordered[x] /\ compare_defaults[<<x, x>>] # {TRUE}
  BY <1>2
<1>4. \A w \in ValueParts(x) : compare_defaults[<<w, w>>] = {TRUE}
  <2>1. \A w \in ValueParts(x) : w \in Values /\ ~ Unordered[w]
    BY <1>3, UnorderedIs, ValueFacts
  <2> QED BY <1>2, <2>1
<1> DEFINE Both(y, z) == compare_defaults[<<y, z>>]
           Pairs_(p) == [i \in DOMAIN x.v |->
              Every(<<Both(x.v[i][1], x.v[p[i]][1]), Both(x.v[i][2], x.v[p[i]][2])>>)]
<1>5. compare_defaults[<<x, x>>] =
        IF x = NULL THEN {TRUE}
        ELSE IF x.cv \notin {"list", "map"} THEN {TRUE}
        ELSE IF x.cv = "list" THEN Every([i \in DOMAIN x.v |-> Both(x.v[i], x.v[i])])
        ELSE UNION {Every(Pairs_(p)) : p \in Bijection(DOMAIN x.v, DOMAIN x.v)}
  <2>1. x \in Defaults
    BY <1>3 DEF Defaults
  <2> QED BY <2>1, CompareDefaultsIs
<1>6. CASE x.cv = "list"
  <2>1. \A i \in DOMAIN x.v : x.v[i] \in ValueParts(x)
    BY <1>3, <1>6, ValueFacts
  <2>2. \A i \in DOMAIN x.v : Both(x.v[i], x.v[i]) = {TRUE}
    BY <1>4, <2>1
  <2> DEFINE outcomes == [i \in DOMAIN x.v |-> Both(x.v[i], x.v[i])]
  <2>3. \A i \in DOMAIN outcomes : outcomes[i] = {TRUE}
    BY <2>2
  <2>4. Every(outcomes) = {TRUE}
    <3> HIDE DEF outcomes
    <3> QED BY <2>3, EveryTrue
  <2> QED BY <1>3, <1>5, <1>6, <2>4
<1>7. CASE x.cv = "map"
  <2>1. /\ DOMAIN x.v = 1..Len(x.v) /\ Len(x.v) \in Nat
        /\ \A i \in DOMAIN x.v : x.v[i][1] \in ValueParts(x) /\ x.v[i][2] \in ValueParts(x)
    BY <1>3, <1>7, ValueFacts
  <2>2. Len(x.v) < 2
    BY <1>3, <1>7, <2>1, UnorderedIs
  <2>3. \A i, j \in DOMAIN x.v : i = j
    BY <2>1, <2>2
  <2>4. ASSUME NEW p \in Bijection(DOMAIN x.v, DOMAIN x.v)
        PROVE  Every(Pairs_(p)) = {TRUE}
    <3>1. \A i \in DOMAIN x.v : p[i] = i
      BY <2>3 DEF Bijection, Injection
    <3>2. ASSUME NEW i \in DOMAIN x.v PROVE Pairs_(p)[i] = {TRUE}
      <4>1. Both(x.v[i][1], x.v[p[i]][1]) = {TRUE} /\ Both(x.v[i][2], x.v[p[i]][2]) = {TRUE}
        BY <1>4, <2>1, <3>1
      <4> HIDE DEF Both
      <4> QED BY <4>1, BothTrue
    <3>3. DOMAIN Pairs_(p) = DOMAIN x.v
      OBVIOUS
    <3> HIDE DEF Pairs_
    <3> QED BY <3>2, <3>3, EveryTrue
  <2>5. Bijection(DOMAIN x.v, DOMAIN x.v) # {}
    <3>1. [i \in DOMAIN x.v |-> i] \in Bijection(DOMAIN x.v, DOMAIN x.v)
      BY DEF Bijection, Injection, Surjection, IsInjective
    <3> QED BY <3>1
  <2>6. UNION {Every(Pairs_(p)) : p \in Bijection(DOMAIN x.v, DOMAIN x.v)} = {TRUE}
    <3> HIDE DEF Pairs_
    <3> QED BY <2>4, <2>5
  <2> QED BY <1>3, <1>5, <1>7, <2>6
<1>8. CASE x.cv \notin {"list", "map"}
  BY <1>3, <1>5, <1>8
<1> QED BY <1>6, <1>7, <1>8

(****************************************************************************)
(* A passing audit.  As long as nothing has failed, each old definition is   *)
(* still to be compared or agrees with a new one; t is what is to be done.   *)
(****************************************************************************)
MembersAgree(news, olds) ==
  \A w \in MergeFailures : \A x \in Keys(news) \cup Keys(olds) : ~ May(news, olds, w, x)
MembersSettled(t, news, olds) ==
  \/ \E k \in DOMAIN t : t[k].kind = "members" /\ t[k].news = news /\ t[k].olds = olds
  \/ MembersAgree(news, olds)

\* The comparison of old with the definitions among which it is looked for.
Awaits(t, kind, news, o) == \E k \in DOMAIN t : t[k].kind = kind /\ t[k].news = news /\ t[k].old = o
StructSettled(t, news, o) == \E n \in Range(news) : n.name = o.name /\ MembersSettled(t, n.members, o.members)
FunctionSettled(t, news, o) ==
  \E n \in Range(news) : /\ n.name = o.name
                         /\ MembersSettled(t, n.args, o.args) /\ MembersSettled(t, n.throws, o.throws)
StructsSettled(t, news, olds) ==
  \A o \in Range(olds) : Awaits(t, "struct", news, o) \/ StructSettled(t, news, o)
FunctionsSettled(t, news, olds) ==
  \A o \in Range(olds) : Awaits(t, "function", news, o) \/ FunctionSettled(t, news, o)
ServiceSettled(t, news, o) ==
  \E n \in Range(news) : n.name = o.name /\ FunctionsSettled(t, n.functions, o.functions)
ServicesSettled(t, news, olds) ==
  \A o \in Range(olds) : Awaits(t, "service", news, o) \/ ServiceSettled(t, news, o)

NoneFailed(t) ==
  \A k \in DOMAIN t : t[k].kind = "members" => \A w \in MergeFailures : t[k].said[w] = {}
PassInv ==
  ~ g_return_failure =>
    /\ NoneFailed(todo)
    /\ ServicesSettled(todo, new.services, old.services)
    /\ StructsSettled(todo, new.structs, old.structs)
    /\ StructsSettled(todo, new.xceptions, old.xceptions)

(****************************************************************************)
(* The audit of a file against itself compares each definition with itself.  *)
(****************************************************************************)
AmongItsOwn(q) ==
  CASE q.kind = "namespaces" -> q.news = q.old
    [] q.kind = "members" -> q.news \in MembersIn(new) /\ q.olds = q.news /\ q.j = q.i
    [] q.kind = "service" -> q.news = new.services /\ q.old \in Range(q.news)
    [] q.kind = "function" -> q.old \in Range(q.news) /\ \E s \in Range(new.services) : q.news = s.functions
    [] q.kind = "enum" -> q.news = new.enums /\ q.old \in Range(q.news)
    [] q.kind = "struct" -> q.news \in {new.structs, new.xceptions} /\ q.old \in Range(q.news)
    [] q.kind = "const" -> q.news = new.consts /\ q.old \in Range(q.news)
SilentInv == SelfAuditIsSilent /\ (new = old => \A k \in DOMAIN todo : AmongItsOwn(todo[k]))

\* A comparison makes way for those it asks for; the others stay.
MakesWay(t, items, u) ==
  /\ \A k \in DOMAIN t : t[k] = Head(t) \/ \E l \in DOMAIN u : u[l] = t[k]
  /\ \A l \in DOMAIN u : (\E k \in DOMAIN items : u[l] = items[k]) \/ \E k \in DOMAIN t : u[l] = t[k]
  /\ \A k \in DOMAIN items : \E l \in DOMAIN u : u[l] = items[k]
LEMMA ThenTodo ==
  ASSUME NEW S, NEW t \in Seq(S), t # <<>>, NEW items \in Seq(S)
  PROVE  MakesWay(t, items, items \o Tail(t))
<1> DEFINE u == items \o Tail(t)
<1>1. Len(t) \in Nat /\ Len(t) > 0 /\ DOMAIN t = 1..Len(t) /\ Len(items) \in Nat /\ DOMAIN items = 1..Len(items)
  BY EmptySeq, LenProperties
<1>2. /\ Tail(t) \in Seq(S) /\ Len(Tail(t)) = Len(t) - 1 /\ Head(t) = t[1]
      /\ \A k \in 1..Len(t) - 1 : Tail(t)[k] = t[k + 1]
  BY <1>1, HeadTailProperties
<1>3. /\ Len(u) = Len(items) + Len(t) - 1 /\ DOMAIN u = 1..Len(u)
      /\ \A k \in 1..Len(items) : u[k] = items[k]
      /\ \A k \in Len(items) + 1..Len(u) : u[k] = Tail(t)[k - Len(items)]
  <2>1. u \in Seq(S) /\ Len(u) = Len(items) + Len(Tail(t))
    BY <1>2, ConcatProperties
  <2>2. \A k \in 1..Len(items) + Len(Tail(t)) : u[k] = IF k <= Len(items) THEN items[k] ELSE Tail(t)[k - Len(items)]
    BY <1>2, ConcatProperties
  <2> HIDE DEF u
  <2> QED BY <1>1, <1>2, <2>1, <2>2, LenProperties
<1> HIDE DEF u
<1>4. ASSUME NEW k \in DOMAIN t, k # 1 PROVE Len(items) + k - 1 \in DOMAIN u /\ u[Len(items) + k - 1] = t[k]
  <2>1. Len(items) + k - 1 \in Len(items) + 1..Len(u) /\ k - 1 \in 1..Len(t) - 1
    BY <1>1, <1>3, <1>4
  <2>2. u[Len(items) + k - 1] = Tail(t)[k - 1]
    BY SMTT(40), <1>1, <1>3, <2>1
  <2> QED BY SMTT(40), <1>1, <1>2, <1>3, <2>1, <2>2
<1>5. \A k \in DOMAIN items : k \in DOMAIN u /\ u[k] = items[k]
  BY <1>1, <1>3
<1>6. ASSUME NEW l \in DOMAIN u, l \notin DOMAIN items PROVE \E k \in DOMAIN t : u[l] = t[k]
  <2>1. l \in Len(items) + 1..Len(u) /\ l - Len(items) \in 1..Len(t) - 1
    BY <1>1, <1>3, <1>6
  <2>2. u[l] = t[l - Len(items) + 1] /\ l - Len(items) + 1 \in DOMAIN t
    BY <1>1, <1>2, <1>3, <2>1
  <2> QED BY <2>2
<1> QED BY <1>2, <1>4, <1>5, <1>6 DEF MakesWay, u

\* The comparison m of t has been handled in u.
Handled(t, u, m) ==
  /\ \A k \in DOMAIN t : t[k] = m \/ \E l \in DOMAIN u : u[l] = t[k]
  /\ m.kind = "members" => MembersSettled(u, m.news, m.olds)
  /\ m.kind = "function" => FunctionSettled(u, m.news, m.old)
  /\ m.kind = "struct" => StructSettled(u, m.news, m.old)
  /\ m.kind = "service" => ServiceSettled(u, m.news, m.old)

\* What was settled stays so.
LEMMA MembersStaySettled ==
  ASSUME NEW t, NEW u, NEW m, Handled(t, u, m), NEW news, NEW olds, MembersSettled(t, news, olds)
  PROVE  MembersSettled(u, news, olds)
BY DEF Handled, MembersSettled

LEMMA AwaitedStays ==
  ASSUME NEW t, NEW u, NEW m, Handled(t, u, m), NEW kind, NEW news, NEW o, Awaits(t, kind, news, o)
  PROVE  Awaits(u, kind, news, o) \/ (m.kind = kind /\ m.news = news /\ m.old = o)
BY DEF Handled, Awaits

LEMMA StructsStaySettled ==
  ASSUME NEW t, NEW u, NEW m, Handled(t, u, m), NEW news, NEW olds, StructsSettled(t, news, olds)
  PROVE  StructsSettled(u, news, olds)
<1> SUFFICES ASSUME NEW o \in Range(olds) PROVE Awaits(u, "struct", news, o) \/ StructSettled(u, news, o)
  BY DEF StructsSettled
<1>1. Awaits(t, "struct", news, o) \/ StructSettled(t, news, o)
  BY DEF StructsSettled
<1>2. CASE Awaits(t, "struct", news, o)
  BY <1>2, AwaitedStays DEF Handled
<1>3. CASE StructSettled(t, news, o)
  BY <1>3, MembersStaySettled DEF StructSettled
<1> QED BY <1>1, <1>2, <1>3

LEMMA FunctionsStaySettled ==
  ASSUME NEW t, NEW u, NEW m, Handled(t, u, m), NEW news, NEW olds, FunctionsSettled(t, news, olds)
  PROVE  FunctionsSettled(u, news, olds)
<1> SUFFICES ASSUME NEW o \in Range(olds) PROVE Awaits(u, "function", news, o) \/ FunctionSettled(u, news, o)
  BY DEF FunctionsSettled
<1>1. Awaits(t, "function", news, o) \/ FunctionSettled(t, news, o)
  BY DEF FunctionsSettled
<1>2. CASE Awaits(t, "function", news, o)
  BY <1>2, AwaitedStays DEF Handled
<1>3. CASE FunctionSettled(t, news, o)
  BY <1>3, MembersStaySettled DEF FunctionSettled
<1> QED BY <1>1, <1>2, <1>3

LEMMA ServicesStaySettled ==
  ASSUME NEW t, NEW u, NEW m, Handled(t, u, m), NEW news, NEW olds, ServicesSettled(t, news, olds)
  PROVE  ServicesSettled(u, news, olds)
<1> SUFFICES ASSUME NEW o \in Range(olds) PROVE Awaits(u, "service", news, o) \/ ServiceSettled(u, news, o)
  BY DEF ServicesSettled
<1>1. Awaits(t, "service", news, o) \/ ServiceSettled(t, news, o)
  BY DEF ServicesSettled
<1>2. CASE Awaits(t, "service", news, o)
  BY <1>2, AwaitedStays DEF Handled
<1>3. CASE ServiceSettled(t, news, o)
  BY <1>3, FunctionsStaySettled DEF ServiceSettled
<1> QED BY <1>1, <1>2, <1>3

\* What is to be done after a step that asks for items.
LEMMA StepMakesWay ==
  ASSUME Inv, ~Done, NEW T, NEW items \in Seq(T), Then(items)
  PROVE  MakesWay(todo, items, todo')
<1>1. todo \in Seq(Items \cup T) /\ items \in Seq(Items \cup T) /\ todo # <<>>
  BY SeqMonotonic DEF Inv, Done
<1>2. MakesWay(todo, items, items \o Tail(todo))
  BY <1>1, ThenTodo
<1>3. todo' = items \o Tail(todo)
  BY DEF Then
<1> QED BY <1>2, <1>3

\* A step that handles its comparison keeps the invariant.
LEMMA HandledKeepsPass ==
  ASSUME Inv, PassInv, ~Done, UNCHANGED <<new, old>>, g_return_failure => g_return_failure',
         NEW T, NEW items \in Seq(T), Then(items),
         ~ g_return_failure' => Handled(todo, todo', Item) /\ NoneFailed(items)
  PROVE  PassInv'
<1> SUFFICES ASSUME ~ g_return_failure'
             PROVE  /\ NoneFailed(todo')
                    /\ ServicesSettled(todo', new.services, old.services)
                    /\ StructsSettled(todo', new.structs, old.structs)
                    /\ StructsSettled(todo', new.xceptions, old.xceptions)
  BY DEF PassInv
<1>1. /\ NoneFailed(todo)
      /\ ServicesSettled(todo, new.services, old.services)
      /\ StructsSettled(todo, new.structs, old.structs)
      /\ StructsSettled(todo, new.xceptions, old.xceptions)
  BY DEF PassInv
<1>2. Handled(todo, todo', Item) /\ NoneFailed(items)
  OBVIOUS
<1>3. NoneFailed(todo')
  BY <1>1, <1>2, StepMakesWay DEF NoneFailed, MakesWay
<1> QED BY <1>1, <1>2, <1>3, ServicesStaySettled, StructsStaySettled

\* A report of a failure fails.
LEMMA ReportFails ==
  ASSUME NEW messages, Report(messages)
  PROVE  /\ UNCHANGED <<new, old>> /\ (g_return_failure => g_return_failure')
         /\ ~ g_return_failure' => ~ g_return_failure /\ messages \cap Failures = {}
BY DEF Report

\* A step that asks for items has handled a comparison if they settle it.
LEMMA HandledByItems ==
  ASSUME Inv, PassInv, ~Done, NEW messages, Report(messages), NEW T, NEW items \in Seq(T), Then(items),
         (\A k \in DOMAIN items : \E l \in DOMAIN todo' : todo'[l] = items[k])
           /\ ~ g_return_failure /\ messages \cap Failures = {} =>
           /\ NoneFailed(items)
           /\ Item.kind = "members" => MembersSettled(todo', Item.news, Item.olds)
           /\ Item.kind = "function" => FunctionSettled(todo', Item.news, Item.old)
           /\ Item.kind = "struct" => StructSettled(todo', Item.news, Item.old)
           /\ Item.kind = "service" => ServiceSettled(todo', Item.news, Item.old)
  PROVE  PassInv'
<1>1. /\ \A k \in DOMAIN todo : todo[k] = Item \/ \E l \in DOMAIN todo' : todo'[l] = todo[k]
      /\ \A k \in DOMAIN items : \E l \in DOMAIN todo' : todo'[l] = items[k]
  BY StepMakesWay DEF MakesWay, Item
<1>2. ~ g_return_failure' => Handled(todo, todo', Item) /\ NoneFailed(items)
  BY <1>1, ReportFails DEF Handled
<1> QED BY <1>2, ReportFails, HandledKeepsPass

LEMMA MissingPass ==
  ASSUME Inv, PassInv, NEW kind \in {"service", "function", "enum", "struct", "const"}, Missing(kind)
  PROVE  PassInv'
<1>1. /\ ~Done /\ Item.kind = kind /\ Report({kind}) /\ Then(<<>>) /\ <<>> \in Seq({})
  BY DEF Missing, Doing
<1>2. kind \in {"service", "function", "struct"} => {kind} \cap Failures # {}
  BY DEF Failures
<1>3. NoneFailed(<<>>)
  BY DEF NoneFailed
<1> QED BY <1>1, <1>2, <1>3, HandledByItems

\* A comparison that concerns no struct, function or service.
LEMMA OtherPass ==
  ASSUME Inv, PassInv, ~Done, Item.kind \notin {"members", "function", "struct", "service"},
         NEW messages, Report(messages), Then(<<>>)
  PROVE  PassInv'
<1>1. <<>> \in Seq({}) /\ NoneFailed(<<>>)
  BY DEF NoneFailed
<1> QED BY <1>1, HandledByItems

LEMMA ServicesPass ==
  ASSUME Inv, PassInv, compare_services
  PROVE  PassInv'
<1> DEFINE n == Counterpart
           o == Item.old
           items == Compare("function", n.functions, o.functions)
<1>1. Item \in Among("service", Services) /\ ~Done /\ Found /\ Item.kind = "service"
  BY ItemFacts DEF compare_services, Doing
<1>2. n \in Services /\ o \in Services /\ n \in Range(Item.news) /\ n.name = o.name
  BY <1>1, CounterpartIsNew, CounterpartIs DEF Among
<1>3. items \in Seq(Among("function", Functions))
  BY <1>2, CompareType DEF Services
<1>4. PICK messages : Report(messages) /\ Then(items)
  BY DEF compare_services
<1>5. /\ DOMAIN items = DOMAIN o.functions
      /\ \A k \in DOMAIN items :
           items[k].kind = "function" /\ items[k].news = n.functions /\ items[k].old = o.functions[k]
  BY DEF Compare
<1> HIDE DEF n, o, items
<1>6. NoneFailed(items)
  BY <1>5 DEF NoneFailed
<1>7. ASSUME \A k \in DOMAIN items : \E l \in DOMAIN todo' : todo'[l] = items[k]
      PROVE  FunctionsSettled(todo', n.functions, o.functions)
  BY <1>5, <1>7 DEF FunctionsSettled, Awaits, Range
<1>8. (\A k \in DOMAIN items : \E l \in DOMAIN todo' : todo'[l] = items[k])
         => ServiceSettled(todo', Item.news, Item.old)
  BY <1>2, <1>7 DEF ServiceSettled, o
<1> QED BY <1>1, <1>3, <1>4, <1>6, <1>8, HandledByItems

LEMMA FunctionPass ==
  ASSUME Inv, PassInv, compare_single_function
  PROVE  PassInv'
<1> DEFINE n == Counterpart
           o == Item.old
           a == CompareMembers(n.args, o.args)
           x == CompareMembers(n.throws, o.throws)
           items == <<a, x>>
<1>1. Item \in Among("function", Functions) /\ ~Done /\ Found /\ Item.kind = "function"
  BY ItemFacts DEF compare_single_function, Doing
<1>2. n \in Range(Item.news) /\ n.name = o.name
  BY <1>1, CounterpartIs DEF Among
<1>3. PICK messages : Report(messages) /\ Then(items)
  BY DEF compare_single_function
<1>4. /\ a.kind = "members" /\ a.news = n.args /\ a.olds = o.args /\ a.said = [w \in MergeMessages |-> {}]
      /\ x.kind = "members" /\ x.news = n.throws /\ x.olds = o.throws /\ x.said = [w \in MergeMessages |-> {}]
  BY DEF CompareMembers
<1> HIDE DEF n, o, a, x
<1>5. items \in Seq({a, x}) /\ DOMAIN items = {1, 2} /\ items[1] = a /\ items[2] = x
  OBVIOUS
<1> HIDE DEF items
<1>6. NoneFailed(items)
  BY <1>4, <1>5 DEF NoneFailed, MergeMessages
<1>7. (\A k \in DOMAIN items : \E l \in DOMAIN todo' : todo'[l] = items[k])
         => FunctionSettled(todo', Item.news, Item.old)
  BY <1>2, <1>4, <1>5 DEF FunctionSettled, MembersSettled, o
<1> QED BY <1>1, <1>3, <1>5, <1>6, <1>7, HandledByItems

LEMMA StructPass ==
  ASSUME Inv, PassInv, compare_structs
  PROVE  PassInv'
<1> DEFINE n == Counterpart
           o == Item.old
           a == CompareMembers(n.members, o.members)
           items == <<a>>
<1>1. Item \in Among("struct", Structs) /\ ~Done /\ Found /\ Item.kind = "struct"
  BY ItemFacts DEF compare_structs, Doing
<1>2. n \in Range(Item.news) /\ n.name = o.name
  BY <1>1, CounterpartIs DEF Among
<1>3. PICK messages : Report(messages) /\ Then(items)
  BY DEF compare_structs
<1>4. a.kind = "members" /\ a.news = n.members /\ a.olds = o.members /\ a.said = [w \in MergeMessages |-> {}]
  BY DEF CompareMembers
<1> HIDE DEF n, o, a
<1>5. items \in Seq({a}) /\ DOMAIN items = {1} /\ items[1] = a
  OBVIOUS
<1> HIDE DEF items
<1>6. NoneFailed(items)
  BY <1>4, <1>5 DEF NoneFailed, MergeMessages
<1>7. (\A k \in DOMAIN items : \E l \in DOMAIN todo' : todo'[l] = items[k])
         => StructSettled(todo', Item.news, Item.old)
  BY <1>2, <1>4, <1>5 DEF StructSettled, MembersSettled, o
<1> QED BY <1>1, <1>3, <1>5, <1>6, <1>7, HandledByItems

\* A turn of the loop that does not fail says none of the failures.
LEMMA TurnPass ==
  ASSUME Inv, PassInv, Doing("members"), NEW messages \in SUBSET MergeMessages, NEW key, NEW di, NEW dj,
         Turn(messages, key, di, dj)
  PROVE  PassInv'
<1> DEFINE said == Say(messages, key)
           q == [Item EXCEPT !.i = @ + di, !.j = @ + dj, !.said = said]
           items == <<q>>
<1>1. ~Done /\ Item.kind = "members" /\ Report(messages) /\ Then(items)
  BY DEF Doing, Turn
<1>2. Item \in Walks /\ Item \in [kind : {"members"}, news : Members, olds : Members, i : Nat, j : Nat,
                                  said : [MergeMessages -> SUBSET Int]]
  BY WalkFacts DEF Walks, Comparing
<1>3. q.kind = "members" /\ q.news = Item.news /\ q.olds = Item.olds /\ q.said = said
  BY <1>2
<1>4. \A w \in MergeMessages \ messages : said[w] = Item.said[w]
  BY DEF Say
<1> HIDE DEF said, q
<1>5. items \in Seq({q}) /\ DOMAIN items = {1} /\ items[1] = q
  OBVIOUS
<1> HIDE DEF items
<1>6. ~ g_return_failure /\ messages \cap Failures = {} => NoneFailed(items)
  <2> SUFFICES ASSUME ~ g_return_failure, messages \cap Failures = {}, NEW w \in MergeFailures
               PROVE  said[w] = {}
    BY <1>3, <1>5 DEF NoneFailed
  <2>1. w \in MergeMessages \ messages
    BY DEF MergeMessages, Failures
  <2>2. 1 \in DOMAIN todo /\ todo[1] = Item
    BY <1>1, EmptySeq, LenProperties, HeadTailProperties DEF Inv, Done, Item
  <2>3. Item.said[w] = {}
    BY <1>1, <2>2 DEF PassInv, NoneFailed
  <2> QED BY <1>4, <2>1, <2>3
<1>7. (\A k \in DOMAIN items : \E l \in DOMAIN todo' : todo'[l] = items[k])
         => MembersSettled(todo', Item.news, Item.olds)
  BY <1>3, <1>5 DEF MembersSettled
<1> QED BY <1>1, <1>5, <1>6, <1>7, HandledByItems

\* A walk that ends without a failure has found the members to agree.
LEMMA ComparedPass ==
  ASSUME Inv, PassInv, MembersCompared
  PROVE  PassInv'
<1>1. /\ ~Done /\ Doing("members") /\ Item.kind = "members" /\ ~AtNew /\ ~AtOld
      /\ Report({}) /\ Then(<<>>) /\ <<>> \in Seq({})
  BY DEF MembersCompared, Doing
<1>2. NoneFailed(<<>>)
  BY DEF NoneFailed
<1>3. ASSUME ~ g_return_failure PROVE MembersAgree(Item.news, Item.olds)
  <2> SUFFICES ASSUME NEW w \in MergeFailures, NEW x \in Keys(Item.news) \cup Keys(Item.olds)
               PROVE  ~ May(Item.news, Item.olds, w, x)
    BY DEF MembersAgree
  <2>1. 1 \in DOMAIN todo /\ todo[1] = Item
    BY <1>1, EmptySeq, LenProperties, HeadTailProperties DEF Inv, Done, Item
  <2>2. Item.said[w] = {}
    BY <1>1, <1>3, <2>1 DEF PassInv, NoneFailed
  <2>3. w \in MergeMessages /\ w # "default"
    BY DEF MergeMessages, MergeFailures
  <2>4. MayNot(Item.news, Item.olds, w, x)
    BY <1>1, <2>2, <2>3, AllTold
  <2> QED BY <2>3, <2>4 DEF MayNot
<1>4. ~ g_return_failure => MembersSettled(todo', Item.news, Item.olds)
  BY <1>3 DEF MembersSettled
<1> QED BY <1>1, <1>2, <1>4, HandledByItems

\* Each definition is awaited among those it is to be compared with.
LEMMA AllAwaited ==
  ASSUME NEW t, NEW kind, NEW news, NEW olds, Range(Compare(kind, news, olds)) \subseteq Range(t)
  PROVE  \A o \in Range(olds) : Awaits(t, kind, news, o)
<1> SUFFICES ASSUME NEW j \in DOMAIN olds PROVE Awaits(t, kind, news, olds[j])
  BY DEF Range
<1> DEFINE m == [kind |-> kind, news |-> news, old |-> olds[j]]
<1>1. m \in Range(Compare(kind, news, olds))
  BY DEF Compare, Range
<1>2. m.kind = kind /\ m.news = news /\ m.old = olds[j]
  OBVIOUS
<1> HIDE DEF m
<1> QED BY <1>1, <1>2 DEF Awaits, Range

\* What is queued for definitions is of their kind.
LEMMA CompareKind ==
  ASSUME NEW kind, NEW news, NEW olds, NEW m \in Range(Compare(kind, news, olds))
  PROVE  m.kind = kind /\ m.news = news /\ m.old \in Range(olds)
<1>1. PICK j \in DOMAIN olds : m = [kind |-> kind, news |-> news, old |-> olds[j]]
  BY DEF Compare, Range
<1> QED BY <1>1 DEF Range

LEMMA InitPass == Init => PassInv
<1> SUFFICES ASSUME Init PROVE PassInv
  OBVIOUS
<1>1. ASSUME NEW k \in DOMAIN todo PROVE todo[k].kind # "members"
  <2>1. todo[k] \in Range(todo)
    BY DEF Range
  <2> QED BY <2>1, InitTodo, CompareKind
<1>2. NoneFailed(todo)
  BY <1>1 DEF NoneFailed
<1>3. /\ Range(Compare("service", new.services, old.services)) \subseteq Range(todo)
      /\ Range(Compare("struct", new.structs, old.structs)) \subseteq Range(todo)
      /\ Range(Compare("struct", new.xceptions, old.xceptions)) \subseteq Range(todo)
  BY InitTodo
<1> QED BY <1>2, <1>3, AllAwaited DEF PassInv, ServicesSettled, StructsSettled

LEMMA NextPass == Inv /\ PassInv /\ [Next]_vars => PassInv'
<1> SUFFICES ASSUME Inv, PassInv, [Next]_vars PROVE PassInv'
  OBVIOUS
<1>1. CASE compare_namespace
  <2>1. PICK messages : Report(messages)
    BY <1>1 DEF compare_namespace
  <2> QED BY <1>1, <2>1, OtherPass DEF compare_namespace, Doing
<1>2. CASE \E kind \in {"service", "function", "enum", "struct", "const"} : Missing(kind)
  BY <1>2, MissingPass
<1>3. CASE compare_services \/ compare_single_function \/ compare_structs
  BY <1>3, ServicesPass, FunctionPass, StructPass
<1>4. CASE compare_enum_values
  <2>1. PICK messages : Report(messages)
    BY <1>4 DEF compare_enum_values
  <2> QED BY <1>4, <2>1, OtherPass DEF compare_enum_values, Doing
<1>5. CASE compare_consts
  <2>1. PICK messages : Report(messages)
    BY <1>5 DEF compare_consts
  <2> QED BY <1>5, <2>1, OtherPass DEF compare_consts, Doing
<1>6. CASE FieldRemoved
  BY <1>6, TurnPass DEF FieldRemoved, MergeMessages, MergeFailures
<1>7. CASE FieldAddedAtEnd
  BY <1>7, TurnPass DEF FieldAddedAtEnd, MergeMessages, MergeFailures
<1>8. CASE FieldAddedInMiddle
  BY <1>8, TurnPass DEF FieldAddedInMiddle, MergeMessages, MergeFailures
<1>9. CASE compare_struct_field
  <2>1. PICK messages \in SUBSET MergeMessages : Doing("members") /\ Turn(messages, NewField.key, 1, 1)
    BY <1>9 DEF compare_struct_field
  <2> QED BY <2>1, TurnPass
<1>10. CASE MembersCompared
  BY <1>10, ComparedPass
<1>11. CASE UNCHANGED vars
  BY <1>11 DEF vars, PassInv
<1> QED BY <1>1, <1>2, <1>3, <1>4, <1>5, <1>6, <1>7, <1>8, <1>9, <1>10, <1>11 DEF Next

\* Members that agree are compatible if names stand for the same types.
LEMMA AgreeingIsCompatible ==
  ASSUME NEW news \in Members, NEW olds \in Members, MembersAgree(news, olds),
         \A n \in Range(news), o \in Range(olds) :
           \A a \in Leaves[n.type], b \in Leaves[o.type] : a.name = b.name => a.means = b.means
  PROVE  Compatible(SameOnWire, news, olds)
<1>1. ASSUME NEW ms \in Members, NEW m \in Range(ms)
      PROVE  m \in Fields /\ m.key \in Int /\ m.key \in Keys(ms) /\ At(ms, m.key) = m
  <2>1. PICK k \in DOMAIN ms : m = ms[k]
    BY DEF Range
  <2>2. ms \in Seq(Fields)
    BY DEF Members
  <2> QED BY <2>1, <2>2, ElementOfSeq, LenProperties, MembersFacts DEF Keys
<1>2. ASSUME NEW o \in Range(olds)
      PROVE  \E n \in Range(news) : n.key = o.key /\ SameOnWire(n.type, o.type) /\ (Required(n) <=> Required(o))
  <2>1. o.key \in Keys(olds) /\ At(olds, o.key) = o /\ o \in Fields
    BY <1>1
  <2>2. ~ May(news, olds, "removed", o.key)
    BY <2>1 DEF MembersAgree, MergeFailures
  <2>3. PICK k \in DOMAIN news : news[k].key = o.key
    BY <2>2 DEF May, Keys
  <2> DEFINE n == news[k]
  <2>4. n \in Range(news) /\ n \in Fields /\ n.key = o.key /\ n.key \in Keys(news) /\ At(news, n.key) = n
    BY <1>1, <2>3 DEF Range
  <2>5. ~ May(news, olds, "type", n.key) /\ ~ May(news, olds, "requiredness", n.key)
    BY <2>4 DEF MembersAgree, MergeFailures
  <2> HIDE DEF n
  <2>6. compare_type[<<n.type, o.type>>] /\ (Required(n) <=> Required(o))
    BY <2>1, <2>4, <2>5 DEF May
  <2>7. n.type \in Types /\ o.type \in Types
    BY <2>1, <2>4 DEF Fields
  <2>8. SameOnWire(n.type, o.type)
    BY <2>4, <2>6, <2>7, ComparedIsSameOnWire DEF SameOnWire
  <2> QED BY <2>4, <2>6, <2>8
<1>3. ASSUME NEW n \in Range(news), n.key \notin Keys(olds)
      PROVE  ~ Required(n) /\ \A k \in Keys(olds) : k < n.key
  <2>1. n.key \in Keys(news) /\ At(news, n.key) = n /\ n.key \in Int
    BY <1>1
  <2>2. ~ May(news, olds, "middle", n.key) /\ ~ May(news, olds, "required_added", n.key)
    BY <2>1 DEF MembersAgree, MergeFailures
  <2>3. \A k \in Keys(olds) : ~ (n.key < k) /\ k \in Int /\ k # n.key
    BY <1>3, <2>1, <2>2, MembersFacts DEF May
  <2>4. \A k \in Keys(olds) : k < n.key
    BY <2>1, <2>3
  <2> QED BY <1>3, <2>1, <2>2, <2>4 DEF May
<1> QED BY <1>2, <1>3 DEF Compatible

\* A name is one definition's.
LEMMA OneNamesake ==
  ASSUME NEW defns, DistinctlyNamed(defns), NEW m \in Range(defns), NEW n \in Range(defns), m.name = n.name
  PROVE  m = n
BY DEF DistinctlyNamed, Range

\* What a program consists of.
LEMMA ProgramFacts ==
  ASSUME NEW p, IsProgram(p)
  PROVE  /\ \A d \in Range(p.structs) \cup Range(p.xceptions) : d \in Structs /\ d.members \in Members
         /\ \A s \in Range(p.services) :
              /\ s \in Services /\ s.functions \in Seq(Functions) /\ DistinctlyNamed(s.functions)
              /\ \A f \in Range(s.functions) : f \in Functions /\ f.args \in Members /\ f.throws \in Members
<1>1. /\ Range(p.structs) \subseteq Structs /\ Range(p.xceptions) \subseteq Structs
      /\ Range(p.services) \subseteq Services
  BY RangeOfSeq DEF IsProgram
<1>2. ASSUME NEW s \in Services PROVE s.functions \in Seq(Functions) /\ Range(s.functions) \subseteq Functions
  <2>1. s.functions \in Seq(Functions)
    BY DEF Services
  <2> QED BY <2>1, RangeOfSeq
<1> QED BY <1>1, <1>2 DEF IsProgram, Structs, Functions

\* When a passing audit is over, all that has the same name agrees.
LEMMA PairsAgree ==
  ASSUME Inv, PassInv, Done, ~ g_return_failure, NEW pair \in Pairs
  PROVE  pair[1] \in Members /\ pair[2] \in Members /\ MembersAgree(pair[1], pair[2])
<1>1. DOMAIN todo = {}
  BY DEF Done
<1>2. /\ \A kind, news, o : ~ Awaits(todo, kind, news, o)
      /\ \A news, olds : MembersSettled(todo, news, olds) => MembersAgree(news, olds)
  BY <1>1 DEF Awaits, MembersSettled
<1>3. ASSUME NEW news, NEW olds, DistinctlyNamed(news), StructsSettled(todo, news, olds),
             \A d \in Range(news) \cup Range(olds) : d.members \in Members,
             pair \in PairsIn(news, olds)
      PROVE  pair[1] \in Members /\ pair[2] \in Members /\ MembersAgree(pair[1], pair[2])
  <2>1. PICK q \in Namesakes(news, olds) : pair = <<q[1].members, q[2].members>>
    BY <1>3 DEF PairsIn
  <2>2. q[1] \in Range(news) /\ q[2] \in Range(olds) /\ q[1].name = q[2].name
    BY DEF Namesakes
  <2>3. PICK n \in Range(news) : n.name = q[2].name /\ MembersSettled(todo, n.members, q[2].members)
    BY <1>2, <1>3, <2>2 DEF StructsSettled, StructSettled
  <2>4. n = q[1]
    BY <1>3, <2>2, <2>3, OneNamesake
  <2> QED BY <1>2, <1>3, <2>1, <2>2, <2>3, <2>4
<1>4. ASSUME NEW q \in Namesakes(new.services, old.services), pair \in FunctionPairs(q[1].functions, q[2].functions)
      PROVE  pair[1] \in Members /\ pair[2] \in Members /\ MembersAgree(pair[1], pair[2])
  <2>1. q[1] \in Range(new.services) /\ q[2] \in Range(old.services) /\ q[1].name = q[2].name
    BY DEF Namesakes
  <2>2. /\ DistinctlyNamed(new.services) /\ DistinctlyNamed(q[1].functions)
        /\ \A f \in Range(q[1].functions) \cup Range(q[2].functions) : f.args \in Members /\ f.throws \in Members
    BY <2>1, ProgramFacts DEF Inv, IsProgram
  <2>3. PICK s \in Range(new.services) :
          s.name = q[2].name /\ FunctionsSettled(todo, s.functions, q[2].functions)
    BY <1>2, <2>1 DEF PassInv, ServicesSettled, ServiceSettled
  <2>4. s = q[1]
    BY <2>1, <2>2, <2>3, OneNamesake
  <2>5. PICK r \in Namesakes(q[1].functions, q[2].functions) :
          pair \in {<<r[1].args, r[2].args>>, <<r[1].throws, r[2].throws>>}
    BY <1>4 DEF FunctionPairs
  <2>6. r[1] \in Range(q[1].functions) /\ r[2] \in Range(q[2].functions) /\ r[1].name = r[2].name
    BY DEF Namesakes
  <2>7. PICK f \in Range(q[1].functions) :
          /\ f.name = r[2].name
          /\ MembersSettled(todo, f.args, r[2].args) /\ MembersSettled(todo, f.throws, r[2].throws)
    BY <1>2, <2>3, <2>4, <2>6 DEF FunctionsSettled, FunctionSettled
  <2>8. f = r[1]
    BY <2>2, <2>6, <2>7, OneNamesake
  <2>9. /\ r[1].args \in Members /\ r[2].args \in Members /\ r[1].throws \in Members /\ r[2].throws \in Members
        /\ MembersAgree(r[1].args, r[2].args) /\ MembersAgree(r[1].throws, r[2].throws)
    BY <1>2, <2>2, <2>6, <2>7, <2>8
  <2> QED BY <2>5, <2>9
<1>5. CASE pair \in PairsIn(new.structs, old.structs)
  <2>1. \A d \in Range(new.structs) \cup Range(old.structs) : d.members \in Members
    BY ProgramFacts DEF Inv
  <2> QED BY <1>3, <1>5, <2>1 DEF Inv, IsProgram, PassInv
<1>6. CASE pair \in PairsIn(new.xceptions, old.xceptions)
  <2>1. \A d \in Range(new.xceptions) \cup Range(old.xceptions) : d.members \in Members
    BY ProgramFacts DEF Inv
  <2> QED BY <1>3, <1>6, <2>1 DEF Inv, IsProgram, PassInv
<1> QED BY <1>4, <1>5, <1>6 DEF Pairs

\* If the audit passes, programs of the two versions understand each other (t_audit.cpp).
THEOREM PassIsCompatible == Spec => []PassKeepsWire
<1>1. Inv /\ PassInv => PassKeepsWire
  <2> SUFFICES ASSUME Inv, PassInv, Done, ~ g_return_failure, NamesMeanTheSame
               PROVE  /\ NamesOf(old.structs) \subseteq NamesOf(new.structs)
                      /\ NamesOf(old.xceptions) \subseteq NamesOf(new.xceptions)
                      /\ \A o \in Range(old.services) : \E n \in Range(new.services) :
                           n.name = o.name /\ NamesOf(o.functions) \subseteq NamesOf(n.functions)
                      /\ \A pair \in Pairs : Compatible(SameOnWire, pair[1], pair[2])
    BY DEF PassKeepsWire
  <2>1. DOMAIN todo = {}
    BY DEF Done
  <2>2. \A kind, news, o : ~ Awaits(todo, kind, news, o)
    BY <2>1 DEF Awaits
  <2>3. /\ NamesOf(old.structs) \subseteq NamesOf(new.structs)
        /\ NamesOf(old.xceptions) \subseteq NamesOf(new.xceptions)
    BY <2>2 DEF PassInv, StructsSettled, StructSettled, NamesOf
  <2>4. ASSUME NEW o \in Range(old.services)
        PROVE  \E n \in Range(new.services) :
                 n.name = o.name /\ NamesOf(o.functions) \subseteq NamesOf(n.functions)
    <3>1. PICK n \in Range(new.services) :
            n.name = o.name /\ FunctionsSettled(todo, n.functions, o.functions)
      BY <2>2 DEF PassInv, ServicesSettled, ServiceSettled
    <3>2. NamesOf(o.functions) \subseteq NamesOf(n.functions)
      BY <2>2, <3>1 DEF FunctionsSettled, FunctionSettled, NamesOf
    <3> QED BY <3>1, <3>2
  <2>5. ASSUME NEW pair \in Pairs PROVE Compatible(SameOnWire, pair[1], pair[2])
    <3>1. pair[1] \in Members /\ pair[2] \in Members /\ MembersAgree(pair[1], pair[2])
      BY PairsAgree
    <3>2. \A n \in Range(pair[1]), o \in Range(pair[2]) :
            \A a \in Leaves[n.type], b \in Leaves[o.type] : a.name = b.name => a.means = b.means
      BY DEF NamesMeanTheSame
    <3> QED BY <3>1, <3>2, AgreeingIsCompatible
  <2> QED BY <2>3, <2>4, <2>5
<1>2. Init => Inv /\ PassInv
  BY InitInv, InitPass
<1>3. Inv /\ PassInv /\ [Next]_vars => Inv' /\ PassInv'
  BY NextInv, NextPass
<1> QED BY <1>1, <1>2, <1>3, PTL DEF Spec

\* What may be said when a program is compared with itself.
Innocent(messages) ==
  /\ messages \subseteq {"enum_name", "default", "const_value"}
  /\ "enum_name" \in messages =>
       \E e \in Range(new.enums) : \E v, w \in Range(e.values) : v # w /\ v.value = w.value
  /\ messages \cap {"default", "const_value"} # {} => \E v \in ValuesOf(new) : Unordered[v]

\* A step keeps the invariant if what it says may be said and the comparisons it
\* asks for are of a program with itself.
LEMMA InnocentStep ==
  ASSUME Inv, SilentInv, ~Done, NEW messages, Report(messages), NEW T, NEW items \in Seq(T), Then(items),
         new = old => Innocent(messages) /\ \A k \in DOMAIN items : AmongItsOwn(items[k])
  PROVE  SilentInv'
<1>1. new' = new /\ old' = old
  BY DEF Report
<1> SUFFICES ASSUME new = old
             PROVE  SelfAuditIsSilent' /\ \A l \in DOMAIN todo' : AmongItsOwn(todo[l])'
  BY <1>1 DEF SilentInv, SelfAuditIsSilent
<1>2. SelfAuditIsSilent /\ \A k \in DOMAIN todo : AmongItsOwn(todo[k])
  BY DEF SilentInv
<1>3. SelfAuditIsSilent'
  <2>1. printed' \subseteq printed \cup messages
    BY DEF Report
  <2>2. messages \cap Failures = {}
    BY DEF Innocent, Failures, MergeFailures
  <2>3. ~ g_return_failure'
    BY <1>2, <2>2 DEF SelfAuditIsSilent, Report
  <2> QED BY <1>1, <1>2, <2>1, <2>3 DEF SelfAuditIsSilent, Innocent
<1>4. ASSUME NEW l \in DOMAIN todo' PROVE AmongItsOwn(todo[l])'
  <2>1. (\E k \in DOMAIN items : todo'[l] = items[k]) \/ \E k \in DOMAIN todo : todo'[l] = todo[k]
    BY StepMakesWay DEF MakesWay
  <2>2. PICK q : todo'[l] = q /\ AmongItsOwn(q)
    BY <1>2, <2>1
  <2> QED BY <1>1, <2>2 DEF AmongItsOwn
<1> QED BY <1>3, <1>4

LEMMA ItemIsOwn ==
  ASSUME Inv, SilentInv, ~Done, new = old
  PROVE  AmongItsOwn(Item)
<1>1. 1 \in DOMAIN todo /\ todo[1] = Item
  BY EmptySeq, LenProperties, HeadTailProperties DEF Inv, Done, Item
<1> QED BY <1>1 DEF SilentInv

\* A definition is found among its own, as itself.
LEMMA FoundAsItself ==
  ASSUME NEW S, Item.news \in Seq(S), Item.old \in Range(Item.news)
  PROVE  Found /\ (DistinctlyNamed(Item.news) => Counterpart = Item.old)
<1>1. Found
  BY DEF Found, Range
<1>2. Counterpart \in Range(Item.news) /\ Counterpart.name = Item.old.name
  BY <1>1, CounterpartIs
<1> QED BY <1>1, <1>2, OneNamesake

\* What is compared with itself, by its kind.
LEMMA OwnFacts ==
  ASSUME Inv, SilentInv, ~Done, new = old
  PROVE  /\ Item.kind \in {"service", "function", "enum", "struct", "const"} =>
              Item.old \in Range(Item.news) /\ Found /\ Counterpart = Item.old
         /\ Item.kind = "service" => Item.old \in Range(new.services) /\ Item.old \in Services
         /\ Item.kind = "function" =>
              /\ Item.old \in Functions
              /\ \E s \in Range(new.services) : Item.old \in Range(s.functions)
         /\ Item.kind = "enum" => Item.old \in Range(new.enums) /\ Item.old \in Enums
         /\ Item.kind = "struct" => Item.old \in Range(new.structs) \cup Range(new.xceptions)
         /\ Item.kind = "const" => Item.old \in Range(new.consts) /\ Item.old \in Consts
<1>1. AmongItsOwn(Item) /\ IsProgram(new)
  BY ItemIsOwn DEF Inv
<1>2. CASE Item.kind = "service"
  <2>1. Item.news = new.services /\ Item.old \in Range(Item.news)
    BY <1>1, <1>2 DEF AmongItsOwn
  <2>2. new.services \in Seq(Services) /\ DistinctlyNamed(new.services)
    BY <1>1 DEF IsProgram
  <2> QED BY <1>2, <2>1, <2>2, FoundAsItself, RangeOfSeq
<1>3. CASE Item.kind = "function"
  <2>1. PICK s \in Range(new.services) : Item.news = s.functions /\ Item.old \in Range(Item.news)
    BY <1>1, <1>3 DEF AmongItsOwn
  <2>2. s.functions \in Seq(Functions) /\ DistinctlyNamed(s.functions)
    BY <1>1, ProgramFacts
  <2> QED BY <1>3, <2>1, <2>2, FoundAsItself, RangeOfSeq
<1>4. CASE Item.kind = "enum"
  <2>1. Item.news = new.enums /\ Item.old \in Range(Item.news)
    BY <1>1, <1>4 DEF AmongItsOwn
  <2>2. new.enums \in Seq(Enums) /\ DistinctlyNamed(new.enums)
    BY <1>1 DEF IsProgram
  <2> QED BY <1>4, <2>1, <2>2, FoundAsItself, RangeOfSeq
<1>5. CASE Item.kind = "struct"
  <2>1. Item.news \in {new.structs, new.xceptions} /\ Item.old \in Range(Item.news)
    BY <1>1, <1>5 DEF AmongItsOwn
  <2>2. Item.news \in Seq(Structs) /\ DistinctlyNamed(Item.news)
    BY <1>1, <2>1 DEF IsProgram
  <2> QED BY <1>5, <2>1, <2>2, FoundAsItself, RangeOfSeq
<1>6. CASE Item.kind = "const"
  <2>1. Item.news = new.consts /\ Item.old \in Range(Item.news)
    BY <1>1, <1>6 DEF AmongItsOwn
  <2>2. new.consts \in Seq(Consts) /\ DistinctlyNamed(new.consts)
    BY <1>1 DEF IsProgram
  <2> QED BY <1>6, <2>1, <2>2, FoundAsItself, RangeOfSeq
<1> QED BY <1>2, <1>3, <1>4, <1>5, <1>6

LEMMA NothingSaid == Innocent({})
BY DEF Innocent

\* A step that asks for nothing more.
LEMMA LastStep ==
  ASSUME Inv, SilentInv, ~Done, NEW messages, Report(messages), Then(<<>>), new = old => Innocent(messages)
  PROVE  SilentInv'
<1>1. <<>> \in Seq({})
  OBVIOUS
<1>2. \A k \in DOMAIN <<>> : AmongItsOwn(<<>>[k])
  <2>1. DOMAIN <<>> = {}
    OBVIOUS
  <2> QED BY <2>1
<1> QED BY <1>1, <1>2, InnocentStep

LEMMA MissingSilent ==
  ASSUME Inv, SilentInv, NEW kind \in {"service", "function", "enum", "struct", "const"}, Missing(kind)
  PROVE  SilentInv'
<1>1. ~Done /\ Item.kind = kind /\ ~Found /\ Report({kind}) /\ Then(<<>>)
  BY DEF Missing, Doing
<1>2. new # old
  BY <1>1, OwnFacts
<1> QED BY <1>1, <1>2, LastStep

LEMMA NamespaceSilent ==
  ASSUME Inv, SilentInv, compare_namespace
  PROVE  SilentInv'
<1> DEFINE messages == {"language" : l \in {l \in DOMAIN Item.old :
                          l \notin DOMAIN Item.news \/ Item.news[l] # Item.old[l]}}
<1>1. ~Done /\ Item.kind = "namespaces" /\ Report(messages) /\ Then(<<>>)
  BY DEF compare_namespace, Doing
<1>2. new = old => messages = {}
  BY <1>1, ItemIsOwn DEF AmongItsOwn
<1> HIDE DEF messages
<1> QED BY <1>1, <1>2, LastStep, NothingSaid

\* A comparison of members with themselves is of a program with itself.
LEMMA OwnMembers ==
  ASSUME NEW ms \in MembersIn(new)
  PROVE  AmongItsOwn(CompareMembers(ms, ms))
BY DEF AmongItsOwn, CompareMembers

LEMMA ServicesSilent ==
  ASSUME Inv, SilentInv, compare_services
  PROVE  SilentInv'
<1> DEFINE messages == {"extends" : x \in {Item.old.extends} \ {NULL, Counterpart.extends}}
           items == Compare("function", Counterpart.functions, Item.old.functions)
<1>1. ~Done /\ Item.kind = "service" /\ Found /\ Report(messages) /\ Then(items)
  BY DEF compare_services, Doing
<1>2. items \in Seq(Among("function", Functions))
  <2>1. Item \in Among("service", Services)
    BY <1>1, ItemFacts
  <2>2. Counterpart \in Services /\ Item.old \in Services
    BY <1>1, <2>1, CounterpartIsNew DEF Among
  <2> QED BY <2>2, CompareType DEF Services
<1>3. ASSUME new = old PROVE messages = {} /\ \A k \in DOMAIN items : AmongItsOwn(items[k])
  <2>1. Counterpart = Item.old /\ Item.old \in Range(new.services)
    BY <1>1, <1>3, OwnFacts
  <2>2. messages = {}
    BY <2>1
  <2>3. ASSUME NEW k \in DOMAIN items PROVE AmongItsOwn(items[k])
    <3>1. items[k] \in Range(items)
      BY DEF Range
    <3>2. items[k].kind = "function" /\ items[k].news = Item.old.functions /\ items[k].old \in Range(Item.old.functions)
      <4> HIDE DEF messages
      <4> QED BY <2>1, <3>1, CompareKind
    <3> HIDE DEF items
    <3> QED BY <2>1, <3>2 DEF AmongItsOwn
  <2> QED BY <2>2, <2>3
<1> HIDE DEF messages, items
<1> QED BY <1>1, <1>2, <1>3, InnocentStep, NothingSaid

LEMMA FunctionSilent ==
  ASSUME Inv, SilentInv, compare_single_function
  PROVE  SilentInv'
<1> DEFINE n == Counterpart
           o == Item.old
           messages == {w \in {"oneway", "return"} :
                          IF w = "oneway" THEN n.oneway # o.oneway
                                          ELSE ~ compare_type[<<n.returns, o.returns>>]}
           a == CompareMembers(n.args, o.args)
           x == CompareMembers(n.throws, o.throws)
           items == <<a, x>>
<1>1. ~Done /\ Item.kind = "function" /\ Found /\ Report(messages) /\ Then(items)
  BY DEF compare_single_function, Doing
<1>2. ASSUME new = old PROVE messages = {} /\ AmongItsOwn(a) /\ AmongItsOwn(x)
  <2>1. PICK s \in Range(new.services) : o \in Range(s.functions) /\ n = o /\ o \in Functions
    BY <1>1, <1>2, OwnFacts
  <2>2. compare_type[<<o.returns, o.returns>>]
    BY <2>1, TypeIsItself DEF Functions
  <2>3. messages = {}
    BY <2>1, <2>2
  <2>4. o.args \in MembersIn(new) /\ o.throws \in MembersIn(new)
    BY <2>1 DEF MembersIn
  <2> QED BY <2>1, <2>3, <2>4, OwnMembers
<1> HIDE DEF messages, a, x
<1>3. items \in Seq({a, x}) /\ DOMAIN items = {1, 2} /\ items[1] = a /\ items[2] = x
  OBVIOUS
<1> HIDE DEF items
<1> QED BY <1>1, <1>2, <1>3, InnocentStep, NothingSaid

LEMMA StructSilent ==
  ASSUME Inv, SilentInv, compare_structs
  PROVE  SilentInv'
<1> DEFINE a == CompareMembers(Counterpart.members, Item.old.members)
           items == <<a>>
<1>1. ~Done /\ Item.kind = "struct" /\ Found /\ Report({}) /\ Then(items)
  BY DEF compare_structs, Doing
<1>2. ASSUME new = old PROVE AmongItsOwn(a)
  <2>1. Counterpart = Item.old /\ Item.old \in Range(new.structs) \cup Range(new.xceptions)
    BY <1>1, <1>2, OwnFacts
  <2>2. Item.old.members \in MembersIn(new)
    BY <2>1 DEF MembersIn
  <2> QED BY <2>1, <2>2, OwnMembers
<1> HIDE DEF a
<1>3. items \in Seq({a}) /\ DOMAIN items = {1} /\ items[1] = a
  OBVIOUS
<1> HIDE DEF items
<1> QED BY <1>1, <1>2, <1>3, InnocentStep, NothingSaid

\* The other way round: a set of positions has a first one.
LEMMA FirstPosition ==
  ASSUME NEW n \in Nat, NEW T, T \subseteq 1..n, T # {}
  PROVE  \E i \in T : \A l \in 1..i - 1 : l \notin T
<1>1. IsWellFoundedOn(LessThan, Nat)
  BY NatLessThanWellFounded DEF OpToRel, LessThan
<1>2. T \subseteq Nat
  OBVIOUS
<1>3. PICK i \in T : \A v \in T : <<v, i>> \notin LessThan
  BY <1>1, <1>2, WFMin
<1>4. \A v \in T : ~ (v < i)
  BY <1>2, <1>3 DEF LessThan
<1>5. \A l \in 1..i - 1 : l < i
  BY <1>2
<1> QED BY <1>4, <1>5

\* The name that is found for a number is that of a value with the number.
LEMMA NameOfIs ==
  ASSUME NEW enum \in Enums, NEW v \in Range(enum.values)
  PROVE  \E w \in Range(enum.values) : w.value = v.value /\ NameOf(enum, v.value) = w.name
<1> DEFINE T == {k \in DOMAIN enum.values : enum.values[k].value = v.value}
<1>1. DOMAIN enum.values = 1..Len(enum.values) /\ Len(enum.values) \in Nat
  <2>1. enum.values \in Seq([name : Names, value : Int])
    BY DEF Enums
  <2> QED BY <2>1, LenProperties
<1>2. T \subseteq 1..Len(enum.values) /\ T # {}
  BY <1>1 DEF Range
<1>3. PICK i \in T : \A l \in 1..i - 1 : l \notin T
  <2> HIDE DEF T
  <2> QED BY <1>1, <1>2, FirstPosition
<1>4. \E k \in DOMAIN enum.values :
        enum.values[k].value = v.value /\ \A l \in 1..k - 1 : ~ (enum.values[l].value = v.value)
  <2>1. \A l \in 1..i - 1 : l \in DOMAIN enum.values
    BY <1>1
  <2> QED BY <1>3, <2>1
<1>5. PICK k \in DOMAIN enum.values :
        enum.values[k].value = v.value /\ NameOf(enum, v.value) = enum.values[k].name
  BY <1>4 DEF NameOf
<1> QED BY <1>5 DEF Range

LEMMA EnumSilent ==
  ASSUME Inv, SilentInv, compare_enum_values
  PROVE  SilentInv'
<1> DEFINE n == Counterpart
           present == {v.value : v \in Range(n.values)}
           olds == Range(Item.old.values)
           gone == {"enum_value" : v \in {v \in olds : v.value \notin present}}
           named == {"enum_name" : v \in {v \in olds : v.value \in present /\ NameOf(n, v.value) # v.name}}
           messages == gone \cup named
<1>1. ~Done /\ Item.kind = "enum" /\ Report(messages) /\ Then(<<>>)
  BY DEF compare_enum_values, Doing
<1>2. ASSUME new = old PROVE Innocent(messages)
  <2>1. n = Item.old /\ n \in Range(new.enums) /\ n \in Enums
    BY <1>1, <1>2, OwnFacts
  <2>2. gone = {}
    BY <2>1
  <2>3. ASSUME named # {}
        PROVE  \E e \in Range(new.enums) : \E v, w \in Range(e.values) : v # w /\ v.value = w.value
    <3>1. PICK v \in Range(n.values) : NameOf(n, v.value) # v.name
      BY <2>1, <2>3
    <3>2. PICK w \in Range(n.values) : w.value = v.value /\ NameOf(n, v.value) = w.name
      <4> HIDE DEF n
      <4> QED BY <2>1, NameOfIs
    <3>3. v # w
      BY <3>1, <3>2
    <3> HIDE DEF n
    <3> QED BY <2>1, <3>2, <3>3
  <2>4. named \subseteq {"enum_name"}
    OBVIOUS
  <2> HIDE DEF gone, named
  <2> QED BY <2>2, <2>3, <2>4 DEF Innocent
<1> HIDE DEF messages
<1> QED BY <1>1, <1>2, LastStep

\* A default that differs from itself contains a map of several entries.
LEMMA DefaultIsItself ==
  ASSUME NEW v \in Defaults, compare_defaults[<<v, v>>] # {TRUE}
  PROVE  v # NULL /\ v \in Values /\ Unordered[v]
<1>1. CASE v = NULL
  <2>1. compare_defaults[<<v, v>>] = {v = v}
    BY <1>1, CompareDefaultsIs
  <2>2. (v = v) = TRUE
    OBVIOUS
  <2> QED BY <2>1, <2>2
<1>2. CASE v # NULL
  <2>1. v \in Values
    BY <1>2 DEF Defaults
  <2>2. ~ Unordered[v] => compare_defaults[<<v, v>>] = {TRUE}
    BY <2>1, ValueIsItself
  <2> QED BY <1>2, <2>1, <2>2
<1> QED BY <1>1, <1>2

LEMMA ConstSilent ==
  ASSUME Inv, SilentInv, compare_consts
  PROVE  SilentInv'
<1>1. ~Done /\ Item.kind = "const" /\ Found /\ Then(<<>>)
  BY DEF compare_consts, Doing
<1>2. PICK messages :
        /\ Report(messages)
        /\ compare_type[<<Counterpart.type, Item.old.type>>] =>
             \/ messages = {}
             \/ /\ messages = {"const_value"}
                /\ compare_defaults[<<Counterpart.value, Item.old.value>>] # {TRUE}
  <2>1. CASE ~ compare_type[<<Counterpart.type, Item.old.type>>]
    BY <2>1 DEF compare_consts
  <2>2. CASE compare_type[<<Counterpart.type, Item.old.type>>]
    <3>1. PICK same \in compare_defaults[<<Counterpart.value, Item.old.value>>] :
            Report(IF same THEN {} ELSE {"const_value"})
      BY <2>2 DEF compare_consts
    <3> DEFINE messages == IF same THEN {} ELSE {"const_value"}
    <3>2. messages = {} \/ (messages = {"const_value"} /\ ~ same)
      OBVIOUS
    <3>3. ASSUME ~ same PROVE compare_defaults[<<Counterpart.value, Item.old.value>>] # {TRUE}
      <4>1. TRUE # same
        BY <3>3
      <4> QED BY <3>1, <4>1
    <3>4. Report(messages)
      BY <3>1
    <3> HIDE DEF messages
    <3> QED BY <3>2, <3>3, <3>4
  <2> QED BY <2>1, <2>2
<1>3. ASSUME new = old PROVE Innocent(messages)
  <2> DEFINE x == Item.old
  <2>1. Counterpart = x /\ x \in Range(new.consts) /\ x \in Consts
    BY <1>1, <1>3, OwnFacts
  <2>2. x.type \in Types /\ x.value \in Values /\ x.value \in Defaults /\ x.value \in ValuesOf(new)
    BY <2>1 DEF Consts, Defaults, ValuesOf
  <2>3. messages = {} \/ (messages = {"const_value"} /\ Unordered[x.value])
    BY <1>2, <2>1, <2>2, TypeIsItself, DefaultIsItself
  <2> HIDE DEF x
  <2> QED BY <2>2, <2>3 DEF Innocent
<1> QED BY <1>1, <1>2, <1>3, LastStep

\* The walk over members and themselves: the iterators are at the same field.
LEMMA OwnWalk ==
  ASSUME Inv, SilentInv, Doing("members"), new = old
  PROVE  /\ Item.news \in MembersIn(new) /\ Item.olds = Item.news /\ Item.j = Item.i
         /\ AtNew <=> AtOld
         /\ AtNew => NewField = OldField /\ NewField \in Fields /\ NewField \in Range(Item.news)
                     /\ NewField.key \in Int
<1>1. Item.news \in MembersIn(new) /\ Item.olds = Item.news /\ Item.j = Item.i
  BY ItemIsOwn DEF Doing, AmongItsOwn
<1>2. Item.news \in Members
  BY WalkFacts
<1>3. AtNew => NewField \in Fields /\ NewField \in Range(Item.news)
  <2>1. Item.news \in Seq(Fields)
    BY <1>2 DEF Members
  <2> QED BY <2>1, LenProperties, ElementOfSeq DEF AtNew, NewField, Range
<1> QED BY <1>1, <1>3 DEF AtNew, AtOld, NewField, OldField, Fields

LEMMA AlikeSilent ==
  ASSUME Inv, SilentInv, FieldRemoved \/ FieldAddedAtEnd \/ FieldAddedInMiddle
  PROVE  SilentInv'
<1>1. PICK messages, key, di, dj : Turn(messages, key, di, dj) /\ Doing("members")
  BY DEF FieldRemoved, FieldAddedAtEnd, FieldAddedInMiddle
<1> DEFINE q == [Item EXCEPT !.i = @ + di, !.j = @ + dj, !.said = Say(messages, key)]
<1>2. ~Done /\ Report(messages) /\ Then(<<q>>) /\ <<q>> \in Seq({q})
  BY <1>1 DEF Turn, Doing
<1>3. new # old
  <2> SUFFICES ASSUME new = old PROVE FALSE
    OBVIOUS
  <2>1. ~ FieldAddedAtEnd
    BY <1>1, OwnWalk DEF FieldAddedAtEnd
  <2>2. ~ FieldRemoved
    BY <1>1, OwnWalk DEF FieldRemoved
  <2>3. ~ FieldAddedInMiddle
    BY <1>1, OwnWalk DEF FieldAddedInMiddle
  <2> QED BY <2>1, <2>2, <2>3
<1> HIDE DEF q
<1> QED BY <1>2, <1>3, InnocentStep

LEMMA FieldSilent ==
  ASSUME Inv, SilentInv, compare_struct_field
  PROVE  SilentInv'
<1> DEFINE f == NewField
           Messages(same) ==
             {w \in MergeMessages :
                \/ w = "type" /\ ~ compare_type[<<NewField.type, OldField.type>>]
                \/ w = "requiredness" /\ ~ (Required(NewField) <=> Required(OldField))
                \/ w = "default" /\ ~ same /\ ~ (Required(NewField) /\ Required(OldField))
                \/ w = "field_name" /\ NewField.name # OldField.name}
<1>1. Doing("members") /\ AtNew /\ AtOld /\ ~Done /\ Item.kind = "members"
  BY DEF compare_struct_field, Doing
<1>2. PICK same \in BOOLEAN :
        /\ same \in compare_defaults[<<NewField.value, OldField.value>>]
        /\ Turn(Messages(same), NewField.key, 1, 1)
  BY DEF compare_struct_field
<1> DEFINE messages == Messages(same)
           said == Say(messages, NewField.key)
           q == [Item EXCEPT !.i = @ + 1, !.j = @ + 1, !.said = said]
<1>3. Report(messages) /\ Then(<<q>>) /\ <<q>> \in Seq({q})
  BY <1>2 DEF Turn
<1>4. Item \in [kind : {"members"}, news : Members, olds : Members, i : Nat, j : Nat,
                said : [MergeMessages -> SUBSET Int]]
  BY <1>1, WalkFacts DEF Walks, Comparing
<1>5. q.kind = "members" /\ q.news = Item.news /\ q.olds = Item.olds /\ q.i = Item.i + 1 /\ q.j = Item.j + 1
  <2> HIDE DEF said
  <2> QED BY <1>4
<1>6. ASSUME new = old PROVE Innocent(messages) /\ AmongItsOwn(q)
  <2>1. /\ OldField = f /\ f \in Fields /\ f \in Range(Item.news) /\ Item.news \in MembersIn(new)
        /\ Item.olds = Item.news /\ Item.j = Item.i
    BY <1>1, <1>6, OwnWalk
  <2>2. compare_type[<<f.type, f.type>>] /\ f.value \in Defaults
    BY <2>1, TypeIsItself DEF Fields, Defaults
  <2>3. messages \subseteq {"default"} /\ ("default" \in messages => same = FALSE)
    BY <2>1, <2>2
  <2>4. ASSUME "default" \in messages PROVE \E v \in ValuesOf(new) : Unordered[v]
    <3>1. compare_defaults[<<f.value, f.value>>] # {TRUE}
      BY <1>2, <2>1, <2>3, <2>4
    <3>2. f.value # NULL /\ Unordered[f.value]
      BY <2>2, <3>1, DefaultIsItself
    <3>3. f.value \in ValuesOf(new)
      <4> HIDE DEF f
      <4> QED BY <2>1, <3>2 DEF ValuesOf
    <3> QED BY <3>2, <3>3
  <2>5. AmongItsOwn(q)
    <3> HIDE DEF q
    <3> QED BY <1>5, <2>1 DEF AmongItsOwn
  <2> HIDE DEF messages
  <2> QED BY <2>3, <2>4, <2>5 DEF Innocent
<1> HIDE DEF messages, q
<1> DEFINE items == <<q>>
<1>7. items \in Seq({q}) /\ DOMAIN items = {1} /\ items[1] = q
  OBVIOUS
<1> HIDE DEF items
<1>8. Then(items)
  BY <1>3 DEF items
<1> QED BY <1>1, <1>3, <1>6, <1>7, <1>8, InnocentStep

LEMMA ComparedSilent ==
  ASSUME Inv, SilentInv, MembersCompared
  PROVE  SilentInv'
BY LastStep, NothingSaid DEF MembersCompared, Doing

LEMMA InitSilent == Init => SilentInv
<1> SUFFICES ASSUME Init PROVE SilentInv
  OBVIOUS
<1>1. SelfAuditIsSilent
  BY DEF Init, SelfAuditIsSilent
<1>2. ASSUME new = old, NEW k \in DOMAIN todo PROVE AmongItsOwn(todo[k])
  <2> DEFINE q == todo[k]
             namespaces == [kind |-> "namespaces", news |-> new.namespaces, old |-> old.namespaces]
  <2>1. q \in Range(todo)
    BY DEF Range
  <2> HIDE DEF q
  <2>2. \/ q.kind = "namespaces" /\ q.news = q.old
        \/ q.kind = "service" /\ q.news = new.services /\ q.old \in Range(q.news)
        \/ q.kind = "enum" /\ q.news = new.enums /\ q.old \in Range(q.news)
        \/ q.kind = "struct" /\ q.news \in {new.structs, new.xceptions} /\ q.old \in Range(q.news)
        \/ q.kind = "const" /\ q.news = new.consts /\ q.old \in Range(q.news)
    <3>1. namespaces.kind = "namespaces" /\ namespaces.news = namespaces.old
      BY <1>2
    <3> HIDE DEF namespaces
    <3>2. q = namespaces \/ q \in UNION {Range(Compare("service", new.services, old.services)),
            Range(Compare("enum", new.enums, old.enums)), Range(Compare("struct", new.structs, old.structs)),
            Range(Compare("struct", new.xceptions, old.xceptions)), Range(Compare("const", new.consts, old.consts))}
      BY <2>1, InitTodo DEF namespaces
    <3> QED BY <1>2, <3>1, <3>2, CompareKind
  <2>3. AmongItsOwn(q)
    BY <2>2 DEF AmongItsOwn
  <2> QED BY <2>3 DEF q
<1> QED BY <1>1, <1>2 DEF SilentInv

LEMMA NextSilent == Inv /\ SilentInv /\ [Next]_vars => SilentInv'
<1> SUFFICES ASSUME Inv, SilentInv, [Next]_vars PROVE SilentInv'
  OBVIOUS
<1>1. CASE compare_namespace
  BY <1>1, NamespaceSilent
<1>2. CASE \E kind \in {"service", "function", "enum", "struct", "const"} : Missing(kind)
  BY <1>2, MissingSilent
<1>3. CASE compare_services \/ compare_single_function \/ compare_structs
  BY <1>3, ServicesSilent, FunctionSilent, StructSilent
<1>4. CASE compare_enum_values \/ compare_consts
  BY <1>4, EnumSilent, ConstSilent
<1>5. CASE FieldRemoved \/ FieldAddedAtEnd \/ FieldAddedInMiddle \/ compare_struct_field
  BY <1>5, AlikeSilent, FieldSilent
<1>6. CASE MembersCompared
  BY <1>6, ComparedSilent
<1>7. CASE UNCHANGED vars
  BY ZenonT(40), <1>7 DEF vars, SilentInv, SelfAuditIsSilent, AmongItsOwn, MembersIn, ValuesOf
<1> QED BY <1>1, <1>2, <1>3, <1>4, <1>5, <1>6, <1>7 DEF Next

\* The audit of a file against itself finds nothing, but for the second name of an
\* enum value and the entries of maps (t_audit.cpp).
THEOREM SelfAuditSilent == Spec => []SelfAuditIsSilent
<1>1. SilentInv => SelfAuditIsSilent
  BY DEF SilentInv
<1> QED BY <1>1, InitInv, InitSilent, NextInv, NextSilent, PTL DEF Spec
=============================================================================
