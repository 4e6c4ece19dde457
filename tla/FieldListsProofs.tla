-------------------------- MODULE FieldListsProofs --------------------------
(****************************************************************************)
(* The lists of fields are consistent, for any declarations, options and     *)
(* width of an id: the order by id that t_struct::append searches is always  *)
(* an order, so that no id and no name is used twice in a list.              *)
(****************************************************************************)
EXTENDS FieldLists, SequenceTheorems, WellFoundedInduction, TLAPS

Field == [key : Int, req : Reqs, decl : Decls, attrs : BOOLEAN]
List == [members : Seq(Field), members_in_id_order : Seq(Field), pending : Field \cup {NULL}]
Structure == [kind : Kinds, members : Seq(Field), members_in_id_order : Seq(Field)]

TypeOK ==
  /\ g_allow_neg_field_keys \in BOOLEAN /\ g_strict \in BOOLEAN /\ g_arglist \in BOOLEAN
  /\ y_field_val \in Int
  /\ lists \in Seq(List)
  /\ structs \in Seq(Structure)

Inv == TypeOK /\ ListsAreConsistent

(****************************************************************************)
(* Ids and the binary search.                                                *)
(****************************************************************************)

\* A cast is an integer.
LEMMA CastType == ASSUME NEW n \in Int PROVE Cast(n) \in Int
BY Int32Assumption DEF Cast

\* The id of a declaration, and the next one, are integers.
LEMMA KeyType ==
  ASSUME NEW decl \in Decls, y_field_val \in Int
  PROVE  Key(decl) \in Int /\ NextFieldVal(decl) \in Int
<1>1. IsExplicit(decl) => decl.id \in Int
  BY DeclsAssumption DEF IsExplicit
<1>2. Key(decl) \in Int
  BY <1>1, CastType DEF Key
<1>3. y_field_val - 1 \in Int /\ (IsExplicit(decl) => decl.id - 1 \in Int)
  BY <1>1
<1> QED BY <1>2, <1>3, CastType DEF NextFieldVal

\* Less-than on the natural numbers as a relation that has minimal elements.
LessThan == {p \in Nat \X Nat : p[1] < p[2]}

LEMMA LessThanIsWellFounded == IsWellFoundedOn(LessThan, Nat)
BY NatLessThanWellFounded DEF OpToRel, LessThan

\* A set of natural numbers has a least element.
LEMMA LeastElement ==
  ASSUME NEW T, T \subseteq Nat, T # {}
  PROVE  \E i \in T : \A j \in T : i <= j
<1>1. PICK i \in T : \A j \in T : <<j, i>> \notin LessThan
  BY LessThanIsWellFounded, WFMin
<1>2. \A j, k \in Nat : j < k => <<j, k>> \in LessThan
  BY DEF LessThan
<1>3. i \in Nat /\ \A j \in T : j \in Nat /\ ~(j < i)
  BY <1>1, <1>2
<1> QED BY <1>3

\* The keys of a sequence of fields are integers.
LEMMA KeysOfFields ==
  ASSUME NEW s \in Seq(Field)
  PROVE  Len(s) \in Nat /\ \A i \in 1..Len(s) : s[i] \in Field /\ s[i].key \in Int
<1>1. \A i \in 1..Len(s) : s[i] \in Field
  BY ElementOfSeq
<1>2. \A i \in 1..Len(s) : s[i].key \in Int
  BY <1>1 DEF Field
<1> QED BY <1>1, <1>2

\* There is a first greater key, or an end.
LEMMA UpperBoundFacts ==
  ASSUME NEW s \in Seq(Field), NEW key \in Int
  PROVE  /\ UpperBound(s, key) \in 1..(Len(s) + 1)
         /\ \A j \in 1..(UpperBound(s, key) - 1) : s[j].key <= key
         /\ UpperBound(s, key) <= Len(s) => s[UpperBound(s, key)].key > key
<1> DEFINE T == {i \in 1..(Len(s) + 1) : i <= Len(s) => s[i].key > key}
<1>1. Len(s) \in Nat /\ \A i \in 1..Len(s) : s[i].key \in Int
  BY KeysOfFields
<1>2. Len(s) + 1 \in T /\ T \subseteq Nat
  BY <1>1
<1>3. PICK i \in T : \A j \in T : i <= j
  <2> HIDE DEF T
  <2> QED BY <1>2, LeastElement
<1>4. \A j \in 1..(i - 1) : s[j].key <= key
  <2> SUFFICES ASSUME NEW j \in 1..(i - 1) PROVE s[j].key <= key
    OBVIOUS
  <2>1. i \in 1..(Len(s) + 1)
    BY <1>3
  <2>2. j \notin T /\ j \in 1..Len(s) /\ j \in 1..(Len(s) + 1)
    BY <1>1, <1>3, <2>1
  <2> QED BY <1>1, <2>2
<1>5. /\ i \in 1..(Len(s) + 1)
      /\ \A j \in 1..(i - 1) : s[j].key <= key
      /\ i <= Len(s) => s[i].key > key
  BY <1>3, <1>4
<1> QED BY <1>5 DEF UpperBound

\* A field that does not clash has a place of its own in the order.
LEMMA PlaceFacts ==
  ASSUME NEW list \in List, IsConsistent(list), NEW f \in Field, ~Clashes(list, f),
         NEW b, b = UpperBound(list.members_in_id_order, f.key)
  PROVE  LET s == list.members_in_id_order IN
         /\ b \in 1..(Len(s) + 1)
         /\ \A j \in 1..Len(s) : j < b => s[j].key < f.key
         /\ \A j \in 1..Len(s) : j >= b => s[j].key > f.key
<1> DEFINE s == list.members_in_id_order
<1>1. s \in Seq(Field) /\ Len(s) \in Nat /\ f.key \in Int
  BY DEF List, Field
<1>2. \A i \in 1..Len(s) : s[i].key \in Int
  BY <1>1, KeysOfFields
<1>3. /\ b \in 1..(Len(s) + 1)
      /\ \A j \in 1..(b - 1) : s[j].key <= f.key
      /\ b <= Len(s) => s[b].key > f.key
  BY <1>1, UpperBoundFacts
<1>4. \A i, j \in 1..Len(s) : i < j => s[i].key < s[j].key
  BY DEF IsConsistent, InIdOrder
<1>5. b > 1 => s[b - 1].key < f.key
  <2>1. b > 1 => s[b - 1].key # f.key
    BY DEF Clashes
  <2>2. b > 1 => b - 1 \in 1..(b - 1) /\ b - 1 \in 1..Len(s)
    BY <1>1, <1>3
  <2> QED BY <1>1, <1>2, <1>3, <2>1, <2>2
<1>6. ASSUME NEW j \in 1..Len(s), j < b PROVE s[j].key < f.key
  <2>1. b > 1 /\ b - 1 \in 1..Len(s) /\ (j = b - 1 \/ j < b - 1)
    BY <1>1, <1>3, <1>6
  <2> QED BY <1>1, <1>2, <1>4, <1>5, <2>1
<1>7. ASSUME NEW j \in 1..Len(s), j >= b PROVE s[j].key > f.key
  <2>1. b \in 1..Len(s) /\ (j = b \/ b < j)
    BY <1>1, <1>3, <1>7
  <2> QED BY <1>1, <1>2, <1>3, <1>4, <2>1
<1> QED BY <1>3, <1>6, <1>7

\* What an insertion makes.
LEMMA InsertFacts ==
  ASSUME NEW s \in Seq(Field), NEW b \in 1..(Len(s) + 1), NEW f \in Field
  PROVE  /\ Insert(s, b, f) \in Seq(Field)
         /\ Len(Insert(s, b, f)) = Len(s) + 1
         /\ \A j \in 1..(Len(s) + 1) :
              Insert(s, b, f)[j] = IF j < b THEN s[j] ELSE IF j = b THEN f ELSE s[j - 1]
         /\ Elements(Insert(s, b, f)) = Elements(s) \cup {f}
<1> DEFINE t == Insert(s, b, f)
<1>1. Len(s) \in Nat /\ \A i \in 1..Len(s) : s[i] \in Field
  BY ElementOfSeq
<1>2. \A j \in 1..(Len(s) + 1) : t[j] = IF j < b THEN s[j] ELSE IF j = b THEN f ELSE s[j - 1]
  BY DEF Insert
<1>3. \A j \in 1..(Len(s) + 1) : t[j] \in Field
  <2> SUFFICES ASSUME NEW j \in 1..(Len(s) + 1) PROVE t[j] \in Field
    OBVIOUS
  <2>1. CASE j < b
    BY <1>1, <1>2, <2>1
  <2>2. CASE j = b
    BY <1>2, <2>2
  <2>3. CASE j > b
    <3>1. j - 1 \in 1..Len(s) /\ ~(j < b) /\ j # b
      BY <1>1, <2>3
    <3> QED BY <1>1, <1>2, <3>1
  <2> QED BY <1>1, <2>1, <2>2, <2>3
<1>4. t \in [1..(Len(s) + 1) -> Field]
  BY <1>3 DEF Insert
<1>5. t \in Seq(Field) /\ Len(t) = Len(s) + 1
  BY <1>1, <1>4
<1>6. ASSUME NEW x \in Elements(t) PROVE x \in Elements(s) \cup {f}
  <2>1. PICK j \in 1..(Len(s) + 1) : x = t[j]
    BY <1>5 DEF Elements
  <2>2. CASE j < b
    BY <1>1, <1>2, <2>1, <2>2 DEF Elements
  <2>3. CASE j = b
    BY <1>2, <2>1, <2>3
  <2>4. CASE j > b
    <3>1. j - 1 \in 1..Len(s) /\ ~(j < b) /\ j # b
      BY <1>1, <2>4
    <3> QED BY <1>2, <2>1, <3>1 DEF Elements
  <2> QED BY <1>1, <2>2, <2>3, <2>4
<1>7. ASSUME NEW x \in Elements(s) \cup {f} PROVE x \in Elements(t)
  <2>1. CASE x = f
    BY <1>1, <1>2, <1>5, <2>1 DEF Elements
  <2>2. CASE x \in Elements(s)
    <3>1. PICK i \in 1..Len(s) : x = s[i]
      BY <2>2 DEF Elements
    <3>2. CASE i < b
      <4>1. i \in 1..(Len(s) + 1) /\ x = t[i]
        BY <1>1, <1>2, <3>1, <3>2
      <4> QED BY <1>5, <4>1 DEF Elements
    <3>3. CASE i >= b
      <4>1. i + 1 \in 1..(Len(s) + 1) /\ ~(i + 1 < b) /\ i + 1 # b /\ (i + 1) - 1 = i
        BY <1>1, <3>3
      <4>2. x = t[i + 1]
        BY <1>2, <3>1, <4>1
      <4> QED BY <1>5, <4>1, <4>2 DEF Elements
    <3> QED BY <1>1, <3>2, <3>3
  <2> QED BY <1>7, <2>1, <2>2
<1> QED BY <1>2, <1>5, <1>6, <1>7

(****************************************************************************)
(* What append and set_union do to one list.                                 *)
(****************************************************************************)

\* A field that clashes with no other may join the list.
LEMMA AppendIsConsistent ==
  ASSUME NEW list \in List, IsConsistent(list), NEW f \in Field, ~Clashes(list, f),
         NEW longer,
         longer.members = Append(list.members, f),
         longer.members_in_id_order =
           Insert(list.members_in_id_order,
                  UpperBound(list.members_in_id_order, f.key), f)
  PROVE  IsConsistent(longer)
<1> DEFINE s == list.members_in_id_order
           b == UpperBound(s, f.key)
           t == longer.members_in_id_order
           m == list.members
           n == longer.members
<1>1. /\ s \in Seq(Field) /\ m \in Seq(Field)
      /\ Len(s) \in Nat /\ Len(m) \in Nat /\ f.key \in Int
  BY DEF List, Field
<1>2. /\ \A i \in 1..Len(s) : s[i] \in Field /\ s[i].key \in Int
      /\ \A i \in 1..Len(m) : m[i] \in Field /\ m[i].key \in Int
  BY <1>1, KeysOfFields
<1>3. /\ b \in 1..(Len(s) + 1)
      /\ \A j \in 1..Len(s) : j < b => s[j].key < f.key
      /\ \A j \in 1..Len(s) : j >= b => s[j].key > f.key
  BY PlaceFacts
<1>4. /\ Len(t) = Len(s) + 1
      /\ \A j \in 1..(Len(s) + 1) :
           t[j] = IF j < b THEN s[j] ELSE IF j = b THEN f ELSE s[j - 1]
      /\ Elements(t) = Elements(s) \cup {f}
  <2>1. t = Insert(s, b, f)
    OBVIOUS
  <2>2. s \in Seq(Field) /\ b \in 1..(Len(s) + 1) /\ f \in Field
    BY <1>1, <1>3
  <2> HIDE DEF s, b, t
  <2>3. Len(Insert(s, b, f)) = Len(s) + 1
    BY <2>2, InsertFacts
  <2>4. \A j \in 1..(Len(s) + 1) :
           Insert(s, b, f)[j] = IF j < b THEN s[j] ELSE IF j = b THEN f ELSE s[j - 1]
    BY <2>2, InsertFacts
  <2>5. Elements(Insert(s, b, f)) = Elements(s) \cup {f}
    BY <2>2, InsertFacts
  <2> QED BY <2>1, <2>3, <2>4, <2>5
<1>5. InIdOrder(t)
  <2> SUFFICES ASSUME NEW i \in 1..(Len(s) + 1), NEW j \in 1..(Len(s) + 1), i < j
               PROVE  t[i].key < t[j].key
    BY <1>4 DEF InIdOrder
  <2>1. \A k, l \in 1..Len(s) : k < l => s[k].key < s[l].key
    BY DEF IsConsistent, InIdOrder
  <2>2. CASE j < b
    <3>1. i \in 1..Len(s) /\ j \in 1..Len(s) /\ i < b
      BY <1>1, <1>3, <2>2
    <3>2. t[i] = s[i] /\ t[j] = s[j]
      BY <1>4, <2>2, <3>1
    <3> QED BY <2>1, <3>1, <3>2
  <2>3. CASE j = b
    <3>1. i \in 1..Len(s) /\ i < b
      BY <1>1, <1>3, <2>3
    <3>2. t[i] = s[i] /\ t[j] = f
      BY <1>4, <2>3, <3>1
    <3> QED BY <1>3, <3>1, <3>2
  <2>4. CASE j > b /\ i < b
    <3>1. i \in 1..Len(s) /\ j - 1 \in 1..Len(s) /\ j - 1 >= b /\ i < j - 1
      BY <1>1, <1>3, <2>4
    <3>2. t[i] = s[i] /\ t[j] = s[j - 1]
      BY <1>1, <1>3, <1>4, <2>4
    <3> QED BY <2>1, <3>1, <3>2
  <2>5. CASE j > b /\ i = b
    <3>1. j - 1 \in 1..Len(s) /\ j - 1 >= b
      BY <1>1, <1>3, <2>5
    <3>2. t[i] = f /\ t[j] = s[j - 1]
      BY <1>1, <1>3, <1>4, <2>5
    <3> QED BY <1>1, <1>2, <1>3, <3>1, <3>2
  <2>6. CASE j > b /\ i > b
    <3>1. i - 1 \in 1..Len(s) /\ j - 1 \in 1..Len(s) /\ i - 1 < j - 1
      BY SMTT(40), <1>1, <1>3, <2>6
    <3>2. t[i] = s[i - 1] /\ t[j] = s[j - 1]
      BY <1>1, <1>3, <1>4, <2>6
    <3> QED BY <2>1, <3>1, <3>2
  <2> QED BY <1>1, <1>3, <2>2, <2>3, <2>4, <2>5, <2>6
<1>6. /\ Len(n) = Len(m) + 1
      /\ \A i \in 1..Len(m) : n[i] = m[i]
      /\ n[Len(m) + 1] = f
  BY <1>1
<1>7. Elements(n) = Elements(m) \cup {f}
  BY <1>1, <1>6 DEF Elements
<1>8. Elements(t) = Elements(n)
  BY <1>4, <1>7 DEF IsConsistent
<1>9. ASSUME NEW i \in 1..Len(m) PROVE m[i].key # f.key /\ ~SameName(m[i], f)
  <2>1. m[i] \in Elements(s)
    BY DEF Elements, IsConsistent
  <2>2. PICK k \in 1..Len(s) : m[i] = s[k]
    BY <2>1 DEF Elements
  <2>3. s[k].key # f.key
    <3>1. s[k].key \in Int /\ (k < b \/ k >= b)
      BY <1>1, <1>2, <1>3
    <3>2. s[k].key < f.key \/ s[k].key > f.key
      BY <1>3, <3>1
    <3> QED BY <1>1, <3>1, <3>2
  <2>4. ~SameName(s[k], f)
    BY DEF Clashes
  <2> QED BY <2>2, <2>3, <2>4
<1>10. ASSUME NEW i \in 1..Len(n), NEW j \in 1..Len(n), i # j
       PROVE  n[i].key # n[j].key /\ ~SameName(n[i], n[j])
  <2>1. CASE i \in 1..Len(m) /\ j \in 1..Len(m)
    BY <1>6, <1>10, <2>1 DEF IsConsistent
  <2>2. CASE i \in 1..Len(m) /\ j = Len(m) + 1
    BY <1>6, <1>9, <2>2
  <2>3. CASE i = Len(m) + 1 /\ j \in 1..Len(m)
    BY <1>6, <1>9, <2>3 DEF SameName
  <2> QED BY <1>1, <1>6, <1>10, <2>1, <2>2, <2>3
<1> QED BY <1>5, <1>8, <1>10 DEF IsConsistent

\* A member keeps its id and its name, whatever it is a member of.
LEMMA AsMemberFacts ==
  ASSUME NEW kind, NEW f \in Field
  PROVE  /\ AsMember(kind, f) \in Field
         /\ AsMember(kind, f).key = f.key
         /\ AsMember(kind, f).decl = f.decl
<1>1. f.key \in Int /\ f.req \in Reqs /\ f.decl \in Decls /\ f.attrs \in BOOLEAN
  BY DEF Field
<1> QED BY <1>1 DEF AsMember, ValidateUnionMember, Field, Reqs

\* The members of a complete list, one by one.
LEMMA MembersFacts ==
  ASSUME NEW kind, NEW s \in Seq(Field)
  PROVE  /\ Members(kind, s) \in Seq(Field)
         /\ Len(Members(kind, s)) = Len(s)
         /\ \A i \in 1..Len(s) :
              /\ Members(kind, s)[i] = AsMember(kind, s[i])
              /\ Members(kind, s)[i].key = s[i].key
              /\ Members(kind, s)[i].decl = s[i].decl
         /\ Elements(Members(kind, s)) = {AsMember(kind, f) : f \in Elements(s)}
<1> DEFINE t == Members(kind, s)
<1>1. Len(s) \in Nat /\ \A i \in 1..Len(s) : s[i] \in Field
  BY KeysOfFields
<1>2. \A i \in 1..Len(s) : t[i] = AsMember(kind, s[i])
  BY DEF Members
<1>3. \A i \in 1..Len(s) : /\ t[i] \in Field
                           /\ t[i].key = s[i].key
                           /\ t[i].decl = s[i].decl
  BY <1>1, <1>2, AsMemberFacts
<1>4. t \in [1..Len(s) -> Field]
  BY <1>3 DEF Members
<1>5. t \in Seq(Field) /\ Len(t) = Len(s)
  BY <1>1, <1>4
<1>6. Elements(t) = {AsMember(kind, f) : f \in Elements(s)}
  BY <1>2, <1>5 DEF Elements
<1> QED BY <1>2, <1>3, <1>5, <1>6

\* What set_union and set_name do to the members leaves the list consistent.
LEMMA MembersAreConsistent ==
  ASSUME NEW kind, NEW list \in List, IsConsistent(list), NEW struct,
         struct.members = Members(kind, list.members),
         struct.members_in_id_order = Members(kind, list.members_in_id_order)
  PROVE  IsConsistent(struct)
<1> DEFINE s == list.members_in_id_order
           m == list.members
<1>1. s \in Seq(Field) /\ m \in Seq(Field)
  BY DEF List
<1>2. InIdOrder(struct.members_in_id_order)
  <2>1. InIdOrder(s)
    BY DEF IsConsistent
  <2> QED BY SMTT(40), <1>1, <2>1, MembersFacts DEF InIdOrder
<1>3. Elements(struct.members_in_id_order) = Elements(struct.members)
  <2>1. Elements(s) = Elements(m)
    BY DEF IsConsistent
  <2>2. /\ Elements(Members(kind, s)) = {AsMember(kind, f) : f \in Elements(s)}
        /\ Elements(Members(kind, m)) = {AsMember(kind, f) : f \in Elements(m)}
    BY <1>1, MembersFacts
  <2> QED BY <2>1, <2>2
<1>4. \A i, j \in 1..Len(struct.members) : i # j =>
        /\ struct.members[i].key # struct.members[j].key
        /\ ~SameName(struct.members[i], struct.members[j])
  <2>1. \A i, j \in 1..Len(m) : i # j =>
          m[i].key # m[j].key /\ ~SameName(m[i], m[j])
    BY DEF IsConsistent
  <2>2. /\ Len(struct.members) = Len(m)
        /\ \A i \in 1..Len(m) : /\ struct.members[i].key = m[i].key
                               /\ struct.members[i].decl = m[i].decl
    <3> HIDE DEF m, s
    <3>1. struct.members = Members(kind, m)
      BY DEF m
    <3> QED BY SMTT(40), <1>1, <3>1, MembersFacts
  <2> QED BY <2>1, <2>2 DEF SameName
<1> QED BY <1>2, <1>3, <1>4 DEF IsConsistent

(****************************************************************************)
(* The stack of lists.                                                       *)
(****************************************************************************)
AllConsistent(s) == \A n \in 1..Len(s) : IsConsistent(s[n])

\* A list is put on top of others.
LEMMA PushFacts ==
  ASSUME NEW s \in Seq(List), AllConsistent(s), NEW list \in List, IsConsistent(list)
  PROVE  <<list>> \o s \in Seq(List) /\ AllConsistent(<<list>> \o s)
<1> DEFINE t == <<list>> \o s
<1>1. Len(s) \in Nat /\ <<list>> \in Seq(List) /\ Len(<<list>>) = 1
  OBVIOUS
<1>2. t \in Seq(List) /\ Len(t) = Len(s) + 1
  BY <1>1
<1>3. t[1] = list /\ \A n \in 2..Len(t) : n - 1 \in 1..Len(s) /\ t[n] = s[n - 1]
  BY <1>1, <1>2
<1>4. ASSUME NEW n \in 1..Len(t) PROVE IsConsistent(t[n])
  <2>1. CASE n = 1
    BY <1>3, <2>1
  <2>2. CASE n \in 2..Len(t)
    BY <1>3, <2>2 DEF AllConsistent
  <2> QED BY <1>1, <1>2, <2>1, <2>2
<1> QED BY <1>2, <1>4 DEF AllConsistent

\* A list is taken off the top of others.
LEMMA PopFacts ==
  ASSUME NEW s \in Seq(List), AllConsistent(s), s # <<>>
  PROVE  /\ s[1] \in List /\ IsConsistent(s[1])
         /\ Tail(s) \in Seq(List) /\ AllConsistent(Tail(s))
<1>1. Len(s) \in Nat /\ Len(s) >= 1
  BY EmptySeq
<1>2. s[1] \in List /\ IsConsistent(s[1])
  BY <1>1, ElementOfSeq DEF AllConsistent
<1>3. /\ Tail(s) \in Seq(List) /\ Len(Tail(s)) = Len(s) - 1
      /\ \A n \in 1..Len(Tail(s)) : Tail(s)[n] = s[n + 1]
  BY HeadTailProperties
<1>4. ASSUME NEW n \in 1..Len(Tail(s)) PROVE IsConsistent(Tail(s)[n])
  BY <1>1, <1>3 DEF AllConsistent
<1> QED BY <1>2, <1>3, <1>4 DEF AllConsistent

\* The orders of a list do not depend on the field that is pending.
LEMMA PendingIsNoMember ==
  ASSUME NEW list \in List, IsConsistent(list), NEW other,
         other.members = list.members,
         other.members_in_id_order = list.members_in_id_order
  PROVE  IsConsistent(other)
BY DEF IsConsistent

\* The empty list.
LEMMA EmptyList ==
  ASSUME NEW list,
         list = [members |-> <<>>, members_in_id_order |-> <<>>, pending |-> NULL]
  PROVE  list \in List /\ IsConsistent(list)
<1>1. list.members = <<>> /\ list.members_in_id_order = <<>>
  OBVIOUS
<1>2. <<>> \in Seq(Field) /\ Len(<<>>) = 0
  OBVIOUS
<1>3. list \in List
  BY <1>2 DEF List
<1> QED BY <1>1, <1>2, <1>3 DEF IsConsistent, InIdOrder, Elements

(****************************************************************************)
(* The actions.                                                              *)
(****************************************************************************)

\* What the actions leave of the lists, when they replace the top one.
LEMMA SetTopKeepsInv ==
  ASSUME Inv, lists # <<>>, NEW list \in List, IsConsistent(list), SetTop(list)
  PROVE  lists' \in Seq(List) /\ AllConsistent(lists')
<1>1. lists \in Seq(List) /\ AllConsistent(lists)
  BY DEF Inv, TypeOK, ListsAreConsistent, AllConsistent
<1>2. Tail(lists) \in Seq(List) /\ AllConsistent(Tail(lists))
  BY <1>1, PopFacts
<1> QED BY <1>2, PushFacts DEF SetTop

\* The invariant holds before any list is read.
LEMMA ListInitInv == ListInit => Inv
<1> SUFFICES ASSUME ListInit PROVE Inv
  OBVIOUS
<1>1. lists = <<>> /\ structs = <<>>
  BY DEF ListInit
<1>2. lists \in Seq(List) /\ structs \in Seq(Structure)
  BY <1>1
<1>3. TypeOK
  <2>1. y_field_val \in Int
    BY DEF ListInit
  <2>2. g_arglist \in BOOLEAN
    BY DEF ListInit
  <2>3. g_allow_neg_field_keys \in BOOLEAN /\ g_strict \in BOOLEAN
    BY DEF ListInit
  <2> QED BY <1>2, <2>1, <2>2, <2>3 DEF TypeOK
<1>4. Len(lists) = 0 /\ Len(structs) = 0
  BY <1>1
<1>5. ListsAreConsistent
  BY <1>4 DEF ListsAreConsistent
<1> QED BY <1>3, <1>5 DEF Inv

\* The invariant says the same of the lists as AllConsistent.
LEMMA InvFacts ==
  ASSUME Inv
  PROVE  /\ TypeOK
         /\ AllConsistent(lists)
         /\ \A n \in 1..Len(structs) : IsConsistent(structs[n])
BY DEF Inv, ListsAreConsistent, AllConsistent

\* A field list begins.
LEMMA OpenListInv == Inv /\ OpenList => Inv'
<1> SUFFICES ASSUME Inv, OpenList PROVE Inv'
  OBVIOUS
<1> DEFINE new == [members |-> <<>>, members_in_id_order |-> <<>>, pending |-> NULL]
           top == [Top EXCEPT !.pending.attrs = TRUE]
           outer == IF lists = <<>> THEN lists ELSE <<top>> \o Tail(lists)
<1>1. lists \in Seq(List) /\ AllConsistent(lists)
  BY InvFacts DEF TypeOK
<1>2. outer \in Seq(List) /\ AllConsistent(outer)
  <2>1. CASE lists = <<>>
    BY <1>1, <2>1
  <2>2. CASE lists # <<>>
    <3>1. /\ Top \in List /\ IsConsistent(Top)
          /\ Tail(lists) \in Seq(List) /\ AllConsistent(Tail(lists))
      BY <1>1, <2>2, PopFacts DEF Top
    <3>2. Pending \in Field
      BY <2>2, <3>1 DEF OpenList, Pending, List
    <3>3. /\ top.members = Top.members
          /\ top.members_in_id_order = Top.members_in_id_order
          /\ top \in List
      BY <3>1, <3>2 DEF List, Field, Pending
    <3>4. IsConsistent(top)
      BY <3>1, <3>3, PendingIsNoMember
    <3> QED BY <2>2, <3>1, <3>3, <3>4, PushFacts
  <2> QED BY <2>1, <2>2
<1>3. new \in List /\ IsConsistent(new)
  BY EmptyList
<1>4. lists' = <<new>> \o outer
  BY DEF OpenList
<1>5. lists' \in Seq(List) /\ AllConsistent(lists')
  <2> HIDE DEF new, outer
  <2> QED BY <1>2, <1>3, <1>4, PushFacts
<1>6. TypeOK'
  BY <1>5, InvFacts DEF OpenList, TypeOK, options
<1>7. ListsAreConsistent'
  BY <1>5, InvFacts DEF OpenList, ListsAreConsistent, AllConsistent
<1> QED BY <1>6, <1>7 DEF Inv

\* A field's id and requiredness are read.
LEMMA ReadIdentifierInv ==
  ASSUME Inv, NEW decl \in Decls, ReadIdentifier(decl) PROVE Inv'
<1> DEFINE pending == [key |-> Key(decl), req |-> Requiredness(decl),
                       decl |-> decl, attrs |-> FALSE]
           top == [Top EXCEPT !.pending = pending]
<1>1. lists \in Seq(List) /\ AllConsistent(lists) /\ lists # <<>> /\ y_field_val \in Int
  BY InvFacts DEF TypeOK, ReadIdentifier
<1>2. Top \in List /\ IsConsistent(Top)
  BY <1>1, PopFacts DEF Top
<1>3. Key(decl) \in Int /\ NextFieldVal(decl) \in Int
  BY <1>1, KeyType
<1>4. Requiredness(decl) \in Reqs
  BY DeclsAssumption DEF Requiredness, Reqs
<1>5. pending \in Field
  BY <1>3, <1>4 DEF Field
<1>6. /\ top.members = Top.members
      /\ top.members_in_id_order = Top.members_in_id_order
      /\ top \in List
  <2> HIDE DEF pending
  <2> QED BY <1>2, <1>5 DEF List
<1>7. IsConsistent(top)
  BY <1>2, <1>6, PendingIsNoMember
<1>8. SetTop(top)
  BY DEF ReadIdentifier
<1>9. lists' \in Seq(List) /\ AllConsistent(lists')
  <2> HIDE DEF top
  <2> QED BY <1>1, <1>6, <1>7, <1>8, SetTopKeepsInv
<1>10. TypeOK'
  BY <1>3, <1>9, InvFacts DEF ReadIdentifier, TypeOK, options
<1>11. ListsAreConsistent'
  BY <1>9, InvFacts DEF ReadIdentifier, ListsAreConsistent, AllConsistent
<1> QED BY <1>10, <1>11 DEF Inv

\* A field joins the list on top.
LEMMA AppendFieldInv == Inv /\ AppendField => Inv'
<1> SUFFICES ASSUME Inv, AppendField PROVE Inv'
  OBVIOUS
<1> DEFINE sorted == Top.members_in_id_order
           longer == [members |-> Append(Top.members, Pending), pending |-> NULL,
                      members_in_id_order |->
                        Insert(sorted, UpperBound(sorted, Pending.key), Pending)]
<1>1. lists \in Seq(List) /\ AllConsistent(lists) /\ lists # <<>>
  BY InvFacts DEF TypeOK, AppendField
<1>2. Top \in List /\ IsConsistent(Top)
  BY <1>1, PopFacts DEF Top
<1>3. Pending \in Field /\ ~Clashes(Top, Pending)
  BY <1>2 DEF AppendField, Pending, List
<1>4. /\ longer.members = Append(Top.members, Pending)
      /\ longer.members_in_id_order =
           Insert(sorted, UpperBound(sorted, Pending.key), Pending)
  OBVIOUS
<1>5. IsConsistent(longer)
  <2> HIDE DEF longer
  <2> QED BY <1>2, <1>3, <1>4, AppendIsConsistent
<1>6. longer \in List
  <2>1. sorted \in Seq(Field) /\ Top.members \in Seq(Field) /\ Pending.key \in Int
    BY <1>2, <1>3 DEF List, Field
  <2>2. UpperBound(sorted, Pending.key) \in 1..(Len(sorted) + 1)
    BY <2>1, UpperBoundFacts
  <2>3. longer.members_in_id_order \in Seq(Field)
    BY <1>3, <2>1, <2>2, InsertFacts
  <2>4. longer.members \in Seq(Field)
    BY <1>3, <2>1
  <2> QED BY <2>3, <2>4 DEF List
<1>7. SetTop(longer)
  BY DEF AppendField
<1>8. lists' \in Seq(List) /\ AllConsistent(lists')
  <2> HIDE DEF longer
  <2> QED BY <1>1, <1>5, <1>6, <1>7, SetTopKeepsInv
<1>9. TypeOK'
  BY <1>8, InvFacts DEF AppendField, TypeOK, options
<1>10. ListsAreConsistent'
  BY <1>8, InvFacts DEF AppendField, ListsAreConsistent, AllConsistent
<1> QED BY <1>9, <1>10 DEF Inv

\* A list of attributes ends.
LEMMA CloseListInv == Inv /\ CloseList => Inv'
<1> SUFFICES ASSUME Inv, CloseList PROVE Inv'
  OBVIOUS
<1>1. lists \in Seq(List) /\ AllConsistent(lists) /\ lists # <<>>
  BY InvFacts DEF TypeOK, CloseList
<1>2. lists' \in Seq(List) /\ AllConsistent(lists')
  BY <1>1, PopFacts DEF CloseList
<1>3. TypeOK'
  BY <1>2, InvFacts DEF CloseList, TypeOK, options
<1>4. ListsAreConsistent'
  BY <1>2, InvFacts DEF CloseList, ListsAreConsistent, AllConsistent
<1> QED BY <1>3, <1>4 DEF Inv

\* The list of a struct, a union, an exception or a function ends.
LEMMA CloseStructInv ==
  ASSUME Inv, NEW kind \in Kinds, CloseStruct(kind) PROVE Inv'
<1> DEFINE struct == [kind |-> kind, members |-> Members(kind, Top.members),
                      members_in_id_order |-> Members(kind, Top.members_in_id_order)]
<1>1. lists \in Seq(List) /\ AllConsistent(lists) /\ lists # <<>>
  <2>1. Len(lists) = 1
    BY DEF CloseStruct
  <2>2. lists \in Seq(List) /\ AllConsistent(lists)
    BY InvFacts DEF TypeOK
  <2> QED BY <2>1, <2>2
<1>2. Top \in List /\ IsConsistent(Top)
  BY <1>1, PopFacts DEF Top
<1>3. /\ struct.members = Members(kind, Top.members)
      /\ struct.members_in_id_order = Members(kind, Top.members_in_id_order)
  OBVIOUS
<1>4. struct \in Structure
  <2>1. Top.members \in Seq(Field) /\ Top.members_in_id_order \in Seq(Field)
    BY <1>2 DEF List
  <2>2. struct.members \in Seq(Field) /\ struct.members_in_id_order \in Seq(Field)
    BY <2>1, MembersFacts
  <2> QED BY <2>2 DEF Structure
<1>5. IsConsistent(struct)
  <2> HIDE DEF struct
  <2> QED BY <1>2, <1>3, MembersAreConsistent
<1>6. structs \in Seq(Structure) /\ \A n \in 1..Len(structs) : IsConsistent(structs[n])
  BY InvFacts DEF TypeOK
<1>7. structs' = Append(structs, struct) /\ lists' = <<>>
  BY DEF CloseStruct
<1>8. /\ structs' \in Seq(Structure)
      /\ \A n \in 1..Len(structs') : IsConsistent(structs'[n])
  <2> HIDE DEF struct
  <2>1. /\ structs' \in Seq(Structure) /\ Len(structs') = Len(structs) + 1
        /\ \A n \in 1..Len(structs) : structs'[n] = structs[n]
        /\ structs'[Len(structs) + 1] = struct
    BY <1>4, <1>6, <1>7
  <2>2. Len(structs) \in Nat
    BY <1>6
  <2> QED BY <1>5, <1>6, <2>1, <2>2
<1>9. TypeOK'
  BY <1>7, <1>8, InvFacts DEF CloseStruct, TypeOK, options
<1>10. ListsAreConsistent'
  BY <1>7, <1>8 DEF ListsAreConsistent
<1> QED BY <1>9, <1>10 DEF Inv

\* Every step keeps the invariant.
LEMMA ListNextInv == Inv /\ [ListNext]_listVars => Inv'
<1> SUFFICES ASSUME Inv, [ListNext]_listVars PROVE Inv'
  OBVIOUS
<1>1. CASE FlagArgs
  BY <1>1 DEF FlagArgs, Inv, TypeOK, ListsAreConsistent, options
<1>2. CASE UnflagArgs
  BY <1>2 DEF UnflagArgs, Inv, TypeOK, ListsAreConsistent, options
<1>3. CASE OpenList
  BY <1>3, OpenListInv
<1>4. CASE \E decl \in Decls : ReadIdentifier(decl)
  BY <1>4, ReadIdentifierInv
<1>5. CASE AppendField
  BY <1>5, AppendFieldInv
<1>6. CASE CloseList
  BY <1>6, CloseListInv
<1>7. CASE \E kind \in Kinds : CloseStruct(kind)
  BY <1>7, CloseStructInv
<1>8. CASE \E outcome \in Outcomes : EndParse(outcome)
  BY <1>8 DEF EndParse, Inv, TypeOK, ListsAreConsistent, options
<1>9. CASE UNCHANGED listVars
  BY <1>9 DEF listVars, options, Inv, TypeOK, ListsAreConsistent
<1> QED BY <1>1, <1>2, <1>3, <1>4, <1>5, <1>6, <1>7, <1>8, <1>9 DEF ListNext

\* Whatever lists are read, and however they nest, every field has the shape the
\* grammar's actions give it.
THEOREM ListsHaveTheirType == ListSpec => []TypeOK
<1>1. Inv => TypeOK
  BY DEF Inv
<1> QED BY ListInitInv, ListNextInv, <1>1, PTL DEF ListSpec

\* No id and no name is used twice in a list, whatever the declarations, the
\* options and the width of an id: t_struct::append's binary search never misses.
THEOREM ListsStayConsistent == ListSpec => []ListsAreConsistent
<1>1. Inv => ListsAreConsistent
  BY DEF Inv
<1> QED BY ListInitInv, ListNextInv, <1>1, PTL DEF ListSpec

=============================================================================
