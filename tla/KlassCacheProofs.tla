-------------------------- MODULE KlassCacheProofs --------------------------
(****************************************************************************)
(* What the extension remembers of classes is true of them, for any classes, *)
(* addresses, class bodies and bounds.                                       *)
(****************************************************************************)
EXTENDS KlassCache, TLAPS

\* The steps of a definition up to the one that caches the class.
Steps == {"FIELDS", "accessors", "FIELD_SYMS", "cache_fields"}

TypeOK ==
  /\ bound \in [Constants -> Klass \cup {NULL}]
  /\ life \in [Klass -> {"unborn", "live", "dead"}]
  /\ addr \in [Klass -> Address \cup {NULL}]
  /\ super \in [Klass -> Klass \cup {"Struct", "Union", NULL}]
  /\ body \in [Klass -> Version \cup {NULL}]
  /\ pc \in [Klass -> Steps \cup {"DEFAULT_VALUES", "struct_fields", "ready"}]
  /\ loads \in [Klass -> 0..MaxLoads]
  /\ FIELDS \in [Klass -> FieldMap \cup {NULL}]
  /\ klassCache \in [Address -> InfoMap \cup {NULL}]
  /\ unions \subseteq Address
  /\ stale \subseteq Klass

\* Classes have addresses from their birth on, living ones have one each, and what
\* they refer to lives.
Ref(k, n) == FIELDS[k][n].klass
LifeInv ==
  /\ \A k \in Klass : life[k] = "unborn" => FIELDS[k] = NULL /\ k \notin stale
  /\ \A k \in Klass : life[k] # "unborn" => addr[k] \in Address /\ loads[k] >= 1
  /\ \A j, k \in Live : addr[j] = addr[k] => j = k
  /\ \A c \in Constants : bound[c] # NULL => bound[c] \in Live
  /\ \A k \in Live : super[k] \in Klass => super[k] \in Live
  /\ \A k \in Live : FIELDS[k] # NULL => \A n \in DOMAIN FIELDS[k] : Ref(k, n) # NULL => Ref(k, n) \in Live

\* A class that is being defined, or is bound to the constant of a generated one, has
\* a body with FIELDS; they are set and cached once it is past those steps.
BodyInv ==
  /\ \A k \in Live : \E c \in Constants : body[k] \in Versions[c]
  /\ \A c \in Constants : bound[c] # NULL /\ Generated(c) => body[bound[c]].fields # NULL
  /\ \A k \in Live : pc[k] # "ready" => body[k].fields # NULL
  /\ \A k \in Live : body[k].fields # NULL /\ pc[k] # "FIELDS" => FIELDS[k] # NULL

CachedInv ==
  /\ \A k \in Live : body[k].fields # NULL /\ pc[k] \notin Steps => klassCache[addr[k]] # NULL
  /\ \A k \in Live : FIELDS[k] # NULL => \A n \in DOMAIN FIELDS[k] :
       Ref(k, n) \in {NULL, k} \/ klassCache[addr[Ref(k, n)]] # NULL

\* Whatever is known of an address is known of a class that was born there ...
OwnerInv ==
  \A a \in Address : klassCache[a] # NULL \/ a \in unions =>
    \E k \in Klass : life[k] # "unborn" /\ addr[k] = a

\* ... and true of the first one.
EntryInv ==
  \A k \in Live : FirstAt(k) /\ klassCache[addr[k]] # NULL /\ k \notin stale =>
    FIELDS[k] # NULL /\ klassCache[addr[k]] = FieldInfoMap(k)
UnionInv ==
  \A k \in Live : FirstAt(k) =>
    /\ addr[k] \in unions => IsUnion(k)
    /\ klassCache[addr[k]] # NULL /\ IsUnion(k) => addr[k] \in unions

Inv == TypeOK /\ LifeInv /\ BodyInv /\ CachedInv /\ OwnerInv /\ EntryInv /\ UnionInv
core == <<definition, FIELDS, cached>>

-----------------------------------------------------------------------------
\* The map of a class with FIELDS is one (CreateFieldInfoMap).
LEMMA FieldInfoMapType ==
  ASSUME TypeOK, NEW k \in Klass, FIELDS[k] # NULL
  PROVE  FieldInfoMap(k) \in InfoMap /\ FieldInfoMap(k) # NULL
<1>1. PICK S \in SUBSET Names : FIELDS[k] \in [S -> [klass : Klass \cup {NULL}, default : Default \cup {NULL}]]
  BY DEF TypeOK, FieldMap
<1>2. FieldInfoMap(k) \in [S -> Address \cup {NULL}]
  BY <1>1 DEF TypeOK, FieldInfoMap
<1> QED BY <1>2, NullAssumption DEF InfoMap

\* The invariant says nothing of objects.
LEMMA CoreUnchanged == ASSUME Inv, UNCHANGED core PROVE Inv'
BY DEF Inv, core, definition, cached, TypeOK, LifeInv, BodyInv, CachedInv, OwnerInv, EntryInv,
       UnionInv, Live, FirstAt, FieldInfoMap, IsUnion, Inherits, Ref

\* Initially nothing was born.
LEMMA InitInv == Init => Inv
<1> SUFFICES ASSUME Init PROVE Inv OBVIOUS
<1>1. TypeOK BY BoundsAssumption DEF Init, TypeOK, Steps
<1>2. Live = {} BY DEF Init, Live
<1> QED
  BY <1>1, <1>2 DEF Init, Inv, LifeInv, BodyInv, CachedInv, OwnerInv, EntryInv, UnionInv

\* Use and cache_fields: what FindOrCreateFieldInfoMap adds is true of its class.
LEMMA CacheInv ==
  ASSUME Inv, NEW k \in Live, FindOrCreateFieldInfoMap(k),
         UNCHANGED <<bound, life, addr, super, body, loads, FIELDS>>,
         pc' = pc \/ (pc[k] = "cache_fields" /\ pc' = [pc EXCEPT ![k] = "DEFAULT_VALUES"])
  PROVE  Inv'
<1> USE DEF Live
<1>1. CASE klassCache[addr[k]] # NULL
  <2>1. UNCHANGED cached BY <1>1 DEF FindOrCreateFieldInfoMap
  <2>2. TypeOK' BY <2>1 DEF Inv, TypeOK, cached, Steps
  <2>3. LifeInv' /\ OwnerInv' /\ EntryInv' /\ UnionInv'
    BY <2>1 DEF Inv, cached, LifeInv, OwnerInv, EntryInv, UnionInv, FirstAt, FieldInfoMap, IsUnion, Inherits, Ref
  <2>4. BodyInv' BY <2>1 DEF Inv, TypeOK, cached, BodyInv
  <2>5. CachedInv' BY <1>1, <2>1 DEF Inv, TypeOK, cached, CachedInv, Steps, Ref
  <2> QED BY <2>2, <2>3, <2>4, <2>5 DEF Inv
<1>2. CASE klassCache[addr[k]] = NULL
  <2>1. addr[k] \in Address BY DEF Inv, LifeInv
  <2>2. /\ unions' = unions \cup (IF IsUnion(k) THEN {addr[k]} ELSE {})
        /\ klassCache' = IF FIELDS[k] = NULL THEN klassCache
                         ELSE [klassCache EXCEPT ![addr[k]] = FieldInfoMap(k)]
        /\ stale' = stale
    BY <1>2 DEF FindOrCreateFieldInfoMap
  <2>3. FIELDS[k] # NULL => FieldInfoMap(k) \in InfoMap /\ FieldInfoMap(k) # NULL
    BY FieldInfoMapType DEF Inv
  <2>4. TypeOK' BY <2>1, <2>2, <2>3 DEF Inv, TypeOK, Steps
  <2>5. LifeInv' BY <2>2 DEF Inv, LifeInv, Ref
  <2>6. BodyInv' BY <2>2 DEF Inv, TypeOK, BodyInv
  <2>7. \A a \in Address : klassCache[a] # NULL => klassCache'[a] # NULL
    BY <2>1, <2>2, <2>3 DEF Inv, TypeOK
  <2>8. FIELDS[k] # NULL => klassCache'[addr[k]] # NULL
    BY <2>1, <2>2, <2>3 DEF Inv, TypeOK
  <2>9. CachedInv'
    <3>1. \A j \in Live' : addr[j] \in Address BY DEF Inv, LifeInv
    <3>2. \A j \in Live' : body'[j].fields # NULL /\ pc'[j] \notin Steps => klassCache'[addr'[j]] # NULL
      BY <2>7, <2>8, <3>1 DEF Inv, TypeOK, CachedInv, BodyInv, Steps
    <3>3. \A j \in Live' : FIELDS'[j] # NULL => \A n \in DOMAIN FIELDS'[j] :
            Ref(j, n)' \in {NULL, j} \/ klassCache'[addr'[Ref(j, n)']] # NULL
      BY <2>7, <3>1 DEF Inv, LifeInv, CachedInv, Ref
    <3> QED BY <3>2, <3>3 DEF CachedInv
  <2>10. OwnerInv' BY <2>1, <2>2 DEF Inv, TypeOK, OwnerInv
  <2>11. \A j \in Live : addr[j] \in Address /\ (j # k => addr[j] # addr[k] /\ klassCache'[addr[j]] = klassCache[addr[j]])
    BY <2>1, <2>2 DEF Inv, TypeOK, LifeInv
  <2>12. EntryInv'
    <3>1. \A j \in Live : FieldInfoMap(j)' = FieldInfoMap(j) /\ (FirstAt(j)' <=> FirstAt(j))
      BY DEF FieldInfoMap, FirstAt
    <3>2. FIELDS[k] # NULL => klassCache'[addr[k]] = FieldInfoMap(k)
      BY <2>1, <2>2 DEF Inv, TypeOK
    <3>3. FIELDS[k] = NULL => klassCache'[addr[k]] = NULL
      BY <1>2, <2>2
    <3> QED BY <2>2, <2>11, <3>1, <3>2, <3>3 DEF Inv, EntryInv
  <2>13. UnionInv'
    <3>1. \A j \in Live : (IsUnion(j)' <=> IsUnion(j)) /\ (FirstAt(j)' <=> FirstAt(j))
      BY DEF IsUnion, Inherits, FirstAt
    <3>2. \A j \in Live : j # k => (addr[j] \in unions' <=> addr[j] \in unions)
      BY <2>2, <2>11
    <3>3. addr[k] \in unions' <=> addr[k] \in unions \/ IsUnion(k)
      BY <2>2
    <3> QED BY <2>11, <3>1, <3>2, <3>3 DEF Inv, UnionInv
  <2> QED BY <2>4, <2>5, <2>6, <2>9, <2>10, <2>12, <2>13 DEF Inv
<1> QED BY <1>1, <1>2

\* The steps of init_thrift_struct that the extension has no part in.
LEMMA StepInv ==
  ASSUME Inv, NEW k \in Live,
         UNCHANGED <<bound, life, addr, super, body, loads, FIELDS, cached>>,
         NEW to \in Steps \cup {"DEFAULT_VALUES", "struct_fields", "ready"},
         pc[k] \notin {"FIELDS", "ready"}, to # "FIELDS", pc[k] \in Steps <=> to \in Steps,
         pc' = [pc EXCEPT ![k] = to]
  PROVE  Inv'
<1> USE DEF Live, cached
<1>1. TypeOK' BY DEF Inv, TypeOK
<1>2. LifeInv' /\ OwnerInv' /\ EntryInv' /\ UnionInv'
  BY DEF Inv, LifeInv, OwnerInv, EntryInv, UnionInv, FirstAt, FieldInfoMap, IsUnion, Inherits, Ref
<1>3. BodyInv' BY DEF Inv, TypeOK, BodyInv
<1>4. CachedInv' BY DEF Inv, TypeOK, CachedInv, Ref
<1> QED BY <1>1, <1>2, <1>3, <1>4 DEF Inv

\* A new class has an address no living one has; if nothing lived there before,
\* nothing is known of it.
LEMMA CreateInv ==
  ASSUME Inv, NEW c \in Constants, NEW v \in Versions[c], CreateClass(c, v)
  PROVE  Inv'
<1> USE DEF Live
<1>1. PICK k \in Klass, a \in Address :
       /\ life[k] = "unborn"
       /\ \A j \in Live : addr[j] # a
       /\ life' = [life EXCEPT ![k] = "live"]
       /\ addr' = [addr EXCEPT ![k] = a]
       /\ super' = [super EXCEPT ![k] = IF v.super \in Constants THEN bound[v.super] ELSE v.super]
       /\ body' = [body EXCEPT ![k] = v]
       /\ pc' = [pc EXCEPT ![k] = IF v.fields = NULL THEN "ready" ELSE "FIELDS"]
       /\ bound' = [bound EXCEPT ![c] = k]
       /\ loads' = [loads EXCEPT ![k] = 1]
  BY DEF CreateClass
<1>2. UNCHANGED <<FIELDS, klassCache, unions, stale>> /\ FIELDS[k] = NULL /\ k \notin stale
  BY <1>1 DEF CreateClass, constants, cached, Inv, LifeInv
<1>3. v \in Version /\ v.super \in {"Struct", "Union"} \cup Constants
  BY VersionsAssumption DEF Version
<1>4. v.super \in Constants => bound[v.super] \in Live
  BY DEF CreateClass, Inv, LifeInv
<1>5. TypeOK'
  BY <1>1, <1>2, <1>3, <1>4, BoundsAssumption DEF Inv, TypeOK, Steps
<1>6. Live' = Live \cup {k} /\ k \notin Live /\ k # NULL
  BY <1>1, VersionsAssumption DEF Inv, TypeOK
<1>7. /\ addr'[k] = a /\ body'[k] = v /\ FIELDS'[k] = NULL
      /\ super'[k] = IF v.super \in Constants THEN bound[v.super] ELSE v.super
      /\ pc'[k] = IF v.fields = NULL THEN "ready" ELSE "FIELDS"
  BY <1>1, <1>2 DEF Inv, TypeOK
<1>8. \A j \in Klass : j # k =>
        addr'[j] = addr[j] /\ body'[j] = body[j] /\ super'[j] = super[j] /\ pc'[j] = pc[j]
          /\ life'[j] = life[j] /\ loads'[j] = loads[j]
  BY <1>1 DEF Inv, TypeOK
<1>9. \A d \in Constants : bound'[d] = IF d = c THEN k ELSE bound[d]
  BY <1>1 DEF Inv, TypeOK
<1>10. LifeInv'
  <2>1. \A j \in Klass : life'[j] = "unborn" => FIELDS'[j] = NULL /\ j \notin stale'
    BY <1>1, <1>2, <1>8 DEF Inv, LifeInv, TypeOK
  <2>2. \A j \in Klass : life'[j] # "unborn" => addr'[j] \in Address /\ loads'[j] >= 1
    BY <1>1, <1>7, <1>8 DEF Inv, LifeInv, TypeOK
  <2>3. \A i, j \in Live' : addr'[i] = addr'[j] => i = j
    BY <1>1, <1>6, <1>7, <1>8 DEF Inv, LifeInv
  <2>4. \A d \in Constants : bound'[d] # NULL => bound'[d] \in Live'
    BY <1>6, <1>9 DEF Inv, LifeInv
  <2>5. \A j \in Live' : super'[j] \in Klass => super'[j] \in Live'
    <3>1. super'[k] \in Klass => super'[k] \in Live'
      <4>1. CASE v.super \in Constants BY <4>1, <1>4, <1>6, <1>7
      <4>2. CASE v.super \notin Constants
        <5>1. super'[k] \in {"Struct", "Union"} BY <4>2, <1>3, <1>7
        <5> QED BY <5>1, VersionsAssumption
      <4> QED BY <4>1, <4>2
    <3>2. \A j \in Live : super'[j] \in Klass => super'[j] \in Live'
      BY <1>6, <1>8 DEF Inv, LifeInv
    <3> QED BY <3>1, <3>2, <1>6
  <2>6. \A j \in Live' : FIELDS'[j] # NULL => \A n \in DOMAIN FIELDS'[j] :
          Ref(j, n)' # NULL => Ref(j, n)' \in Live'
    BY <1>2, <1>6 DEF Inv, LifeInv, Ref
  <2> QED BY <2>1, <2>2, <2>3, <2>4, <2>5, <2>6 DEF LifeInv
<1>11. BodyInv'
  <2>1. \A j \in Live' : \E d \in Constants : body'[j] \in Versions[d]
    BY <1>6, <1>7, <1>8 DEF Inv, BodyInv
  <2>2. \A d \in Constants : bound'[d] # NULL /\ Generated(d) => body'[bound'[d]].fields # NULL
    <3>1. Generated(c) => v.fields # NULL BY DEF Generated
    <3>2. \A d \in Constants : d # c /\ bound[d] # NULL => bound[d] \in Live /\ bound[d] # k
      BY <1>6 DEF Inv, LifeInv
    <3> QED BY <3>1, <3>2, <1>7, <1>8, <1>9 DEF Inv, BodyInv
  <2>3. \A j \in Live' : pc'[j] # "ready" => body'[j].fields # NULL
    BY <1>6, <1>7, <1>8 DEF Inv, BodyInv
  <2>4. \A j \in Live' : body'[j].fields # NULL /\ pc'[j] # "FIELDS" => FIELDS'[j] # NULL
    BY <1>2, <1>6, <1>7, <1>8 DEF Inv, BodyInv
  <2> QED BY <2>1, <2>2, <2>3, <2>4 DEF BodyInv
<1>12. CachedInv'
  <2>1. \A j \in Live' : body'[j].fields # NULL /\ pc'[j] \notin Steps => klassCache'[addr'[j]] # NULL
    BY <1>2, <1>6, <1>7, <1>8 DEF Inv, CachedInv, Steps
  <2>2. \A j \in Live' : FIELDS'[j] # NULL => \A n \in DOMAIN FIELDS'[j] :
          Ref(j, n)' \in {NULL, j} \/ klassCache'[addr'[Ref(j, n)']] # NULL
    BY <1>2, <1>6, <1>8 DEF Inv, LifeInv, CachedInv, Ref
  <2> QED BY <2>1, <2>2 DEF CachedInv
<1>13. OwnerInv'
  BY <1>1, <1>2, <1>8 DEF Inv, OwnerInv
<1>14. FirstAt(k)' => klassCache'[a] = NULL /\ a \notin unions'
  <2>1. FirstAt(k)' => \A j \in Klass : life[j] = "dead" => addr[j] # a
    BY <1>1, <1>7, <1>8 DEF FirstAt
  <2> QED BY <2>1, <1>1, <1>2 DEF Inv, OwnerInv, TypeOK
<1>15. \A j \in Live : FIELDS[j] # NULL => FieldInfoMap(j)' = FieldInfoMap(j)
  BY <1>2, <1>6, <1>8 DEF Inv, LifeInv, FieldInfoMap, Ref
<1>16. \A j \in Live : FirstAt(j)' <=> FirstAt(j)
  BY <1>1, <1>6, <1>8 DEF FirstAt
<1>17. EntryInv'
  BY <1>2, <1>6, <1>7, <1>8, <1>14, <1>15, <1>16 DEF Inv, EntryInv
<1>18. UnionInv'
  <2>1. \A j \in Live : IsUnion(j)' <=> IsUnion(j)
    BY <1>6, <1>8 DEF Inv, LifeInv, IsUnion, Inherits
  <2> QED BY <1>2, <1>6, <1>7, <1>8, <1>14, <1>16, <2>1 DEF Inv, UnionInv
<1> QED BY <1>5, <1>10, <1>11, <1>12, <1>13, <1>17, <1>18 DEF Inv

\* A class that is opened again keeps its address and, for now, its FIELDS.
LEMMA ReopenInv ==
  ASSUME Inv, NEW c \in Constants, NEW v \in Versions[c], ReopenClass(c, v)
  PROVE  Inv'
<1> DEFINE k == bound[c]
<1> USE DEF Live
<1>1. /\ k \in Live /\ v.fields # NULL
      /\ body' = [body EXCEPT ![k] = v]
      /\ pc' = [pc EXCEPT ![k] = "FIELDS"]
      /\ loads[k] < MaxLoads /\ loads' = [loads EXCEPT ![k] = @ + 1]
      /\ UNCHANGED <<bound, life, addr, super, FIELDS, klassCache, unions, stale>>
  BY DEF ReopenClass, constants, cached, Inv, LifeInv
<1>2. v \in Version BY VersionsAssumption
<1>3. TypeOK' BY <1>1, <1>2, BoundsAssumption DEF Inv, TypeOK, Steps
<1>4. \A j \in Klass : /\ body'[j] = (IF j = k THEN v ELSE body[j])
                       /\ pc'[j] = (IF j = k THEN "FIELDS" ELSE pc[j])
                       /\ loads'[j] >= loads[j]
  BY <1>1 DEF Inv, TypeOK
<1>5. LifeInv'
  <2>1. \A j \in Klass : life'[j] # "unborn" => addr'[j] \in Address /\ loads'[j] >= 1
    BY <1>1, <1>3, <1>4 DEF Inv, LifeInv, TypeOK
  <2> QED BY <1>1, <2>1 DEF Inv, LifeInv, Ref
<1>6. BodyInv' BY <1>1, <1>4 DEF Inv, LifeInv, BodyInv
<1>7. CachedInv' BY <1>1, <1>4 DEF Inv, CachedInv, Steps, Ref
<1>8. OwnerInv' /\ EntryInv' /\ UnionInv'
  BY <1>1 DEF Inv, OwnerInv, EntryInv, UnionInv, FirstAt, FieldInfoMap, IsUnion, Inherits
<1> QED BY <1>3, <1>5, <1>6, <1>7, <1>8 DEF Inv

\* FIELDS refers to classes that are complete, and so known to the extension; if its
\* own class was known before, it is stale now.
LEMMA AssignInv ==
  ASSUME Inv, NEW k \in Klass, AssignFields(k)
  PROVE  Inv'
<1> USE DEF Live
<1> DEFINE fields == body[k].fields
           Class(n) == bound[fields[n].class]
           value == [n \in DOMAIN fields |->
             [klass |-> IF fields[n].class = NULL THEN NULL ELSE Class(n),
              default |-> IF fields[n].default THEN <<k, loads[k], n>> ELSE NULL]]
<1>1. /\ k \in Live /\ pc[k] = "FIELDS"
      /\ pc' = [pc EXCEPT ![k] = "accessors"]
      /\ FIELDS' = [FIELDS EXCEPT ![k] = value]
      /\ stale' = stale \cup (IF klassCache[addr[k]] # NULL THEN {k} ELSE {})
      /\ \A n \in DOMAIN fields : fields[n].class # NULL =>
           Class(n) # NULL /\ (Class(n) = k \/ pc[Class(n)] = "ready")
      /\ UNCHANGED <<bound, life, addr, super, body, loads, klassCache, unions>>
  BY DEF AssignFields, Step
<1>2. PICK c \in Constants : body[k] \in Versions[c] /\ fields # NULL
  BY <1>1 DEF Inv, BodyInv
<1>3. PICK S \in SUBSET Names : fields \in [S -> Field]
  BY <1>2, VersionsAssumption DEF Version, Bodies
<1>4. \A n \in DOMAIN fields : fields[n].class # NULL =>
        fields[n].class \in Constants /\ Generated(fields[n].class)
  BY <1>2, <1>3, VersionsAssumption DEF Field
<1>5. \A n \in DOMAIN fields : fields[n].class # NULL =>
        Class(n) \in Live /\ (Class(n) = k \/ klassCache[addr[Class(n)]] # NULL)
  BY <1>1, <1>4 DEF Inv, LifeInv, BodyInv, CachedInv, Steps
<1>6. value \in FieldMap /\ value # NULL
  <2>1. loads[k] \in 1..MaxLoads BY <1>1, BoundsAssumption DEF Inv, TypeOK, LifeInv
  <2>2. \A n \in S : /\ (IF fields[n].class = NULL THEN NULL ELSE Class(n)) \in Klass \cup {NULL}
                     /\ (IF fields[n].default THEN <<k, loads[k], n>> ELSE NULL) \in Default \cup {NULL}
    BY <1>3, <1>5, <2>1 DEF Default
  <2>3. value \in [S -> [klass : Klass \cup {NULL}, default : Default \cup {NULL}]]
    BY <1>3, <2>2
  <2> HIDE DEF value
  <2>4. value \in FieldMap BY <2>3 DEF FieldMap
  <2>5. NULL \notin FieldMap BY SMTT(40), NullAssumption
  <2> QED BY <2>4, <2>5
<1>7. TypeOK' BY <1>1, <1>6 DEF Inv, TypeOK, Steps
<1>8. \A j \in Klass : FIELDS'[j] = (IF j = k THEN value ELSE FIELDS[j])
                      /\ pc'[j] = (IF j = k THEN "accessors" ELSE pc[j])
  BY SMTT(40), <1>1 DEF Inv, TypeOK
<1>9. \A n \in DOMAIN value : value[n].klass # NULL =>
        value[n].klass \in Live /\ (value[n].klass = k \/ klassCache[addr[value[n].klass]] # NULL)
  BY Zenon, <1>5
<1> HIDE DEF value
<1>10. LifeInv'
  <2>1. \A j \in Live' : FIELDS'[j] # NULL => \A n \in DOMAIN FIELDS'[j] :
          Ref(j, n)' # NULL => Ref(j, n)' \in Live'
    <3>1. \A n \in DOMAIN FIELDS'[k] : Ref(k, n)' # NULL => Ref(k, n)' \in Live'
      BY <1>1, <1>8, <1>9 DEF Ref
    <3>2. ASSUME NEW j \in Live', j # k, FIELDS'[j] # NULL, NEW n \in DOMAIN FIELDS'[j]
          PROVE  Ref(j, n)' # NULL => Ref(j, n)' \in Live'
      BY <1>1, <1>8, <3>2 DEF Inv, LifeInv, Ref
    <3> QED BY <3>1, <3>2
  <2>2. \A j \in Klass : life'[j] = "unborn" => FIELDS'[j] = NULL /\ j \notin stale'
    BY <1>1, <1>8 DEF Inv, LifeInv
  <2> QED BY <1>1, <2>1, <2>2 DEF Inv, LifeInv
<1>11. BodyInv' BY <1>1, <1>2, <1>6, <1>8 DEF Inv, BodyInv
<1>12. CachedInv'
  <2>1. \A j \in Live' : FIELDS'[j] # NULL => \A n \in DOMAIN FIELDS'[j] :
          Ref(j, n)' \in {NULL, j} \/ klassCache'[addr'[Ref(j, n)']] # NULL
    <3>1. \A n \in DOMAIN FIELDS'[k] :
            Ref(k, n)' \in {NULL, k} \/ klassCache'[addr'[Ref(k, n)']] # NULL
      BY <1>1, <1>8, <1>9 DEF Ref
    <3>2. ASSUME NEW j \in Live', j # k, FIELDS'[j] # NULL, NEW n \in DOMAIN FIELDS'[j]
          PROVE  Ref(j, n)' \in {NULL, j} \/ klassCache'[addr'[Ref(j, n)']] # NULL
      BY <1>1, <1>8, <3>2 DEF Inv, CachedInv, Ref
    <3> QED BY <3>1, <3>2
  <2>2. \A j \in Live' : body'[j].fields # NULL /\ pc'[j] \notin Steps => klassCache'[addr'[j]] # NULL
    BY <1>1, <1>8 DEF Inv, CachedInv, Steps
  <2> QED BY <2>1, <2>2 DEF CachedInv
<1>13. OwnerInv' /\ UnionInv'
  BY <1>1 DEF Inv, OwnerInv, UnionInv, FirstAt, IsUnion, Inherits
<1>14. EntryInv'
  <2>1. \A j \in Live : j # k => FieldInfoMap(j)' = FieldInfoMap(j) /\ FIELDS'[j] = FIELDS[j]
    BY <1>1, <1>8 DEF FieldInfoMap
  <2>2. \A j \in Live : FirstAt(j)' <=> FirstAt(j)
    BY <1>1 DEF FirstAt
  <2>3. klassCache[addr[k]] # NULL => k \in stale' BY <1>1
  <2> QED BY <1>1, <2>1, <2>2, <2>3 DEF Inv, EntryInv
<1> QED BY <1>7, <1>10, <1>11, <1>12, <1>13, <1>14 DEF Inv

\* A constant that is removed takes nothing with it.
LEMMA RemoveInv ==
  ASSUME Inv, NEW c \in Constants, RemoveConst(c)
  PROVE  Inv'
<1> USE DEF Live
<1>1. /\ bound' = [bound EXCEPT ![c] = NULL]
      /\ UNCHANGED <<life, addr, super, body, pc, loads, FIELDS, klassCache, unions, stale>>
  BY DEF RemoveConst, constants, cached
<1>2. \A d \in Constants : bound'[d] # NULL => bound'[d] = bound[d]
  BY <1>1 DEF Inv, TypeOK
<1>3. TypeOK' BY <1>1 DEF Inv, TypeOK
<1>4. LifeInv' BY <1>1, <1>2 DEF Inv, LifeInv, Ref
<1>5. BodyInv' BY <1>1, <1>2 DEF Inv, BodyInv
<1>6. CachedInv' /\ OwnerInv' /\ EntryInv' /\ UnionInv'
  BY <1>1 DEF Inv, CachedInv, OwnerInv, EntryInv, UnionInv, FirstAt, FieldInfoMap, IsUnion, Inherits, Ref
<1> QED BY <1>3, <1>4, <1>5, <1>6 DEF Inv

\* The collector keeps what living classes refer to.  As they have an address each,
\* those that go were not at the address of one that stays.
LEMMA CollectInv ==
  ASSUME Inv, NEW garbage, Collect(garbage)
  PROVE  Inv'
<1> USE DEF Live
<1>1. /\ garbage \subseteq Live \ Roots
      /\ \A k \in Live \ garbage : \A j \in garbage : ~ Refers(k, j)
      /\ life' = [k \in Klass |-> IF k \in garbage THEN "dead" ELSE life[k]]
      /\ UNCHANGED <<bound, addr, super, body, pc, loads, FIELDS, klassCache, unions, stale>>
  BY DEF Collect, constants, cached
<1>2. Live' = Live \ garbage /\ \A k \in Klass : life'[k] = "unborn" <=> life[k] = "unborn"
  BY <1>1
<1>3. \A c \in Constants : bound[c] \notin garbage
  BY <1>1 DEF Roots
<1>4. TypeOK' BY <1>1 DEF Inv, TypeOK
<1>5. LifeInv'
  <2>1. \A k \in Live' : super'[k] \in Klass => super'[k] \in Live'
    BY <1>1, <1>2 DEF Inv, LifeInv, Refers
  <2>2. \A k \in Live' : FIELDS'[k] # NULL => \A n \in DOMAIN FIELDS'[k] :
          Ref(k, n)' # NULL => Ref(k, n)' \in Live'
    BY <1>1, <1>2 DEF Inv, LifeInv, Refers, Ref
  <2>3. \A c \in Constants : bound'[c] # NULL => bound'[c] \in Live'
    BY <1>1, <1>2, <1>3 DEF Inv, LifeInv
  <2> QED BY <1>1, <1>2, <2>1, <2>2, <2>3 DEF Inv, LifeInv
<1>6. BodyInv' BY <1>1, <1>2 DEF Inv, BodyInv
<1>7. CachedInv' BY <1>1, <1>2 DEF Inv, CachedInv, Ref
<1>8. OwnerInv' BY <1>1, <1>2 DEF Inv, OwnerInv
<1>9. \A k \in Live' : FirstAt(k)' => FirstAt(k)
  BY <1>1, <1>2 DEF FirstAt
<1>10. EntryInv' /\ UnionInv'
  BY <1>1, <1>2, <1>9 DEF Inv, EntryInv, UnionInv, FieldInfoMap, IsUnion, Inherits
<1> QED BY <1>4, <1>5, <1>6, <1>7, <1>8, <1>10 DEF Inv

-----------------------------------------------------------------------------
\* One step of a class definition.
LEMMA DefineInv == ASSUME Inv, NEW k \in Klass, Define(k) PROVE Inv'
<1>1. CASE AssignFields(k) BY <1>1, AssignInv
<1>2. CASE generate_accessors(k)
  BY <1>2, StepInv DEF generate_accessors, Step, Steps, cached
<1>3. CASE generate_field_syms(k)
  BY <1>3, StepInv DEF generate_field_syms, Step, Steps, cached
<1>4. CASE cache_fields(k)
  BY <1>4, CacheInv DEF cache_fields, Step, constants
<1>5. CASE generate_default_values(k)
  BY <1>5, StepInv DEF generate_default_values, Step, Steps, cached
<1>6. CASE define_struct_fields(k)
  BY <1>6, StepInv DEF define_struct_fields, Step, Steps, cached
<1> QED BY <1>1, <1>2, <1>3, <1>4, <1>5, <1>6 DEF Define

LEMMA NextInv == ASSUME Inv, [Next]_vars PROVE Inv'
<1>1. CASE Load BY <1>1, CreateInv, ReopenInv DEF Load
<1>2. CASE \E k \in Klass : Define(k) BY <1>2, DefineInv
<1>3. CASE Program
  <2>1. ASSUME NEW k \in Klass, Use(k) PROVE Inv'
    <3>1. UNCHANGED <<bound, life, addr, super, body, loads, FIELDS, pc>>
      BY <2>1 DEF Use, definition, constants
    <3> QED BY <2>1, <3>1, CacheInv DEF Use
  <2>2. ASSUME NEW k \in Klass, NEW given \in SUBSET Names, New(k, given) PROVE Inv'
    BY <2>2, CoreUnchanged DEF New, core, constants
  <2>3. ASSUME NEW o \in objects, Drop(o) \/ \E n \in Names, depth \in 1..2 : Mutate(o, n, depth) PROVE Inv'
    BY <2>3, CoreUnchanged DEF Drop, Mutate, core, constants
  <2>4. ASSUME NEW c \in Constants, RemoveConst(c) PROVE Inv'
    BY <2>4, RemoveInv
  <2> QED BY <1>3, <2>1, <2>2, <2>3, <2>4 DEF Program
<1>4. CASE \E garbage \in SUBSET Klass : Collect(garbage) BY <1>4, CollectInv
<1>5. CASE UNCHANGED vars BY <1>5, CoreUnchanged DEF vars, core, constants
<1> QED BY <1>1, <1>2, <1>3, <1>4, <1>5 DEF Next

\* The inductive invariant (base_type.rb:55-65, serializer.cpp:685-697).
THEOREM CacheInvariant == Spec => []Inv
BY InitInv, NextInv, PTL DEF Spec

\* The map cached for the first class at an address, whose FIELDS were not set again,
\* is that of its FIELDS, and every pointer in it is to the class meant, alive
\* (serializer.cpp:49).
THEOREM EntriesStayTrue == Spec => []EntriesAreTheirs
<1>1. Inv => EntriesAreTheirs
  <2> SUFFICES ASSUME Inv, NEW k \in Live \ stale, FirstAt(k), klassCache[addr[k]] # NULL
               PROVE  /\ FIELDS[k] # NULL /\ klassCache[addr[k]] = FieldInfoMap(k)
                      /\ \A n \in DOMAIN FIELDS[k] : FIELDS[k][n].klass # NULL =>
                           /\ FIELDS[k][n].klass \in Live
                           /\ \A j \in Live : addr[j] = klassCache[addr[k]][n] => j = FIELDS[k][n].klass
    BY DEF EntriesAreTheirs
  <2>1. FIELDS[k] # NULL /\ klassCache[addr[k]] = FieldInfoMap(k)
    BY DEF Inv, EntryInv
  <2>2. ASSUME NEW n \in DOMAIN FIELDS[k], FIELDS[k][n].klass # NULL
        PROVE  FIELDS[k][n].klass \in Live /\ klassCache[addr[k]][n] = addr[FIELDS[k][n].klass]
    BY <2>1, <2>2 DEF Inv, LifeInv, Ref, FieldInfoMap
  <2> QED BY <2>1, <2>2 DEF Inv, LifeInv
<1> QED BY <1>1, CacheInvariant, PTL

\* When readAny asks unions about the class of a field, it is told what that class is
\* (serializer.cpp:283-287).
THEOREM UnionsStayKnown == Spec => []UnionsAreKnown
<1>1. Inv => UnionsAreKnown
  <2> SUFFICES ASSUME Inv, NEW k \in Live \ stale, FirstAt(k), klassCache[addr[k]] # NULL
               PROVE  FIELDS[k] # NULL /\ \A n \in DOMAIN FIELDS[k] :
                        FIELDS[k][n].klass # NULL /\ FirstAt(FIELDS[k][n].klass) =>
                          (klassCache[addr[k]][n] \in unions <=> IsUnion(FIELDS[k][n].klass))
    BY DEF UnionsAreKnown
  <2>1. FIELDS[k] # NULL /\ klassCache[addr[k]] = FieldInfoMap(k)
    BY DEF Inv, EntryInv
  <2>2. ASSUME NEW n \in DOMAIN FIELDS[k], FIELDS[k][n].klass # NULL, FirstAt(FIELDS[k][n].klass)
        PROVE  klassCache[addr[k]][n] \in unions <=> IsUnion(FIELDS[k][n].klass)
    <3>1. klassCache[addr[k]][n] = addr[FIELDS[k][n].klass]
      BY <2>1, <2>2 DEF FieldInfoMap
    <3>2. FIELDS[k][n].klass \in Live /\ klassCache[addr[FIELDS[k][n].klass]] # NULL
      BY <2>1, <2>2 DEF Inv, LifeInv, CachedInv, Ref
    <3> QED BY <3>1, <3>2, <2>2 DEF Inv, UnionInv
  <2> QED BY <2>1, <2>2
<1> QED BY <1>1, CacheInvariant, PTL

-----------------------------------------------------------------------------
\* Every default that a class or an object holds is frozen.
FrozenInv ==
  /\ DOMAIN DEFAULT_VALUES = Klass
  /\ \A k \in Klass : DEFAULT_VALUES[k] # NULL =>
       \A n \in DOMAIN DEFAULT_VALUES[k] : DEFAULT_VALUES[k][n] \in frozen
  /\ \A o \in objects : \A n \in DOMAIN o.slots : o.slots[n] # NULL => o.slots[n] \in frozen
  /\ \A c \in changed : c[2] # 1

\* It takes the default it hands out from a class whose defaults were frozen, and
\* changing one in place fails (base_type.rb:34-53, ruby_hooks.c:47-68).
LEMMA FrozenStep == ASSUME Inv, FrozenInv, [Next]_vars PROVE FrozenInv'
<1>1. CASE UNCHANGED <<DEFAULT_VALUES, frozen, objects, changed>>
  BY <1>1 DEF FrozenInv
<1>2. ASSUME NEW k \in Klass, generate_default_values(k) PROVE FrozenInv'
  <2> DEFINE Defaulted == {n \in DOMAIN FIELDS[k] : FIELDS[k][n].default # NULL}
  <2>1. /\ DEFAULT_VALUES' = [DEFAULT_VALUES EXCEPT ![k] = [n \in Defaulted |-> FIELDS[k][n].default]]
        /\ frozen' = frozen \cup {FIELDS[k][n].default : n \in Defaulted}
        /\ UNCHANGED <<objects, changed>>
    BY <1>2 DEF generate_default_values, Step, heap
  <2>2. DOMAIN DEFAULT_VALUES' = Klass BY <2>1 DEF FrozenInv
  <2>3. \A n \in DOMAIN DEFAULT_VALUES'[k] : DEFAULT_VALUES'[k][n] \in frozen'
    BY <2>1 DEF FrozenInv
  <2>4. \A j \in Klass : j # k => DEFAULT_VALUES'[j] = DEFAULT_VALUES[j]
    BY <2>1 DEF FrozenInv
  <2> QED BY <2>1, <2>2, <2>3, <2>4 DEF FrozenInv
<1>3. ASSUME NEW k \in Klass, NEW given \in SUBSET Names, New(k, given) PROVE FrozenInv'
  <2> DEFINE values == IF IsUnion(k) THEN <<>> ELSE Defaults(k)
             o == [klass |-> k, slots |->
                    [n \in DOMAIN values \cup given |-> IF n \in given THEN NULL ELSE values[n]]]
  <2>1. /\ objects' = objects \cup {o} /\ ~ NewRaises(k)
        /\ UNCHANGED <<DEFAULT_VALUES, frozen, changed>>
    BY <1>3 DEF New, constants
  <2>2. Holder(k, DEFAULT_VALUES) \in Klass BY DEF Holder
  <2>3. \A n \in DOMAIN values : values[n] \in frozen
    <3>1. CASE IsUnion(k) BY <3>1
    <3>2. CASE ~ IsUnion(k)
      BY <3>2, <2>1, <2>2 DEF NewRaises, Defaults, Lookup, FrozenInv
    <3> QED BY <3>1, <3>2
  <2>4. \A n \in DOMAIN o.slots : o.slots[n] # NULL => o.slots[n] \in frozen
    BY <2>3
  <2> HIDE DEF o
  <2> QED BY <2>1, <2>4 DEF FrozenInv
<1>4. ASSUME NEW o \in objects, NEW n \in Names, NEW depth \in 1..2, Mutate(o, n, depth)
      PROVE  FrozenInv'
  <2>1. \A c \in changed' : c \in changed \/ (c = <<o.slots[n], depth>> /\ depth # 1)
    BY <1>4 DEF Mutate, FrozenInv
  <2>2. UNCHANGED <<DEFAULT_VALUES, frozen, objects>> BY <1>4 DEF Mutate, constants
  <2> QED BY <2>1, <2>2 DEF FrozenInv
<1>5. ASSUME NEW o \in objects, Drop(o) PROVE FrozenInv'
  BY SMTT(40), <1>5 DEF Drop, constants, FrozenInv
<1>6. CASE \E k \in Klass : Define(k)
  BY <1>1, <1>2, <1>6 DEF Define, AssignFields, generate_accessors, generate_field_syms, cache_fields,
     define_struct_fields, Step, constants, heap
<1>7. CASE Load BY <1>1, <1>7 DEF Load, CreateClass, ReopenClass, constants, heap
<1>8. CASE Program
  BY <1>1, <1>3, <1>4, <1>5, <1>8 DEF Program, Use, RemoveConst, constants, heap
<1>9. CASE \E garbage \in SUBSET Klass : Collect(garbage)
  BY <1>1, <1>9 DEF Collect, constants, heap
<1>10. CASE UNCHANGED vars BY <1>1, <1>10 DEF vars, constants, heap
<1> QED BY <1>6, <1>7, <1>8, <1>9, <1>10 DEF Next

\* No default is ever changed at its top, whoever holds it (base_type.rb:38).
THEOREM DefaultsStayDeclared == Spec => []DefaultsKeepTheirTop
<1>1. Init => FrozenInv BY DEF Init, FrozenInv
<1>2. FrozenInv => DefaultsKeepTheirTop BY DEF FrozenInv, DefaultsKeepTheirTop
<1> QED BY <1>1, <1>2, FrozenStep, CacheInvariant, PTL DEF Spec

-----------------------------------------------------------------------------
\* What a class has after each step of its definition, which a second definition does
\* not take away, and a subclass from the class above it.
Subclass(k) ==
  /\ body[k].fields = NULL /\ pc[k] = "ready"
  /\ FIELDS[k] = NULL /\ FIELD_SYMS[k] = NULL /\ DEFAULT_VALUES[k] = NULL
  /\ super[super[k]] \notin Klass
Defined(k) ==
  /\ body[k].fields # NULL
  /\ pc[k] \notin {"FIELDS", "accessors"} => DOMAIN FIELDS[k] \subseteq methods[k]
  /\ pc[k] \notin {"FIELDS", "accessors", "FIELD_SYMS"} => FIELD_SYMS[k] = DOMAIN FIELDS[k]
  /\ pc[k] \in {"struct_fields", "ready"} =>
       DEFAULT_VALUES[k] # NULL /\ DOMAIN DEFAULT_VALUES[k] \subseteq DOMAIN FIELDS[k]
  /\ pc[k] = "ready" => "struct_fields" \in methods[k]

DefinedInv ==
  /\ DOMAIN FIELD_SYMS = Klass /\ DOMAIN methods = Klass
  /\ DEFAULT_VALUES \in [Klass -> DefaultMap \cup {NULL}]
  /\ \A k \in Klass : life[k] = "unborn" => FIELD_SYMS[k] = NULL /\ DEFAULT_VALUES[k] = NULL
  /\ \A k \in Live : IF super[k] \in Klass THEN Subclass(k) ELSE Defined(k)

\* The fields of a class with FIELDS are names.
LEMMA FieldNames ==
  ASSUME TypeOK, NEW k \in Klass, FIELDS[k] # NULL
  PROVE  /\ DOMAIN FIELDS[k] \in SUBSET Names
         /\ \A n \in DOMAIN FIELDS[k] : FIELDS[k][n].default \in Default \cup {NULL}
<1>1. PICK S \in SUBSET Names : FIELDS[k] \in [S -> [klass : Klass \cup {NULL}, default : Default \cup {NULL}]]
  BY DEF TypeOK, FieldMap
<1> QED BY <1>1

\* A step of the definition of k leaves all other classes alone.
LEMMA DefinedFrame ==
  ASSUME Inv, Inv', DefinedInv, NEW k \in Live,
         UNCHANGED <<life, super, body>>,
         DOMAIN FIELD_SYMS' = Klass, DOMAIN methods' = Klass,
         DEFAULT_VALUES' \in [Klass -> DefaultMap \cup {NULL}],
         \A j \in Klass : j # k =>
           /\ FIELDS'[j] = FIELDS[j] /\ FIELD_SYMS'[j] = FIELD_SYMS[j] /\ pc'[j] = pc[j]
           /\ DEFAULT_VALUES'[j] = DEFAULT_VALUES[j] /\ methods'[j] = methods[j],
         super[k] \notin Klass, Defined(k)'
  PROVE  DefinedInv'
<1>1. Live' = Live BY DEF Live
<1>2. \A j \in Live : j # k => (Subclass(j)' <=> Subclass(j)) /\ (Defined(j)' <=> Defined(j))
  BY SMTT(40) DEF Subclass, Defined, Live
<1> QED BY <1>1, <1>2 DEF DefinedInv, Live

\* A class that is being defined is not a subclass.
LEMMA DefiningIsGenerated ==
  ASSUME DefinedInv, NEW k \in Live, pc[k] # "ready"
  PROVE  super[k] \notin Klass /\ Defined(k)
BY DEF DefinedInv, Subclass

LEMMA DefinedDefine ==
  ASSUME Inv, Inv', DefinedInv, NEW k \in Klass, Define(k)
  PROVE  DefinedInv'
<1>1. k \in Live /\ pc[k] # "ready" /\ UNCHANGED <<life, super, body>>
  BY DEF Define, AssignFields, generate_accessors, generate_field_syms, cache_fields,
         generate_default_values, define_struct_fields, Step
<1>2. super[k] \notin Klass /\ Defined(k) BY <1>1, DefiningIsGenerated
<1>3. DOMAIN pc = Klass /\ DOMAIN FIELDS = Klass BY DEF Inv, TypeOK
<1>4. pc[k] # "FIELDS" => FIELDS[k] # NULL BY <1>1, <1>2 DEF Inv, BodyInv, Defined
<1>5. CASE AssignFields(k)
  <2>1. Defined(k)' BY <1>1, <1>2, <1>3, <1>5 DEF AssignFields, Step, Defined
  <2>2. \A j \in Klass : j # k => FIELDS'[j] = FIELDS[j] /\ pc'[j] = pc[j]
    BY <1>3, <1>5 DEF AssignFields, Step
  <2> QED BY <1>1, <1>2, <1>5, <2>1, <2>2, DefinedFrame DEF AssignFields, DefinedInv
<1>6. CASE generate_accessors(k)
  <2>1. Defined(k)' BY <1>1, <1>2, <1>3, <1>6 DEF generate_accessors, Step, Defined, DefinedInv
  <2>2. \A j \in Klass : j # k => methods'[j] = methods[j] /\ pc'[j] = pc[j]
    BY <1>3, <1>6 DEF generate_accessors, Step, DefinedInv
  <2> QED BY <1>1, <1>2, <1>6, <2>1, <2>2, DefinedFrame DEF generate_accessors, DefinedInv
<1>7. CASE generate_field_syms(k)
  <2>1. Defined(k)' BY <1>1, <1>2, <1>3, <1>7 DEF generate_field_syms, Step, Defined, DefinedInv
  <2>2. \A j \in Klass : j # k => FIELD_SYMS'[j] = FIELD_SYMS[j] /\ pc'[j] = pc[j]
    BY <1>3, <1>7 DEF generate_field_syms, Step, DefinedInv
  <2> QED BY <1>1, <1>2, <1>7, <2>1, <2>2, DefinedFrame DEF generate_field_syms, DefinedInv
<1>8. CASE cache_fields(k)
  <2>1. Defined(k)' BY <1>1, <1>2, <1>3, <1>8 DEF cache_fields, Step, Defined, constants
  <2>2. \A j \in Klass : j # k => pc'[j] = pc[j] BY <1>3, <1>8 DEF cache_fields, Step
  <2> QED BY <1>1, <1>2, <1>8, <2>1, <2>2, DefinedFrame DEF cache_fields, DefinedInv, constants
<1>9. CASE generate_default_values(k)
  <2> DEFINE Defaulted == {n \in DOMAIN FIELDS[k] : FIELDS[k][n].default # NULL}
             values == [n \in Defaulted |-> FIELDS[k][n].default]
  <2>1. /\ pc[k] = "DEFAULT_VALUES" /\ pc' = [pc EXCEPT ![k] = "struct_fields"]
        /\ DEFAULT_VALUES' = [DEFAULT_VALUES EXCEPT ![k] = values]
        /\ UNCHANGED <<FIELDS, FIELD_SYMS, methods>>
    BY <1>9 DEF generate_default_values, Step
  <2>2. values \in DefaultMap /\ DOMAIN values \subseteq DOMAIN FIELDS[k]
    <3>1. FIELDS[k] # NULL BY <1>4, <2>1
    <3>2. Defaulted \in SUBSET Names /\ \A n \in Defaulted : FIELDS[k][n].default \in Default
      BY <3>1, FieldNames DEF Inv
    <3>3. values \in [Defaulted -> Default] BY <3>2
    <3> HIDE DEF values, Defaulted
    <3>4. values \in DefaultMap BY <3>2, <3>3 DEF DefaultMap
    <3>5. DOMAIN values \subseteq DOMAIN FIELDS[k] BY DEF values, Defaulted
    <3> QED BY <3>4, <3>5
  <2>3. values # NULL
    <3> HIDE DEF values
    <3>1. NULL \notin DefaultMap BY NullAssumption
    <3> QED BY <2>2, <3>1
  <2> HIDE DEF values
  <2>4. DEFAULT_VALUES' \in [Klass -> DefaultMap \cup {NULL}] /\ DEFAULT_VALUES'[k] = values
    BY <2>1, <2>2 DEF DefinedInv
  <2>5. Defined(k)' BY <1>1, <1>2, <1>3, <2>1, <2>2, <2>3, <2>4 DEF Defined
  <2>6. \A j \in Klass : j # k => DEFAULT_VALUES'[j] = DEFAULT_VALUES[j] /\ pc'[j] = pc[j]
    BY <1>3, <2>1 DEF DefinedInv
  <2> QED BY <1>1, <1>2, <2>1, <2>4, <2>5, <2>6, DefinedFrame DEF DefinedInv
<1>10. CASE define_struct_fields(k)
  <2>1. Defined(k)' BY <1>1, <1>2, <1>3, <1>10 DEF define_struct_fields, Step, Defined, DefinedInv
  <2>2. \A j \in Klass : j # k => methods'[j] = methods[j] /\ pc'[j] = pc[j]
    BY <1>3, <1>10 DEF define_struct_fields, Step, DefinedInv
  <2> QED BY <1>1, <1>2, <1>10, <2>1, <2>2, DefinedFrame DEF define_struct_fields, DefinedInv
<1> QED BY <1>5, <1>6, <1>7, <1>8, <1>9, <1>10 DEF Define

\* A subclass is made of a class with FIELDS, which has none of Constants above it.
LEMMA DefinedCreate ==
  ASSUME Inv, Inv', DefinedInv, NEW c \in Constants, NEW v \in Versions[c], CreateClass(c, v)
  PROVE  DefinedInv'
<1>1. PICK k \in Klass :
       /\ life[k] = "unborn"
       /\ life' = [life EXCEPT ![k] = "live"]
       /\ super' = [super EXCEPT ![k] = IF v.super \in Constants THEN bound[v.super] ELSE v.super]
       /\ body' = [body EXCEPT ![k] = v]
       /\ pc' = [pc EXCEPT ![k] = IF v.fields = NULL THEN "ready" ELSE "FIELDS"]
  BY DEF CreateClass
<1>2. UNCHANGED <<FIELDS, FIELD_SYMS, DEFAULT_VALUES, methods>>
  BY DEF CreateClass, constants
<1>3. Live' = Live \cup {k} /\ k \notin Live BY <1>1 DEF Live, Inv, TypeOK
<1>4. /\ body'[k] = v /\ pc'[k] = (IF v.fields = NULL THEN "ready" ELSE "FIELDS")
      /\ super'[k] = (IF v.super \in Constants THEN bound[v.super] ELSE v.super)
      /\ \A j \in Klass : j # k => body'[j] = body[j] /\ pc'[j] = pc[j] /\ super'[j] = super[j]
  BY <1>1 DEF Inv, TypeOK
<1>5. FIELDS[k] = NULL /\ FIELD_SYMS[k] = NULL /\ DEFAULT_VALUES[k] = NULL
  BY <1>1 DEF Inv, LifeInv, DefinedInv
<1>8. IF super'[k] \in Klass THEN Subclass(k)' ELSE Defined(k)'
  <2>1. CASE v.fields = NULL
    <3>1. v.super \in Constants /\ Generated(v.super) BY <2>1, VersionsAssumption
    <3> DEFINE s == bound[v.super]
    <3>2. s \in Live /\ body[s].fields # NULL
      BY <3>1 DEF CreateClass, Inv, LifeInv, BodyInv
    <3>3. super[s] \notin Klass BY <3>2 DEF DefinedInv, Subclass
    <3>4. super'[k] = s /\ s \in Klass /\ super'[s] = super[s]
      BY <1>3, <1>4, <3>1, <3>2 DEF Live
    <3> QED BY <1>2, <1>4, <1>5, <2>1, <3>3, <3>4 DEF Subclass
  <2>2. CASE v.fields # NULL
    <3>1. v.super \in {"Struct", "Union"} /\ v.super \notin Constants
      BY <2>2, VersionsAssumption DEF Version
    <3>2. super'[k] \notin Klass BY <1>4, <3>1, VersionsAssumption
    <3> QED BY <1>4, <2>2, <3>2 DEF Defined
  <2> QED BY <2>1, <2>2
<1>9. ASSUME NEW j \in Live PROVE IF super'[j] \in Klass THEN Subclass(j)' ELSE Defined(j)'
  <2>1. j \in Klass /\ j # k BY <1>3 DEF Live
  <2>2. super[j] \in Klass => super[j] # k BY <1>3 DEF Inv, LifeInv
  <2> QED BY <1>2, <1>4, <2>1, <2>2 DEF DefinedInv, Subclass, Defined
<1>10. \A j \in Klass : life'[j] = "unborn" => life[j] = "unborn"
  BY <1>1 DEF Inv, TypeOK
<1> QED BY <1>2, <1>3, <1>8, <1>9, <1>10 DEF DefinedInv

LEMMA DefinedReopen ==
  ASSUME Inv, Inv', DefinedInv, NEW c \in Constants, NEW v \in Versions[c], ReopenClass(c, v)
  PROVE  DefinedInv'
<1>1. PICK k \in Live :
      /\ v.fields # NULL /\ v.super = super[k]
      /\ body' = [body EXCEPT ![k] = v]
      /\ pc' = [pc EXCEPT ![k] = "FIELDS"]
      /\ UNCHANGED <<life, super, FIELDS, FIELD_SYMS, DEFAULT_VALUES, methods>>
  BY DEF ReopenClass, constants, Inv, LifeInv
<1>2. super[k] \notin Klass
  BY <1>1, VersionsAssumption DEF Version
<1>3. \A j \in Klass : j # k => body'[j] = body[j] /\ pc'[j] = pc[j]
  BY <1>1 DEF Inv, TypeOK
<1>4. Defined(k)'
  BY <1>1 DEF Inv, TypeOK, Live, Defined
<1>5. \A j \in Live : j # k => (Subclass(j)' <=> Subclass(j)) /\ (Defined(j)' <=> Defined(j))
  BY <1>1, <1>3 DEF Subclass, Defined, Live
<1> QED BY <1>1, <1>2, <1>4, <1>5 DEF DefinedInv, Live

LEMMA DefinedStep ==
  ASSUME Inv, Inv', DefinedInv, [Next]_vars
  PROVE  DefinedInv'
<1>1. CASE UNCHANGED <<life, super, body, pc, constants>>
  BY <1>1 DEF DefinedInv, Live, Subclass, Defined, constants
<1>2. CASE Load BY <1>2, DefinedCreate, DefinedReopen DEF Load
<1>3. CASE \E k \in Klass : Define(k) BY <1>3, DefinedDefine
<1>4. CASE Program
  <2>1. ASSUME NEW k \in Klass, Use(k) \/ \E given \in SUBSET Names : New(k, given) PROVE DefinedInv'
    BY <1>1, <2>1 DEF Use, New, definition
  <2>2. ASSUME NEW o \in objects, Drop(o) \/ \E n \in Names, depth \in 1..2 : Mutate(o, n, depth)
        PROVE  DefinedInv'
    BY <1>1, <2>2 DEF Drop, Mutate, definition
  <2>3. ASSUME NEW c \in Constants, RemoveConst(c) PROVE DefinedInv'
    BY <1>1, <2>3 DEF RemoveConst
  <2> QED BY <1>4, <2>1, <2>2, <2>3 DEF Program
<1>5. CASE \E garbage \in SUBSET Klass : Collect(garbage)
  <2>1. UNCHANGED <<super, body, pc, constants>> BY <1>5 DEF Collect
  <2>2. Live' \subseteq Live BY <1>5 DEF Collect, Live
  <2>3. \A k \in Klass : life'[k] = "unborn" => life[k] = "unborn" BY <1>5 DEF Collect
  <2>4. UNCHANGED <<FIELDS, FIELD_SYMS, DEFAULT_VALUES, methods>> BY <2>1 DEF constants
  <2>5. \A k \in Klass : (Subclass(k)' <=> Subclass(k)) /\ (Defined(k)' <=> Defined(k))
    BY <2>1, <2>4 DEF Subclass, Defined
  <2>6. \A k \in Live' : IF super'[k] \in Klass THEN Subclass(k)' ELSE Defined(k)'
    BY <2>1, <2>2, <2>5 DEF DefinedInv, Live
  <2> QED BY <2>3, <2>4, <2>6 DEF DefinedInv
<1>6. CASE UNCHANGED vars BY <1>1, <1>6 DEF vars, definition
<1> QED BY <1>2, <1>3, <1>4, <1>5, <1>6 DEF Next

\* Objects of a class whose definition is complete can be made, compared, written and
\* read, whatever other threads do; those of a program's own subclass all but written
\* and read (base_type.rb:55-65, serializer.cpp:759).
THEOREM CompleteClassesWork == Spec => []OnlyDefinitionsRaise
<1>1. Init => DefinedInv BY DEF Init, DefinedInv, Live
<1>2. Inv /\ DefinedInv => OnlyDefinitionsRaise
  <2> SUFFICES ASSUME Inv, DefinedInv, NEW k \in Live
               PROVE  /\ NewRaises(k) \/ EqualRaises(k) =>
                           pc[k] # "ready" \/ (super[k] \in Klass /\ pc[super[k]] # "ready")
                      /\ UseRaises(k) => pc[k] = "FIELDS" \/ super[k] \in Klass
    BY DEF OnlyDefinitionsRaise
  <2>1. ASSUME NEW h \in Live, super[h] \notin Klass, pc[h] = "ready"
        PROVE  /\ FIELDS[h] # NULL /\ DOMAIN FIELDS[h] \subseteq methods[h]
               /\ FIELD_SYMS[h] = DOMAIN FIELDS[h] /\ FIELD_SYMS[h] # NULL
               /\ DEFAULT_VALUES[h] # NULL /\ DOMAIN DEFAULT_VALUES[h] \subseteq DOMAIN FIELDS[h]
               /\ "struct_fields" \in methods[h]
    <3>1. Defined(h) BY <2>1 DEF DefinedInv
    <3>2. FIELDS[h] # NULL BY <2>1, <3>1 DEF Defined, Inv, BodyInv
    <3>3. DOMAIN FIELDS[h] \in SUBSET Names BY <3>2, FieldNames DEF Inv, Live
    <3>4. NULL \notin SUBSET Names BY NullAssumption
    <3> QED BY <2>1, <3>1, <3>2, <3>3, <3>4 DEF Defined
  <2>2. CASE super[k] \notin Klass
    <3>1. pc[k] = "ready" => ~ NewRaises(k) /\ ~ EqualRaises(k)
      BY <2>1, <2>2 DEF NewRaises, EqualRaises, Defaults, CannotSend, Lookup, Holder
    <3>2. UseRaises(k) => pc[k] = "FIELDS"
      BY <2>2 DEF UseRaises, DefinedInv, Defined, Inv, BodyInv
    <3> QED BY <3>1, <3>2
  <2>3. CASE super[k] \in Klass
    <3>1. Subclass(k) /\ super[k] \in Live BY <2>3 DEF DefinedInv, Inv, LifeInv
    <3>2. pc[super[k]] = "ready" => ~ NewRaises(k) /\ ~ EqualRaises(k)
      BY <2>1, <2>3, <3>1 DEF Subclass, NewRaises, EqualRaises, Defaults, CannotSend, Lookup, Holder
    <3> QED BY <2>3, <3>2
  <2> QED BY <2>2, <2>3
<1> QED BY <1>1, <1>2, DefinedStep, CacheInvariant, PTL DEF Spec
=============================================================================
