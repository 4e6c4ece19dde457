-------------------------- MODULE UnionObjectProofs --------------------------
(****************************************************************************)
(* For any fields, values and threads: a union at rest is backed, one made   *)
(* with a field holds no second, one made empty holds no more than there are *)
(* threads; and on one thread a union implements its register.               *)
(****************************************************************************)
EXTENDS UnionObject, TLAPS

\* Every state of a union has the shape TypeOK gives it: a thread that names or
\* removes a variable has found @setfield set.
THEOREM UnionTypeCorrect == Spec => []TypeOK
<1>1. Init => TypeOK
  BY UnionAssumption DEF Init, TypeOK, Thread, PC, Idle, Setter, Getter, Running
<1>2. TypeOK /\ [Next]_vars => TypeOK'
  <2> SUFFICES ASSUME TypeOK, [Next]_vars PROVE TypeOK'
    OBVIOUS
  <2> USE UnionAssumption DEF TypeOK, Thread, PC, Setter, Getter, Running
  <2>1. ASSUME NEW t \in Threads, NEW f \in Fields, NEW v \in Values, CallSetter(t, f, v)
        PROVE  TypeOK'
    BY <2>1 DEF CallSetter, CallOf, At
  <2>2. ASSUME NEW t \in Threads, Test(t) PROVE TypeOK'
    BY <2>2 DEF Test, At, Goto
  <2>3. ASSUME NEW t \in Threads, Name(t) PROVE TypeOK'
    BY <2>3 DEF Name, At
  <2>4. ASSUME NEW t \in Threads, Remove(t) PROVE TypeOK'
    <3>1. th[t] \in Thread /\ th[t].field # NULL
      BY <2>4 DEF Remove, At
    <3>2. CASE ivars[th[t].name] = Undefined
      <4>1. th' = [th EXCEPT ![t] = Idle] /\ got' = [got EXCEPT ![t] = "NameError"]
        BY <2>4, <3>2 DEF Remove, Finish
      <4>2. UNCHANGED <<setfield, ivars, bornSet>>
        BY <2>4, <3>2 DEF Remove
      <4>3. QED BY <4>1, <4>2 DEF Idle
    <3>3. CASE ivars[th[t].name] # Undefined
      <4>1. th' = [th EXCEPT ![t] = Running("assign", th[t].field, th[t].value, NULL)]
        BY <2>4, <3>3 DEF Remove
      <4>2. UNCHANGED <<setfield, got, bornSet>> /\ ivars' = [ivars EXCEPT ![th[t].name] = Undefined]
        BY <2>4, <3>3 DEF Remove
      <4>3. ivars' \in [Fields -> Values \cup {Undefined}]
        BY <4>2
      <4>4. th' \in [Threads -> Thread]
        BY <3>1, <4>1
      <4>5. QED BY <3>1, <4>1, <4>2, <4>3, <4>4
    <3>4. QED BY <3>2, <3>3
  <2>5. ASSUME NEW t \in Threads, Assign(t) PROVE TypeOK'
    BY <2>5 DEF Assign, At, Goto
  <2>6. ASSUME NEW t \in Threads, Store(t) PROVE TypeOK'
    BY <2>6 DEF Store, At, Idle
  <2>7. ASSUME NEW t \in Threads, NEW f \in Fields, CallGetter(t, f) PROVE TypeOK'
    <3>1. th' = [th EXCEPT ![t] = Running("compare", f, Nil, NULL)]
      BY <2>7 DEF CallGetter, CallOf
    <3>2. th' \in [Threads -> Thread]
      BY <3>1
    <3>3. QED BY <2>7, <3>1, <3>2 DEF CallGetter
  <2>8. ASSUME NEW t \in Threads, Compare(t) PROVE TypeOK'
    <3>1. CASE th[t].field = setfield
      BY SMTT(40), <2>8, <3>1 DEF Compare, At, Goto
    <3>2. CASE th[t].field # setfield
      BY SMTT(40), <2>8, <3>2 DEF Compare, Finish, Idle
    <3>3. QED BY <3>1, <3>2
  <2>9. ASSUME NEW t \in Threads, Fetch(t) PROVE TypeOK'
    BY <2>9 DEF Fetch, At, Finish, Idle
  <2>10. ASSUME NEW t \in Threads, CallGetValue(t) PROVE TypeOK'
    <3>1. th' = [th EXCEPT ![t] = Running("testValue", NULL, Nil, NULL)]
      BY <2>10 DEF CallGetValue, CallOf
    <3>2. th' \in [Threads -> Thread]
      BY <3>1
    <3>3. QED BY <2>10, <3>1, <3>2 DEF CallGetValue
  <2>11. ASSUME NEW t \in Threads, TestValue(t) PROVE TypeOK'
    <3>1. CASE setfield = NULL
      BY SMTT(40), <2>11, <3>1 DEF TestValue, Finish, Idle
    <3>2. CASE setfield # NULL
      BY SMTT(40), <2>11, <3>2 DEF TestValue, At, Goto
    <3>3. QED BY <3>1, <3>2
  <2>12. ASSUME NEW t \in Threads, NameValue(t) PROVE TypeOK'
    BY <2>12 DEF NameValue, At
  <2>13. CASE UNCHANGED vars
    BY <2>13 DEF vars
  <2>14. QED
    BY <2>1, <2>2, <2>3, <2>4, <2>5, <2>6, <2>7, <2>8, <2>9, <2>10, <2>11, <2>12, <2>13
       DEF Next, Step
<1>3. QED BY <1>1, <1>2, PTL DEF Spec

\* A step that is none of the setter's reads and writes nothing, and moves no
\* thread into a setter beyond its first test or out of one.
LEMMA OtherSteps ==
  ASSUME TypeOK, [Next]_vars,
         ~ \E t \in Threads : Test(t) \/ Remove(t) \/ Assign(t) \/ Store(t)
  PROVE  /\ UNCHANGED <<setfield, ivars, bornSet>>
         /\ \A u \in Threads :
              /\ th'[u].pc \in {"assign", "store"} <=> th[u].pc \in {"assign", "store"}
              /\ th[u].pc \in {"assign", "store"} => th'[u] = th[u]
<1> DEFINE Same == /\ UNCHANGED <<setfield, ivars, bornSet>>
                   /\ \A u \in Threads :
                        /\ th'[u].pc \in {"assign", "store"} <=> th[u].pc \in {"assign", "store"}
                        /\ th[u].pc \in {"assign", "store"} => th'[u] = th[u]
<1> USE DEF TypeOK, Thread, Running
<1>1. ASSUME NEW t \in Threads, NEW f \in Fields, NEW v \in Values, CallSetter(t, f, v)
      PROVE  Same
  BY <1>1 DEF CallSetter, CallOf, At
<1>2. ASSUME NEW t \in Threads, Name(t) PROVE Same
  BY <1>2 DEF Name, At
<1>3. ASSUME NEW t \in Threads, NEW f \in Fields, CallGetter(t, f) PROVE Same
  BY <1>3 DEF CallGetter, CallOf, At, Idle
<1>4. ASSUME NEW t \in Threads, Compare(t) PROVE Same
  BY <1>4 DEF Compare, At, Goto, Finish, Idle
<1>5. ASSUME NEW t \in Threads, Fetch(t) PROVE Same
  BY <1>5 DEF Fetch, At, Finish, Idle
<1>6. ASSUME NEW t \in Threads, CallGetValue(t) PROVE Same
  BY <1>6 DEF CallGetValue, CallOf, At, Idle
<1>7. ASSUME NEW t \in Threads, TestValue(t) PROVE Same
  BY <1>7 DEF TestValue, At, Goto, Finish, Idle
<1>8. ASSUME NEW t \in Threads, NameValue(t) PROVE Same
  BY <1>8 DEF NameValue, At
<1>9. CASE UNCHANGED vars
  BY <1>9 DEF vars
<1>10. QED
  BY <1>1, <1>2, <1>3, <1>4, <1>5, <1>6, <1>7, <1>8, <1>9 DEF Next, Step

-----------------------------------------------------------------------------
(****************************************************************************)
(* Where @setfield names a variable that is not there, some setter is on its *)
(* way to name another, or to store this one.                                *)
(****************************************************************************)
Backing ==
  setfield # NULL /\ ivars[setfield] = Undefined =>
    \E t \in Threads :
      \/ th[t].pc = "assign"
      \/ th[t].pc = "store" /\ th[t].field = setfield

\* However many setters overlapped and whatever they raised, once none is under
\* way @setfield names a variable that is there (union.rb:66-73).
THEOREM RestingUnionIsBacked == Spec => []BackedAtRest
<1>1. Init => Backing
  BY UnionAssumption DEF Init, Backing
<1>2. TypeOK /\ Backing /\ [Next]_vars => Backing'
  <2> SUFFICES ASSUME TypeOK, Backing, [Next]_vars PROVE Backing'
    OBVIOUS
  <2> USE UnionAssumption DEF TypeOK, Thread, Running, Backing
  <2>1. ASSUME NEW t \in Threads, Test(t) PROVE Backing'
    BY <2>1 DEF Test, At, Goto
  <2>2. ASSUME NEW t \in Threads, Remove(t) PROVE Backing'
    <3>1. CASE ivars[th[t].name] = Undefined
      BY <2>2, <3>1 DEF Remove, At, Finish, Idle
    <3>2. CASE ivars[th[t].name] # Undefined
      <4>1. th'[t].pc = "assign"
        BY <2>2, <3>2 DEF Remove
      <4>2. QED BY <4>1
    <3>3. QED BY <3>1, <3>2
  <2>3. ASSUME NEW t \in Threads, Assign(t) PROVE Backing'
    <3>1. th'[t].pc = "store" /\ th'[t].field = setfield'
      BY <2>3 DEF Assign, At, Goto
    <3>2. QED BY <3>1
  <2>4. ASSUME NEW t \in Threads, Store(t) PROVE Backing'
    <3>1. th[t].field \in Fields /\ ivars'[th[t].field] # Undefined /\ setfield' = setfield
      BY <2>4 DEF Store, At, Setter
    <3>2. CASE setfield = th[t].field
      BY <3>1, <3>2
    <3>3. CASE setfield # th[t].field
      BY <2>4, <3>1, <3>3 DEF Store, At
    <3>4. QED BY <3>2, <3>3
  <2>5. CASE ~ \E t \in Threads : Test(t) \/ Remove(t) \/ Assign(t) \/ Store(t)
    BY <2>5, OtherSteps
  <2>6. QED BY <2>1, <2>2, <2>3, <2>4, <2>5
<1>3. TypeOK /\ Backing => BackedAtRest
  BY DEF TypeOK, Backing, BackedAtRest, AtRest, Setter, Defined
<1>4. QED BY <1>1, <1>2, <1>3, UnionTypeCorrect, PTL DEF Spec

-----------------------------------------------------------------------------
(****************************************************************************)
(* The right to store a field is had by removing the one that was there: a   *)
(* union born with a field has either that or one thread that may store.     *)
(****************************************************************************)
OneRight ==
  bornSet => /\ setfield # NULL
             /\ \A f, g \in Defined : f = g
             /\ \A t, u \in Setting : t = u
             /\ Defined = {} \/ Setting = {}

\* A union made with a field never holds two, whatever its threads do.
THEOREM BornSetHoldsOne == Spec => []BornSetStaysSingle
<1>1. Init => OneRight
  <2> SUFFICES ASSUME Init, bornSet PROVE OneRight
    BY DEF OneRight
  <2>1. bornSet = (setfield # NULL)
    BY DEF Init
  <2>2. setfield # NULL
    BY Zenon, <2>1
  <2>3. \A f, g \in Defined : f = g
    BY UnionAssumption DEF Init, Defined
  <2>4. Setting = {}
    BY DEF Init, Setting, Idle, Running
  <2>5. QED BY <2>2, <2>3, <2>4 DEF OneRight
<1>2. TypeOK /\ OneRight /\ [Next]_vars => OneRight'
  <2> SUFFICES ASSUME TypeOK, OneRight, [Next]_vars, bornSet' PROVE OneRight'
    BY DEF OneRight
  <2> USE UnionAssumption DEF TypeOK, Thread, OneRight, Defined, Setting, Running
  <2>1. ASSUME NEW t \in Threads, Test(t) PROVE OneRight'
    BY <2>1 DEF Test, At, Goto
  <2>2. ASSUME NEW t \in Threads, Remove(t) PROVE OneRight'
    <3>1. CASE ivars[th[t].name] = Undefined
      BY SMTT(40), <2>2, <3>1 DEF Remove, At, Finish, Idle
    <3>2. CASE ivars[th[t].name] # Undefined
      <4>1. th[t].name \in Defined /\ Setting = {} /\ Defined = {th[t].name}
        BY <2>2, <3>2 DEF Remove, At
      <4>2. Defined' = {} /\ Setting' = {t} /\ setfield' = setfield
        BY <2>2, <3>2, <4>1 DEF Remove, At
      <4>3. QED BY <2>2, <4>2 DEF Remove
    <3>3. QED BY <3>1, <3>2
  <2>3. ASSUME NEW t \in Threads, Assign(t) PROVE OneRight'
    <3>1. Setting' = Setting /\ Defined' = Defined /\ setfield' # NULL
      BY <2>3 DEF Assign, At, Goto, Setter
    <3>2. QED BY <2>3, <3>1 DEF Assign
  <2>4. ASSUME NEW t \in Threads, Store(t) PROVE OneRight'
    <3>1. Setting = {t} /\ Defined = {}
      BY <2>4 DEF Store, At
    <3>2. Setting' = {} /\ Defined' = {th[t].field} /\ setfield' = setfield
      BY <2>4, <3>1 DEF Store, At, Idle, Setter
    <3>3. QED BY <2>4, <3>2 DEF Store
  <2>5. CASE ~ \E t \in Threads : Test(t) \/ Remove(t) \/ Assign(t) \/ Store(t)
    <3>1. Setting' = Setting
      BY <2>5, OtherSteps
    <3>2. ivars' = ivars
      BY <2>5, OtherSteps
    <3>3. Defined' = Defined
      BY <3>2
    <3>4. QED BY ZenonT(40), <2>5, <3>1, <3>3, OtherSteps
  <2>6. QED BY <2>1, <2>2, <2>3, <2>4, <2>5
<1>3. OneRight => BornSetStaysSingle
  BY DEF OneRight, BornSetStaysSingle
<1>4. QED BY <1>1, <1>2, <1>3, UnionTypeCorrect, PTL DEF Spec

-----------------------------------------------------------------------------
(****************************************************************************)
(* Every field that is there, and every thread that may store one, is some   *)
(* thread's own: the one that found @setfield nil.  A thread that removes a  *)
(* variable takes it over from its owner.                                    *)
(****************************************************************************)
OwnedBy(who, by) ==
  /\ \A f, g \in Defined : who[f] = who[g] => f = g
  /\ \A t, u \in Setting : by[t] = by[u] => t = u
  /\ \A f \in Defined, t \in Setting : who[f] # by[t]
  /\ setfield = NULL => Defined = {} /\ \A t \in Threads : by[t] = t

Owned == \E who \in [Fields -> Threads], by \in [Threads -> Threads] : OwnedBy(who, by)

\* A union that was made empty never holds more fields than it has threads.
THEOREM FieldsHaveOwners == Spec => []AtMostOnePerThread
<1>1. Init => Owned
  <2> SUFFICES ASSUME Init PROVE Owned
    OBVIOUS
  <2>1. PICK t \in Threads : TRUE
    BY UnionAssumption
  <2> DEFINE who == [f \in Fields |-> t]
             by == [u \in Threads |-> u]
  <2>2. who \in [Fields -> Threads] /\ by \in [Threads -> Threads]
    OBVIOUS
  <2>3. Setting = {}
    BY DEF Init, Setting, Idle, Running
  <2>4. \A f, g \in Defined : f = g
    BY UnionAssumption DEF Init, Defined
  <2>5. setfield = NULL => Defined = {}
    BY UnionAssumption DEF Init, Defined
  <2>6. OwnedBy(who, by)
    BY <2>3, <2>4, <2>5 DEF OwnedBy
  <2>7. QED BY <2>2, <2>6 DEF Owned
<1>2. TypeOK /\ Owned /\ [Next]_vars => Owned'
  <2> SUFFICES ASSUME TypeOK, [Next]_vars,
                      NEW who \in [Fields -> Threads], NEW by \in [Threads -> Threads],
                      OwnedBy(who, by)
               PROVE  Owned'
    BY DEF Owned
  <2>1. ASSUME NEW t \in Threads, Test(t) PROVE Owned'
    <3>1. UNCHANGED <<setfield, ivars>> /\ Defined' = Defined
      BY <2>1 DEF Test, Defined
    <3>2. CASE setfield = NULL
      <4>1. \A u \in Threads : u # t => th'[u] = th[u]
        BY <2>1 DEF Test, Goto, TypeOK
      <4>2. OwnedBy(who, by)'
        BY <3>1, <3>2, <4>1 DEF OwnedBy, Setting
      <4>3. QED BY <4>2 DEF Owned
    <3>3. CASE setfield # NULL
      <4>1. Setting' = Setting
        BY <2>1, <3>3 DEF Test, At, Goto, Running, TypeOK, Setting
      <4>2. OwnedBy(who, by)'
        BY <3>1, <3>3, <4>1 DEF OwnedBy
      <4>3. QED BY <4>2 DEF Owned
    <3>4. QED BY <3>2, <3>3
  <2>2. ASSUME NEW t \in Threads, Remove(t) PROVE Owned'
    <3>1. setfield' = setfield
      BY <2>2 DEF Remove
    <3>2. CASE ivars[th[t].name] = Undefined
      <4>1. Setting' = Setting
        BY <2>2, <3>2 DEF Remove, At, Finish, Idle, Running, TypeOK, Setting
      <4>2. Defined' = Defined
        BY <2>2, <3>2 DEF Remove, Defined
      <4>3. OwnedBy(who, by)'
        BY <3>1, <4>1, <4>2 DEF OwnedBy
      <4>4. QED BY <4>3 DEF Owned
    <3>3. CASE ivars[th[t].name] # Undefined
      <4>1. th[t].name \in Defined /\ t \notin Setting
        BY <2>2, <3>3 DEF Remove, At, TypeOK, Thread, Defined, Setting
      <4>2. Defined' = Defined \ {th[t].name}
        BY <2>2, <3>3, <4>1 DEF Remove, Defined, TypeOK
      <4>3. Setting' = Setting \cup {t}
        BY <2>2, <3>3 DEF Remove, Running, TypeOK, Setting
      <4>4. setfield # NULL
        BY <4>1 DEF OwnedBy
      <4>5. PICK by2 \in [Threads -> Threads] : by2 = [by EXCEPT ![t] = who[th[t].name]]
        BY <4>1 DEF Defined
      <4>6. by2[t] = who[th[t].name] /\ \A u \in Setting : by2[u] = by[u]
        BY <4>1, <4>5 DEF Setting
      <4>7. \A u, w \in Setting' : by2[u] = by2[w] => u = w
        BY <4>1, <4>3, <4>6 DEF OwnedBy
      <4>8. \A f \in Defined', u \in Setting' : who[f] # by2[u]
        BY <4>1, <4>2, <4>3, <4>6 DEF OwnedBy
      <4>9. \A f, g \in Defined' : who[f] = who[g] => f = g
        BY <4>2 DEF OwnedBy
      <4>10. OwnedBy(who, by2)'
        BY <3>1, <4>4, <4>7, <4>8, <4>9 DEF OwnedBy
      <4>11. QED BY <4>10 DEF Owned
    <3>4. QED BY <3>2, <3>3
  <2>3. ASSUME NEW t \in Threads, Assign(t) PROVE Owned'
    <3>1. Setting' = Setting
      BY <2>3 DEF Assign, At, Goto, Running, TypeOK, Setting
    <3>2. Defined' = Defined
      BY <2>3 DEF Assign, Defined
    <3>3. setfield' # NULL
      BY <2>3, UnionAssumption DEF Assign, At, TypeOK, Thread, Setter
    <3>4. OwnedBy(who, by)'
      BY <3>1, <3>2, <3>3 DEF OwnedBy
    <3>5. QED BY <3>4 DEF Owned
  <2>4. ASSUME NEW t \in Threads, Store(t) PROVE Owned'
    <3>1. th[t].field \in Fields /\ th[t].value # Undefined /\ t \in Setting
      BY <2>4, UnionAssumption DEF Store, At, TypeOK, Thread, Setter, Setting
    <3>2. Defined' = Defined \cup {th[t].field}
      BY <2>4, <3>1 DEF Store, Defined, TypeOK
    <3>3. Setting' = Setting \ {t}
      BY <2>4 DEF Store, Idle, Running, TypeOK, Setting
    <3>4. setfield' # NULL
      BY <2>4 DEF Store, At, TypeOK
    <3>5. PICK who2 \in [Fields -> Threads] : who2 = [who EXCEPT ![th[t].field] = by[t]]
      OBVIOUS
    <3>6. who2[th[t].field] = by[t] /\ \A f \in Defined : f # th[t].field => who2[f] = who[f]
      BY <3>1, <3>5 DEF Defined
    <3>7. \A f, g \in Defined' : who2[f] = who2[g] => f = g
      BY <3>1, <3>2, <3>6 DEF OwnedBy
    <3>8. \A f \in Defined', u \in Setting' : who2[f] # by[u]
      BY <3>1, <3>2, <3>3, <3>6 DEF OwnedBy
    <3>9. \A u, w \in Setting' : by[u] = by[w] => u = w
      BY <3>3 DEF OwnedBy
    <3>10. OwnedBy(who2, by)'
      BY <3>4, <3>7, <3>8, <3>9 DEF OwnedBy
    <3>11. QED BY <3>10 DEF Owned
  <2>5. CASE ~ \E t \in Threads : Test(t) \/ Remove(t) \/ Assign(t) \/ Store(t)
    <3>1. Setting' = Setting
      BY <2>5, OtherSteps DEF Setting
    <3>2. UNCHANGED <<setfield, ivars>>
      BY <2>5, OtherSteps
    <3>3. Defined' = Defined
      BY <3>2 DEF Defined
    <3>4. OwnedBy(who, by)'
      BY <3>1, <3>2, <3>3 DEF OwnedBy
    <3>5. QED BY <3>4 DEF Owned
  <2>6. QED BY <2>1, <2>2, <2>3, <2>4, <2>5
<1>3. Owned => AtMostOnePerThread
  BY DEF Owned, OwnedBy, AtMostOnePerThread
<1>4. QED BY <1>1, <1>2, <1>3, UnionTypeCorrect, PTL DEF Spec

-----------------------------------------------------------------------------
(****************************************************************************)
(* On one thread, what a step has read of the union still holds at the next. *)
(****************************************************************************)
Undisturbed ==
  \A t \in Threads :
    /\ setfield # NULL /\ th[t].pc # "assign" /\ th[t].pc # "store" => setfield \in Defined
    /\ th[t].pc = "remove" => th[t].name = setfield
    /\ th[t].pc \in {"store", "get"} => th[t].field = setfield

LEMMA AloneIsUndisturbed ==
  ASSUME NEW t \in Threads, Threads = {t}
  PROVE  Spec => []Undisturbed
<1>1. Init => Undisturbed
  BY UnionAssumption DEF Init, Undisturbed, Defined, Idle, Running
<1>2. TypeOK /\ Undisturbed /\ [Next]_vars => Undisturbed'
  <2> SUFFICES ASSUME TypeOK, Undisturbed, [Next]_vars PROVE Undisturbed'
    OBVIOUS
  <2> USE UnionAssumption DEF TypeOK, Thread, Undisturbed, Running
  <2>1. ASSUME NEW f \in Fields, NEW v \in Values, CallSetter(t, f, v) PROVE Undisturbed'
    BY <2>1 DEF CallSetter, CallOf, At, Defined
  <2>2. ASSUME Test(t) PROVE Undisturbed'
    BY <2>2 DEF Test, At, Goto, Defined
  <2>3. ASSUME Name(t) PROVE Undisturbed'
    BY <2>3 DEF Name, At, Defined
  <2>4. ASSUME Remove(t) PROVE Undisturbed'
    <3>1. ivars[th[t].name] # Undefined
      BY <2>4 DEF Remove, At, Defined
    <3>2. th'[t].pc = "assign"
      BY <2>4, <3>1 DEF Remove
    <3>3. QED BY <3>2
  <2>5. ASSUME Assign(t) PROVE Undisturbed'
    BY <2>5 DEF Assign, At, Goto
  <2>6. ASSUME Store(t) PROVE Undisturbed'
    <3>1. th'[t] = Idle /\ setfield' = setfield /\ th[t].field = setfield
      BY <2>6 DEF Store, At
    <3>2. setfield \in Fields /\ ivars'[setfield] = th[t].value
      BY <2>6, <3>1 DEF Store, At, Setter
    <3>3. QED BY <3>1, <3>2 DEF Idle, Defined
  <2>7. ASSUME NEW f \in Fields, CallGetter(t, f) PROVE Undisturbed'
    BY <2>7 DEF CallGetter, CallOf, At, Defined
  <2>8. ASSUME Compare(t) PROVE Undisturbed'
    <3>1. CASE th[t].field = setfield
      BY <2>8, <3>1 DEF Compare, At, Goto, Defined
    <3>2. CASE th[t].field # setfield
      BY <2>8, <3>2 DEF Compare, At, Finish, Idle, Defined
    <3>3. QED BY <3>1, <3>2
  <2>9. ASSUME Fetch(t) PROVE Undisturbed'
    BY <2>9 DEF Fetch, At, Finish, Idle, Defined
  <2>10. ASSUME CallGetValue(t) PROVE Undisturbed'
    BY <2>10 DEF CallGetValue, CallOf, At, Defined
  <2>11. ASSUME TestValue(t) PROVE Undisturbed'
    BY <2>11 DEF TestValue, At, Goto, Finish, Idle, Defined
  <2>12. ASSUME NameValue(t) PROVE Undisturbed'
    BY <2>12 DEF NameValue, At, Defined
  <2>13. CASE UNCHANGED vars
    BY <2>13 DEF vars, Defined
  <2>14. QED
    BY <2>1, <2>2, <2>3, <2>4, <2>5, <2>6, <2>7, <2>8, <2>9, <2>10, <2>11, <2>12, <2>13
       DEF Next, Step
<1>3. QED BY <1>1, <1>2, UnionTypeCorrect, PTL DEF Spec

\* What the register holds, on one thread, is what the setter under way will
\* store, or else what @setfield names.
HeldBy(t) ==
  /\ th[t].pc \in {"assign", "store"} =>
       held = [field |-> th[t].field, value |-> th[t].value]
  /\ th[t].pc \notin {"assign", "store"} /\ setfield = NULL => held = NULL
  /\ th[t].pc \notin {"assign", "store"} /\ setfield # NULL =>
       held = [field |-> setfield, value |-> ivars[setfield]]

LEMMA HeldAlone ==
  ASSUME NEW t \in Threads, Threads = {t}
  PROVE  HeldBy(t) /\ HeldBy(t)'
<1>1. HeldBy(t)
  <2>1. CASE th[t].pc \in {"assign", "store"}
    <3>1. Setting = {t}
      BY <2>1 DEF Setting
    <3>2. (CHOOSE u \in Setting : TRUE) = t
      BY <3>1
    <3>3. QED BY <2>1, <3>1, <3>2 DEF held, HeldBy
  <2>2. CASE th[t].pc \notin {"assign", "store"}
    <3>1. Setting = {}
      BY <2>2 DEF Setting
    <3>2. QED BY <2>2, <3>1 DEF held, HeldBy
  <2>3. QED BY <2>1, <2>2
<1>2. HeldBy(t)'
  <2>1. CASE th'[t].pc \in {"assign", "store"}
    <3>1. Setting' = {t}
      BY <2>1 DEF Setting
    <3>2. (CHOOSE u \in Setting' : TRUE) = t
      BY <3>1
    <3>3. QED BY <2>1, <3>1, <3>2 DEF held, HeldBy
  <2>2. CASE th'[t].pc \notin {"assign", "store"}
    <3>1. Setting' = {}
      BY <2>2 DEF Setting
    <3>2. QED BY <2>2, <3>1 DEF held, HeldBy
  <2>3. QED BY <2>1, <2>2
<1>3. QED BY <1>1, <1>2

\* On one thread a union is the register its callers take it for: each accessor
\* takes effect at one of its steps, and the others change nothing they can see.
THEOREM OneThreadIsRegister ==
  ASSUME NEW t \in Threads, Threads = {t}
  PROVE  Spec => IsRegister
<1>1. Init => Register!Init
  <2> SUFFICES ASSUME Init PROVE Register!Init
    OBVIOUS
  <2>1. th[t].pc = "idle"
    BY DEF Init, Idle, Running
  <2>2. got = [u \in Threads |-> NULL]
    BY DEF Init
  <2>3. held \in {NULL} \cup Register!Held
    <3>1. CASE setfield = NULL
      BY <2>1, <3>1, HeldAlone DEF HeldBy
    <3>2. CASE setfield # NULL
      <4>1. setfield \in Fields /\ ivars[setfield] \in Values
        BY <3>2 DEF Init
      <4>2. QED BY <2>1, <3>2, <4>1, HeldAlone DEF HeldBy, Register!Held
    <3>3. QED BY <3>1, <3>2
  <2>4. QED BY <2>2, <2>3 DEF Register!Init
<1>2. TypeOK /\ Undisturbed /\ [Next]_vars => [Register!Next]_(Register!vars)
  <2> SUFFICES ASSUME TypeOK, Undisturbed, [Next]_vars
               PROVE  Register!Next \/ UNCHANGED <<held, got>>
    BY DEF Register!vars
  <2>0. /\ HeldBy(t) /\ HeldBy(t)'
        /\ th[t] \in Thread
    BY HeldAlone DEF TypeOK
  <2>1. ASSUME NEW f \in Fields, NEW v \in Values, CallSetter(t, f, v)
        PROVE  UNCHANGED <<held, got>>
    BY <2>0, <2>1 DEF CallSetter, CallOf, At, HeldBy, Running, TypeOK
  <2>2. ASSUME Test(t) PROVE Register!Next \/ UNCHANGED <<held, got>>
    <3>1. CASE setfield = NULL
      <4>1. th'[t].pc = "assign" /\ th'[t].field = th[t].field /\ th'[t].value = th[t].value
        BY <2>2, <3>1 DEF Test, Goto, Running, TypeOK
      <4>2. th[t].field \in Fields /\ th[t].value \in Values
        BY <2>0, <2>2 DEF Test, At, TypeOK, Setter, Thread
      <4>3. Register!Set(th[t].field, th[t].value)
        BY <2>0, <2>2, <4>1 DEF Test, HeldBy, Register!Set
      <4>4. QED BY <4>2, <4>3 DEF Register!Next
    <3>2. CASE setfield # NULL
      BY <2>0, <2>2, <3>2 DEF Test, At, Goto, Running, TypeOK, HeldBy
    <3>3. QED BY <3>1, <3>2
  <2>3. ASSUME Name(t) PROVE UNCHANGED <<held, got>>
    BY <2>0, <2>3 DEF Name, At, Running, TypeOK, HeldBy
  <2>4. ASSUME Remove(t) PROVE Register!Next
    <3>1. ivars[th[t].name] # Undefined
      BY <2>4 DEF Remove, At, Defined, Undisturbed, TypeOK
    <3>2. th'[t].pc = "assign" /\ th'[t].field = th[t].field /\ th'[t].value = th[t].value
      BY <2>4, <3>1 DEF Remove, Running, TypeOK
    <3>3. th[t].field \in Fields /\ th[t].value \in Values
      BY <2>0, <2>4 DEF Remove, At, TypeOK, Setter, Thread
    <3>4. got' = got
      BY <2>4, <3>1 DEF Remove
    <3>5. Register!Set(th[t].field, th[t].value)
      BY <2>0, <3>2, <3>4 DEF HeldBy, Register!Set
    <3>6. QED BY <3>3, <3>5 DEF Register!Next
  <2>5. ASSUME Assign(t) PROVE UNCHANGED <<held, got>>
    BY <2>0, <2>5 DEF Assign, At, Goto, Running, TypeOK, HeldBy
  <2>6. ASSUME Store(t) PROVE UNCHANGED <<held, got>>
    <3>1. th'[t].pc = "idle" /\ UNCHANGED <<setfield, got>>
      BY <2>6 DEF Store, Idle, Running, TypeOK
    <3>2. setfield = th[t].field /\ setfield \in Fields
      BY <2>0, <2>6 DEF Store, At, Undisturbed, TypeOK, Setter, Thread
    <3>3. ivars'[setfield] = th[t].value
      BY <2>6, <3>2 DEF Store, TypeOK
    <3>4. QED BY <2>0, <2>6, <3>1, <3>2, <3>3, UnionAssumption DEF Store, At, HeldBy
  <2>7. ASSUME NEW f \in Fields, CallGetter(t, f) PROVE UNCHANGED <<held, got>>
    BY <2>0, <2>7 DEF CallGetter, CallOf, At, Running, TypeOK, HeldBy
  <2>8. ASSUME Compare(t) PROVE Register!Next \/ UNCHANGED <<held, got>>
    <3>1. CASE th[t].field = setfield
      BY <2>0, <2>8, <3>1 DEF Compare, At, Goto, Running, TypeOK, HeldBy
    <3>2. CASE th[t].field # setfield
      <4>1. th'[t].pc = "idle" /\ UNCHANGED <<setfield, ivars>>
        BY <2>8, <3>2 DEF Compare, Finish, Idle, Running, TypeOK
      <4>2. got' = [got EXCEPT ![t] = "UnionException"]
        BY <2>8, <3>2 DEF Compare, Finish
      <4>3. held' = held
        BY <2>0, <2>8, <4>1 DEF Compare, At, HeldBy
      <4>4. th[t].field \in Fields
        BY <2>0, <2>8 DEF Compare, At, TypeOK, Getter, Thread
      <4>5. ~ (held # NULL /\ held.field = th[t].field)
        BY <2>0, <2>8, <3>2 DEF Compare, At, HeldBy
      <4>6. Register!Get(t, th[t].field)
        BY <4>2, <4>3, <4>5 DEF Register!Get
      <4>7. QED BY <4>4, <4>6 DEF Register!Next
    <3>3. QED BY <3>1, <3>2
  <2>9. ASSUME Fetch(t) PROVE Register!Next
    <3>1. th[t].field = setfield /\ setfield \in Fields
      BY <2>0, <2>9 DEF Fetch, At, Undisturbed, TypeOK, Getter, Thread
    <3>2. ivars[setfield] # Undefined
      BY <2>9, <3>1, UnionAssumption DEF Fetch, At, Undisturbed, Defined
    <3>3. th'[t].pc = "idle" /\ UNCHANGED <<setfield, ivars>>
      BY <2>9 DEF Fetch, Finish, Idle, Running, TypeOK
    <3>4. held = [field |-> setfield, value |-> ivars[setfield]] /\ held' = held
      BY <2>0, <2>9, <3>1, <3>3, UnionAssumption DEF Fetch, At, HeldBy
    <3>5. got' = [got EXCEPT ![t] = ivars[setfield]]
      BY <2>9, <3>1, <3>2 DEF Fetch, Finish
    <3>6. held.value = ivars[setfield]
      BY <3>4
    <3>7. ivars[setfield] \in Values
      BY <3>1, <3>2 DEF TypeOK
    <3>8. held # NULL
      BY <3>1, <3>4, <3>7, NullAssumption
    <3>9. Register!GetValue(t)
      BY <3>4, <3>5, <3>6, <3>8 DEF Register!GetValue
    <3>10. QED BY <3>9 DEF Register!Next
  <2>10. ASSUME CallGetValue(t) PROVE UNCHANGED <<held, got>>
    BY <2>0, <2>10 DEF CallGetValue, CallOf, At, Running, TypeOK, HeldBy
  <2>11. ASSUME TestValue(t) PROVE Register!Next \/ UNCHANGED <<held, got>>
    <3>1. CASE setfield = NULL
      <4>1. th'[t].pc = "idle" /\ UNCHANGED <<setfield, ivars>>
        BY <2>11, <3>1 DEF TestValue, Finish, Idle, Running, TypeOK
      <4>2. got' = [got EXCEPT ![t] = Nil]
        BY <2>11, <3>1 DEF TestValue, Finish
      <4>3. held = NULL /\ held' = NULL
        BY <2>0, <2>11, <3>1, <4>1 DEF TestValue, At, HeldBy
      <4>4. Register!GetValue(t)
        BY <4>2, <4>3 DEF Register!GetValue
      <4>5. QED BY <4>4 DEF Register!Next
    <3>2. CASE setfield # NULL
      BY <2>0, <2>11, <3>2 DEF TestValue, At, Goto, Running, TypeOK, HeldBy
    <3>3. QED BY <3>1, <3>2
  <2>12. ASSUME NameValue(t) PROVE UNCHANGED <<held, got>>
    BY <2>0, <2>12 DEF NameValue, At, Running, TypeOK, HeldBy
  <2>13. CASE UNCHANGED vars
    <3>1. UNCHANGED <<setfield, ivars, th, got>>
      BY <2>13 DEF vars
    <3>2. QED BY <2>0, <3>1 DEF HeldBy
  <2>14. QED
    BY <2>1, <2>2, <2>3, <2>4, <2>5, <2>6, <2>7, <2>8, <2>9, <2>10, <2>11, <2>12, <2>13
       DEF Next, Step
<1>3. QED
  BY <1>1, <1>2, UnionTypeCorrect, AloneIsUndisturbed, PTL DEF Spec, IsRegister, Register!Spec
=============================================================================
