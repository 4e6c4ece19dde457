----------------------------- MODULE UnionObject -----------------------------
(****************************************************************************)
(* The accessors of a Sparsam::Union (lib/sparsam/union.rb) on the threads   *)
(* that share it.  Ruby may switch threads between any two reads or writes   *)
(* of instance variables, so each of them is a step.                         *)
(****************************************************************************)
CONSTANTS
  Fields,     \* the union's fields; the variable of f is @f
  Values,     \* what may be assigned
  Threads,
  Nil,        \* one of the Values
  Undefined,  \* what an instance variable is that is not there
  NULL        \* a @setfield of nil; no result yet

ASSUME UnionAssumption ==
  /\ Nil \in Values
  /\ Undefined \notin Values
  /\ NULL \notin Fields
  /\ Threads # {}

\* No field at all is not a field with a value.
ASSUME NullAssumption == NULL \notin [field : Fields, value : Values]

VARIABLES
  setfield,  \* @setfield
  ivars,     \* field |-> its instance variable
  th,        \* thread |-> where it is
  got,       \* thread |-> what its last operation returned or raised
  bornSet    \* history: new was given a field

vars == <<setfield, ivars, th, got, bornSet>>

(****************************************************************************)
(* A thread is idle, or before the next access of its setter or getter of    *)
(* field, or of get_value, with the value to assign and the name of a        *)
(* variable it has read from @setfield.                                      *)
(****************************************************************************)
Setter == {"test", "name", "remove", "assign", "store"}
Getter == {"compare", "get"}
PC == {"idle", "testValue", "nameValue"} \cup Setter \cup Getter

Thread == [pc : PC, field : Fields \cup {NULL}, value : Values, name : Fields \cup {NULL}]

Running(pc, field, value, name) ==
  [pc |-> pc, field |-> field, value |-> value, name |-> name]
Idle == Running("idle", NULL, Nil, NULL)

Defined == {f \in Fields : ivars[f] # Undefined}

At(t, pc) == th[t].pc = pc
CallOf(t, call) == At(t, "idle") /\ th' = [th EXCEPT ![t] = call]
Goto(t, pc) ==
  th' = [th EXCEPT ![t] = Running(pc, th[t].field, th[t].value, th[t].name)]
Finish(t, result) == th' = [th EXCEPT ![t] = Idle] /\ got' = [got EXCEPT ![t] = result]

\* Union#initialize, or readUnion: empty, or with one field.
Init ==
  /\ \E f \in Fields, v \in Values :
       /\ setfield \in {NULL, f}
       /\ ivars = [g \in Fields |-> IF g = setfield THEN v ELSE Undefined]
  /\ th = [t \in Threads |-> Idle]
  /\ got = [t \in Threads |-> NULL]
  /\ bornSet = (setfield # NULL)

\* union.f = v
CallSetter(t, f, v) ==
  /\ CallOf(t, Running("test", f, v, NULL))
  /\ UNCHANGED <<setfield, ivars, got, bornSet>>

\* Mutant: the old variable is left where it is.
TestNothing(t) ==
  /\ At(t, "test")
  /\ Goto(t, "assign")
  /\ UNCHANGED <<setfield, ivars, got, bornSet>>

\* if @setfield
Test(t) ==
  /\ At(t, "test")
  /\ Goto(t, IF setfield = NULL THEN "assign" ELSE "name")
  /\ UNCHANGED <<setfield, ivars, got, bornSet>>

\* :"@#{@setfield}"
Name(t) ==
  /\ At(t, "name")
  /\ th' = [th EXCEPT ![t] = Running("remove", th[t].field, th[t].value, setfield)]
  /\ UNCHANGED <<setfield, ivars, got, bornSet>>

\* Mutant: a variable that is not there is not complained of.
RemoveQuietly(t) ==
  /\ At(t, "remove")
  /\ ivars' = [ivars EXCEPT ![th[t].name] = Undefined]
  /\ Goto(t, "assign")
  /\ UNCHANGED <<setfield, got, bornSet>>

\* remove_instance_variable, which raises NameError if it is not there
Remove(t) ==
  /\ At(t, "remove")
  /\ IF ivars[th[t].name] = Undefined
     THEN Finish(t, "NameError") /\ UNCHANGED ivars
     ELSE /\ ivars' = [ivars EXCEPT ![th[t].name] = Undefined]
          /\ th' = [th EXCEPT ![t] = Running("assign", th[t].field, th[t].value, NULL)]
          /\ UNCHANGED got
  /\ UNCHANGED <<setfield, bornSet>>

\* Mutant: @setfield ||= :f
AssignOnce(t) ==
  /\ At(t, "assign")
  /\ setfield' = IF setfield = NULL THEN th[t].field ELSE setfield
  /\ Goto(t, "store")
  /\ UNCHANGED <<ivars, got, bornSet>>

\* @setfield = :f
Assign(t) ==
  /\ At(t, "assign")
  /\ setfield' = th[t].field
  /\ Goto(t, "store")
  /\ UNCHANGED <<ivars, got, bornSet>>

\* instance_variable_set(:@f, value)
Store(t) ==
  /\ At(t, "store")
  /\ ivars' = [ivars EXCEPT ![th[t].field] = th[t].value]
  /\ th' = [th EXCEPT ![t] = Idle]
  /\ UNCHANGED <<setfield, got, bornSet>>

\* union.f
CallGetter(t, f) ==
  /\ CallOf(t, Running("compare", f, Nil, NULL))
  /\ UNCHANGED <<setfield, ivars, got, bornSet>>

\* if :f == @setfield
Compare(t) ==
  /\ At(t, "compare")
  /\ IF th[t].field = setfield THEN Goto(t, "get") /\ UNCHANGED got
                               ELSE Finish(t, "UnionException")
  /\ UNCHANGED <<setfield, ivars, bornSet>>

\* instance_variable_get(:@f), nil if it is not there
Fetch(t) ==
  /\ At(t, "get")
  /\ LET v == ivars[th[t].field] IN Finish(t, IF v = Undefined THEN Nil ELSE v)
  /\ UNCHANGED <<setfield, ivars, bornSet>>

\* union.get_value
CallGetValue(t) ==
  /\ CallOf(t, Running("testValue", NULL, Nil, NULL))
  /\ UNCHANGED <<setfield, ivars, got, bornSet>>

\* if @setfield
TestValue(t) ==
  /\ At(t, "testValue")
  /\ IF setfield = NULL THEN Finish(t, Nil) ELSE Goto(t, "nameValue") /\ UNCHANGED got
  /\ UNCHANGED <<setfield, ivars, bornSet>>

\* send(name_to_accessors(@setfield).reader)
NameValue(t) ==
  /\ At(t, "nameValue")
  /\ th' = [th EXCEPT ![t] = Running("compare", setfield, Nil, NULL)]
  /\ UNCHANGED <<setfield, ivars, got, bornSet>>

Step(t) ==
  \/ \E f \in Fields, v \in Values : CallSetter(t, f, v)
  \/ Test(t) \/ Name(t) \/ Remove(t) \/ Assign(t) \/ Store(t)
  \/ \E f \in Fields : CallGetter(t, f)
  \/ Compare(t) \/ Fetch(t)
  \/ CallGetValue(t) \/ TestValue(t) \/ NameValue(t)

Next == \E t \in Threads : Step(t)

Spec == Init /\ [][Next]_vars

-----------------------------------------------------------------------------
\* The shape of the state.
TypeOK ==
  /\ setfield \in Fields \cup {NULL}
  /\ ivars \in [Fields -> Values \cup {Undefined}]
  /\ th \in [Threads -> Thread]
  /\ got \in [Threads -> Values \cup {NULL, "UnionException", "NameError"}]
  /\ bornSet \in BOOLEAN
  /\ \A t \in Threads : th[t].pc \in {"name", "store", "nameValue"} => setfield # NULL
  /\ \A t \in Threads : th[t].pc = "remove" => th[t].name # NULL
  /\ \A t \in Threads : th[t].pc \in Setter \cup Getter => th[t].field # NULL

\* Whenever no setter is under way, however many there were at once and whatever
\* they raised, @setfield names a variable that is there: the next getter finds
\* its value, and the next setter can remove it (union.rb:66-73).
AtRest == \A t \in Threads : th[t].pc \notin Setter
BackedAtRest == AtRest => setfield = NULL \/ setfield \in Defined

\* A union that was given a field when it was made never comes to hold two,
\* whatever its threads do: to remove the old variable is to win the right to
\* set the new one.  What is serialized of it, the reader accepts.
BornSetStaysSingle == bornSet => \A f, g \in Defined : f = g

\* One that was made empty may, but not more than there are threads: only those
\* that found @setfield nil add a field without removing one, and each can do so
\* once.
AtMostOnePerThread ==
  \E who \in [Fields -> Threads] :
    \A f, g \in Defined : who[f] = who[g] => f = g

(****************************************************************************)
(* For one thread, the register.  A set takes effect when the old variable   *)
(* is gone.                                                                  *)
(****************************************************************************)
Setting == {t \in Threads : th[t].pc \in {"assign", "store"}}
held ==
  IF Setting # {}
  THEN LET t == CHOOSE u \in Setting : TRUE IN [field |-> th[t].field, value |-> th[t].value]
  ELSE IF setfield = NULL THEN NULL
  ELSE [field |-> setfield, value |-> ivars[setfield]]

Register == INSTANCE UnionRegister

\* On one thread a union is a register: no accessor raises but for a field that
\* is not the one last set, and what is read is what was last set
\* (spec/sparsam_spec.rb:300-314).
IsRegister == Register!Spec
=============================================================================
