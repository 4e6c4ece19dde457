# A TLA+ model of Sparsam

Sparsam is a Thrift implementation for Ruby. A compiler (`compiler/`, C++) turns
`.thrift` files into Ruby classes; a C++ extension (`ext/`) serializes and
deserializes instances of those classes; a small Ruby library (`lib/`) is the
layer applications see. This directory models the program in TLA+, checks the
models with TLC and proves theorems about them with TLAPS.

Paths below are relative to the root of the repository.

## 1. Inventory

| Component | State it keeps | Operations | Talks to | What makes it correct |
|---|---|---|---|---|
| **Serializer, writing** `ext/serializer.cpp` 410-659 | the `TMemoryBuffer`, the C++ call stack | `serializer_writeStruct`, `writeStruct`, `checkRequiredFields`, `writeAny` | reads the caller's Ruby objects and the FieldInfo cache; raises Ruby exceptions | bytes come out only of data that conforms to the schema; an exception only of data that does not, and it names the place; it ends |
| **Serializer, reading** 191-408, 661-681 | buffer position, call stack, the objects built so far | `readStruct`, `readUnion`, `readAny`, `skip_n_*` | the FieldInfo cache; `klass.new` | what was written is read back, seen through the reader's class; a cut buffer is refused; mistyped data never becomes a mistyped field |
| **FieldInfo cache** 685-771 | `klassCache`, `unions`: global, keyed by class address | `FindOrCreateFieldInfoMap`, `CreateFieldInfo`, `cache_fields` | filled by `init_thrift_struct`, read by both serializers | an entry describes the class it is found under, and `unions` has every union in it |
| **Union objects** `lib/sparsam/union.rb` | `@setfield` and one instance variable | `initialize`, setters, getters, `==`, `hash` | written to directly by `readUnion` | the variable that is set is the one `@setfield` names |
| **Struct objects** `lib/sparsam/struct.rb`, `base_struct.rb`, `base_type.rb`, `ext/ruby_hooks.c` | instance variables; `DEFAULT_VALUES` shared by the class | `initialize`, accessors, `==`, `serialize`, `validate` | `readStruct` calls `new` | an object starts from its defaults, its own |
| **Compiler driver** `compiler/src/main.cc` | include graph, `program_to_scope`, parse mode | `include_file`, `parse` (two passes), `generate`, `audit` | the grammar fills `t_program` and `t_scope` | parsing ends; names mean the same wherever a file is included; every file is generated once |
| **Grammar actions** `thrifty.yy`, `parse/t_struct.h`, `t_field.h` | `y_field_val`, the struct being built | `FieldIdentifier`, `Field`, `append` | | ids are unique and fit what the extension keeps of them |
| **Scopes, typedefs, constants** `parse/t_scope.h`, `t_typedef.cc`, `t_const_value.h`, `main.cc` 728-845 | types, services and constants by name | `add_type`, `add_constant`, `resolve_const_value`, `validate_const_rec` | the generator prints what they resolved | a constant that is accepted is a value of its type |
| **Audit** `audit/t_audit.cpp` | none beyond the two programs | `compare_*` | `thrift_audit_failure` | what would break a reader is reported, once |
| **Ruby generator** `generate/t_ruby_generator.cc`, `t_generator.cc` | output stream | `generate_program` | its `FIELDS` hashes are the cache's input | the file it writes loads, and describes the structs |
| Lexer, md5, logging, sparsepp, build files | | | | not modelled, see section 8 |

Hard behaviours: recursion over data the caller made (sharing, cycles, depth);
failure in the middle of a recursion; the compact protocol's context-dependent
headers; two versions of a schema on the two ends; buffers cut short; setters of
one union on two threads; global caches keyed by addresses;
recursion over a cyclic include graph; parser state in globals; constants read from
uninitialized slots. `PROJECT.json` lists them as hazards, line by line, with the
properties that cover each or the reason why none does.

## 2. Plan

In the order in which they were written:

1. `SparsamSchema`, `SparsamWriter`: serialization, the component everything else
   relies on. `SparsamWriterProofs`: its invariants, for every schema and object graph.
2. `SparsamReader`, `SparsamRoundTrip`, which composes the two, and `SparsamExpected`,
   what should come out; `SparsamRoundTripProofs`: what reading promises, whatever is
   read; `SparsamAnswersProofs`: that what is read was written.
3. `UnionObject`: setters and getters of one union by many threads, at the steps
   where Ruby may switch; its abstract specification `UnionRegister`; both proved
   about in `UnionObjectProofs`.
4. `Includes`: `parse` over an include graph, and `generate`; proved about in
   `IncludesProofs`.
5. `FieldLists`, the parser's lists of fields, proved about in `FieldListsProofs`;
   `Scope`, names and values; `Compiler`, which composes them with the rest of the
   grammar, the Ruby generator and the loading of what it wrote, and implements
   `FieldLists`.
6. `Audit`: `compare_single_struct` as the merge it is, and every other comparison;
   `AuditProofs`.
7. `KlassCache`: definition, collection and address reuse of classes against
   `klassCache` and `unions`, and the sharing of defaults; `KlassCacheProofs`.

Each has an `MC` module that instantiates it (5: `MCCompiler`).

What could come next: services, enums and typedefs in `Includes`, by composing it
with `Scope`; `RetypedReaders` fed by what an audit lets through, which composes
`Audit` with `SparsamRoundTrip`.

## 3. Modules

### SparsamSchema

The constants both directions share. `FieldInfo` and `FieldInfoMap` are the
extension's structs of those names, a node of the graph being a model value.
`SchemaAssumption` states what `CreateFieldInfo` guarantees: a list or set has an
element node, a map also a key node, a struct a class. Field ids are integers;
that the extension cuts them to 16 bits is in `Compiler`.
A heap maps every Ruby value to what the C API can ask of it: built-in type,
class, elements, instance variables, and for an Integer the number of bits its
two's complement takes. `IsHeap` says nothing about sharing or cycles: any object
graph is a heap.

### SparsamWriter

One call of `serialize` (or `validate`) on one object. The recursion is a state
machine on an explicit stack:

| Action | Code |
|---|---|
| `SerializeBegin` | `serializer_writeStruct` 634-653, with its class check |
| `Enter` | the checks of `writeAny`/`writeStruct` pass; its header is written |
| `Raise` | they fail: `rb_raise` unwinds everything |
| `CallNext` | the next field, element, key or value: the recursive call |
| `Overflow` | the same, with the C stack exhausted |
| `Leave` | the loop is done, a stop field follows a struct, the call returns |
| `SerializeEnd` | 656-657 |

An *activation* is a call of `writeAny(info, val)` or `writeStruct(klass, val)`.
`Verdict` is what an activation checks before it writes, `Callees` the activations
it makes. `visited` (history) holds those that passed. Fields are taken in
ascending id order, which is how a `std::map` is walked (`IsFirst`).
`out` is the buffer as a sequence of protocol events; it is returned only by
`SerializeEnd`.

### SparsamReader

One call of `Deserializer.deserialize` on such a sequence. A frame of the stack is
a `readStruct` or `readUnion` in its loop, a container's loop, a `readAny` about
to start, or a `TProtocol::skip`. `mem` holds the objects in the order of their
allocation. Where the code reads with a type that is not what was written there,
what its bytes mean is outside the model: the behaviour ends as `garbled`
(`Garble`). Calling `new` on the null class of a FieldInfo that is no struct's ends
it as `crash` (in `ReadStructOrUnion`). Field headers of the compact protocol are
modelled with their deltas, because they depend on the reader's place
(`FieldId`); an empty compact map has no types (`MapTypes`).

### SparsamRoundTrip

Writes with one class, delivers the bytes (or a proper prefix), reads with
another class and either protocol. It EXTENDS the writer and takes the reader by
`R == INSTANCE SparsamReader WITH ...`. `RoundTripAssumption` says what is needed of the
constants: fields of one class have different names, and objects the reader makes are
told from the values that were written. `SparsamExpected` computes what should come out
from the data and the two schemas, without the protocol (`ExpectedObject`); it is recursive,
so it is a module of its own that only TLC uses.

### UnionObject, UnionRegister

One union object, read and set through its accessors by the threads that share
it. Ruby may run another thread between any two accesses to instance variables,
so each is an action: a setter is `Test` (`if @setfield`), `Name`
(`:"@#{@setfield}"`), `Remove`, `Assign`, `Store`; a getter is `Compare`, `Fetch`;
`get_value` is `TestValue`, `NameValue` and then the getter of the field it named.
`ivars` says which variables are there, `th` where each thread is and what it has
read. `Remove` raises NameError when another thread was first. (A Ruby that
switches less often has fewer of these behaviours.)

`UnionRegister` is what callers take a union for: it holds at most one field. The
refinement mapping `held` gives, while a setter is past its removal, what it is
about to store, and otherwise what `@setfield` names.

### Includes

One call of the compiler on the files of a project, which is a constant of the
run: for each file its namespace, what `include_file` finds for its include
directives (with either search path of an audit), and its definitions, structs and
constants with the names they refer to. The recursion is explicit:

| Action | Code |
|---|---|
| `SkipRecursion` | the path is in `program_to_scope`: its scope is copied, its includes are not read |
| `ScanIncludes` | the first pass: a new `t_program` for every include directive |
| `Recurse`, `Overflow` | `parse(*iter, program)`, with stack left or without |
| `SaveScope` | `program_to_scope[path] = ...`, before the file's own definitions |
| `DefineType`, `DefineConst` | the second pass, a definition at a time, into the scope of the program and, prefixed, of its parent |
| `Return`, `ReturnToAudit`, `ReturnToMain` | to the calling `parse`, to `audit`, to `main` |
| `SkipGenerated`, `Generate`, `GenerateInclude`, `GenerateProgram` | `generate` |

`programs` are the `t_program` objects: one file has several. A name is bound to a
definition of a program when its reference is parsed; a type not yet known stays a
forward typedef, which `t_typedef::get_type` looks up when its program is generated
(`IsResolved`). The last part of the module says, from the files alone, what is
reached, what a name should denote and what is wrong with a file.

### FieldLists

The part of the grammar that reads lists of fields, and the `t_struct` they fill. A
list has two orders of its members, that of reading (`members`) and that of ids
(`members_in_id_order`), and a `pending` field that has been read up to its id.
Lists nest (the XML attributes of a field are one), so `lists` is a stack; the globals
`y_field_val` and `g_arglist` are shared by all of it, as in the code.

| Action | Code |
|---|---|
| `OpenList` | `FieldList: /* empty */`, which sets `y_field_val` to -1 |
| `ReadIdentifier` | `FieldIdentifier`, `FieldRequiredness`: a 64-bit literal becomes a 32-bit id, or one is counted down |
| `AppendField` | `t_struct::append`: the binary search among the ids, and both insertions |
| `CloseList`, `CloseStruct` | the list is an attribute list, or a definition is complete; `validate_union_members` |
| `FlagArgs`, `UnflagArgs` | of a service: what `optional` means in between |

### Scope

Operators: what a name denotes when a type is read (`FieldType`; an unknown one is a
forward typedef), when it is used (`TrueType`, which may not end or may exit), what
`resolve_const_value` makes of a value (`Resolved`), whether `validate_const_rec` takes
it (`IsValid`, `Checked`), and what Ruby reads of the value that is written
(`Rendered`). A `t_const_value` has one slot per type, none of them initialized and
no getter asking which was set; `junk` is what such a slot holds, and every getter
gives it for a value of another kind.

### Compiler, CompilerProperties

One file, from its definitions to the classes in a Ruby process. The parser's actions
read a document: `OpenFieldList` ... `FinishField`, `CloseFieldList` for lists,
`DefineType`, `DefineConst`, `StartService`, `DefineService` for definitions; each with
a `Refuse` action for what makes the compiler exit (`failure`), recurse for ever
(`loops`) or dereference what is not a pointer (`crash`). `Generate` writes an item
(enums, objects, constants, in `generate_program`'s order), `FailToGenerate` stops as
the generator does when it throws: the message is printed, the file stays as it is
and the exit status is 0. `LoadEnum`, `LoadClass`, `LoadConst` evaluate the items in
Ruby, a class with `init_thrift_struct` and what `CreateFieldInfoMap` caches of it; a
class that is opened again keeps its old cache.

`CompilerProperties` says what a document means, without an order of reading, a scope
or a slot (`Meant`, `MeantValue`, `Fits`, `Wrong`), and compares.

### Audit

`Init` queues the comparisons that `audit` makes (`todo`); each turn of the loop of
`compare_single_struct` is an action (`FieldRemoved`, `FieldAddedAtEnd`,
`FieldAddedInMiddle`, `compare_struct_field`), the other comparisons are one each.
`printed` are the kinds of messages, `g_return_failure` is the exit status. Defaults
that are maps are compared entry by entry in the order of their nodes' addresses:
`compare_defaults` gives the set of outcomes.

### KlassCache

The classes of a Ruby process, at addresses. A generated class is defined in steps,
between which other threads run:

| Action | Code |
|---|---|
| `CreateClass`, `ReopenClass` | `class X < ::Sparsam::Struct`, for a new class at an address no living class has, or for the one that is there |
| `AssignFields` | `FIELDS = {...}`, with defaults that are new objects |
| `generate_accessors`, `generate_field_syms`, `cache_fields`, `generate_default_values`, `define_struct_fields` | `init_thrift_struct` |
| `Use` | `serialize` or `deserialize` with a class: `FindOrCreateFieldInfoMap` |
| `New`, `Mutate`, `Drop` | objects: `new` with defaults and at most one field given, a change in place of a value or of an element of it |
| `RemoveConst`, `Collect` | a reloader drops a class; Ruby collects classes that nothing refers to, the cache not being a reference |

A class without `FIELDS` of its own is a program's subclass of a generated one: it is
never cached, and using it leaves it in `unions` if it is a union's.
`NewRaises`, `EqualRaises` and `UseRaises` say when a call raises NameError or
NoMethodError for want of something the definition has not made yet.

### MC modules

`MCIncludes` builds the projects, `MCCompiler` the documents, `MCAudit` the pairs of
versions, `MCKlassCache` three classes and the versions of their files.
`MCUnionObject` only adds the symmetry of fields and threads. `MCSchema` has
constructors for schemas and values. `MCSparsamWriter` and `MCSparsamRoundTrip` give
the constants; each lists its schema as Thrift would write it.
In every module a definition whose comment says *Mutant* is a plausible
mistake in the definition after it; putting it in that one's place makes the
property that PROJECT.json names fail.

## 4. Runs

| Run | States | What it asks |
|---|---|---|
| `writer` | 14 000 | for every pair of deviations from a valid object graph: accepted only when valid, rejected only with a culprit of that kind, blamed on the right struct and field; every call ends, and exhausts the stack exactly when an object contains itself |
| `roundtrip` | 255 000 | both protocols; compatible readers get the right object of a whole buffer and consume all of it; every proper prefix is refused; incompatible readers still get no struct field of a wrong type; unions hold one field; reading ends |
| `union_shared` | 1 239 000 | three threads, four fields: what survives any interleaving of setters |
| `includes` | 666 000 | include graphs of four files without cycles and of three with, repeated includes, equal prefixes and namespaces, doubled and dangling names, two search paths: names mean what they should, all is generated in order, projects are refused exactly when something is wrong, the compiler ends, by exhausting its stack only over files that include each other |
| `compile` | 450 000 | eight families of files: what is refused, what is accepted, what arrives in Ruby and in the extension |
| `audit` | 289 000 | pairs of versions: the merge is exact, a pass means that the versions understand each other, a file audited against itself is silent |
| `klass` | 410 000 | classes defined, used, reloaded, collected: what is cached is true, what raises is known, defaults stay |
| `unknown_variant` | violated | a union variant the reader does not know |
| `retyped_map` | violated | a map whose values changed type |
| `union_requiredness` | violated | members of a union that are declared without a requiredness |
| `default_types` | violated | an integer, or a whole number, as the default of a double |
| `include_cycles` | violated | files that include each other |

What the violations show:

- **unknown_variant.** `readUnion` returns from an unknown variant without reading
  the union's stop field (`ext/serializer.cpp:387-391`). The enclosing struct reads
  that stop as its own end and is returned without its later fields, with no error.
  `readStruct` ignores unknown fields correctly.
- **retyped_map.** Elements of maps are read by the type on the wire (line 300, "no
  type check to be consistent"). If it says struct and the class says integer,
  `readStruct` is called with class 0.
- **union_requiredness.** `validate_union_member` makes required members optional
  ("unions can't have required fields", `compiler/src/parse/t_struct.h:69`) and leaves
  those of default requiredness, which the generator writes without `:optional` and
  `checkRequiredFields` then asks for. A union of two such members cannot be written.
- **default_types.** A double's default of `1`, which `validate_const_rec` accepts, or
  of `1.0`, which is printed as `1`, is an Integer in Ruby; the writer raises
  TypeMismatch for it.
- **include_cycles.** The changelog says of version 0.2.11 "Port cycle breaking logic for
  Thrift includes over from Apache Thrift" (`CHANGELOG.md:9`). The source has none:
  `parse` calls itself for every include and only then stores `program_to_scope[path]`
  (`compiler/src/main.cc:949-953`), by which it tells that a file was parsed (line 913).
  A file that includes itself, directly or through others, exhausts the stack.

A passing run with readers of the first two kinds (`roundtrip` has them) contains
behaviours that end as `crash` and `garbled`; it checks what is true of them all the
same. So does `compile` contain behaviours that end as `loops`, `crash` or
`error printed`, with properties about when they may.

### Bounds, and why they are enough

- *Schemas.* One recursive schema for the writer, with a struct, a union, a list, a
  set, a map and a scalar of each kind of check (8, 32 and 64 bits, string, float,
  boolean; 16 bits is the same macro as 32). Recursion goes through the list and,
  behind the map, through the union. For the reader, seven versions of a struct:
  fields added, removed, at both ends and in the middle, nested versions, short and
  long compact headers (ids 1, 2, 18-22), other element types.
- *Heaps.* A valid graph of two structs, a union and three collections, changed in
  one or two places: missing, of a wrong type, one bit-width too wide, a Bignum
  within and beyond 64 bits, empty, shared, and containing itself directly or
  through another object. The checks of an activation do not depend on those of
  another, so two deviations are enough to see which is reported first.
- *`MaxDepth`* is 24 for the writer: more than the number of activations of this
  schema over these objects that can be on the stack without a repetition, so that
  an overflow shows a cycle. The proofs hold for every `MaxDepth`.
- *Prefixes* are cut between events; a cut inside an event raises at the same read.
- *Unions.* Four fields on three threads are the fewest with which `AtMostOnePerThread` says
  more than that there are so many fields; what is assigned does not matter there,
  so there is one value. Fields and threads are symmetric in that run (it checks
  invariants only). The proofs hold for all numbers.
- *Include graphs.* Four files are the fewest with a file included twice that has an
  include of its own, below another file; three the fewest with a cycle that does
  not contain the root. An include list has at most two entries. For each graph
  there is a project whose definitions refer to everything in sight, before and
  after it is defined, and one whose definitions refer to nothing, so that a lost
  scope does not end the run. In the projects with clashes each of three files has
  one of seven contents. For the audit, -Iold and -Inew find different files for the
  directives of an old file, of a file it shares with the new one and of that file's own
  include, among five files, of which those found with -Inew may include each other and
  the root; each file is scanned once, with the path of the side that reaches it first.
  `MaxDepth` is more than the files there are: deeper
  means a file within itself.
- *Hashed values.* In the instances only scalars are elements of sets and keys of
  maps, for which equality of values is equality of references.
- *Documents.* One family for each part of the language: two fields with given and
  implicit ids, nested attribute lists, unions with defaults, 14 types against 24 values
  as a constant and as a default, names used before, after and without their
  definition, enums, pairs of definitions with one name, services. `MCInt32` = 32 and
  `MCInt16` = 8 make both cuts happen with ids up to 33; `MCDigits` = 100 tenths stands for the six
  digits of `operator<<`; an uninitialized slot holds 0 or 2 (`MCJunks`), of which one is
  an enumerator's value. A service may be followed by a struct with an optional field, for
  the flag that a service's lists leave behind. Names that differ in their first
  letter's case, and a string that needs an escape, are given by `MCCapital` and
  `MCEscaped`.
- *Versions.* Structs over ids -1, 1, 2, 5, each missing, required or optional, in all
  pairs, so that every pairing of ends and gaps of two lists happens; two fields with
  all else that can change; every type against every type, every value against every
  value; lists of at most two of each other kind of definition.
- *Classes.* Three classes over three addresses, each with at most two evaluations of
  its body, and one object: a union, a struct that refers to it, to itself and has a
  default, and a subclass of either; an address can be given out again. Classes and
  addresses are symmetric (the run checks invariants only). The proofs hold for
  all numbers.

### Fairness

A call runs on its caller's thread until it returns or raises, so weak fairness of
the next-state relation is all that is assumed (`FairSpec`, `RTFairSpec`), and only
by `Terminates` and `DeserializeTerminates`. The compiler is one
process that runs until it exits, so the same holds of `Includes!FairSpec`. `Deliver` is the
application passing the string on; its fairness only starts the reading.
No fairness is assumed of
`Compiler`, `Audit` and `KlassCache`: nothing is said there of what must happen, and where
a recursion of the compiler does not end, that is an outcome (`loops`).
`CHECK_DEADLOCK FALSE` is set where a call, a compiler, an audit or a
program that has ended takes no more steps; `Compiler` has an action `Stop` for its
final states instead, so that deadlock is checked: every document is read to an end.

## 5. Properties

Of the writer:

- `AcceptedIsValid`: a call that returns has checked all of the object graph below
  its argument, containers and nested structs included.
- `RejectedHasCulprit`: what is complained of is called for by data that passed,
  and fails a check of that kind.
- `BlameNamesTheField`: the exception's struct and field are the innermost struct
  being written and its field, with nothing but containers below; for a missing
  field, the first one missing.
- `OverflowIsCyclic`, `Terminates`: the stack is exhausted only by an object that
  contains itself, and every call ends, with such an object by exhausting it.

Of the round trip:

- `ReadsWhatWasWritten`, `IntactIsReadWhole`, `TruncatedIsRefused`,
  `UnionsHoldTheirSetField`, `StructFieldsHaveTheirType`, `DeserializeTerminates`.

Of a union:

- `IsRegister`: on one thread no accessor raises but for a field that is not the one
  last set, and what is read is what was last set. This one is proved (section 6); no run
  checks it.
- `BackedAtRest`: setters that overlap may raise, but leave a union that can be read
  and set again.
- `BornSetStaysSingle`: a union made with a field never comes to hold two. Only one
  thread can remove the old variable, and only it sets a new one.
- `AtMostOnePerThread`: one made empty can come to hold several (each thread that
  found `@setfield` nil adds one), and then every buffer written of it is refused by
  readers (`roundtrip` has such a union); but no more than it has threads.

Of the compiler's driver:

- `NamesDenoteIncludes`: scopes are copied and filled in by the files below, in
  passes; still a name is bound only to a definition of the file itself or of one it
  includes directly and under that prefix.
- `CopiesAgree`: all programs of one file end with scopes of the same meaning.
- `GeneratesAll`: with `-r`, every file reached, once, after those it includes. Only
  the first program of a file has includes to follow; it works because `generate`
  takes programs in the order in which `parse` made them.
- `FailureHasCause`, `DoneIsSound`: a project is refused for a fault of a file, and
  accepted without (a dangling type of a file that is not generated goes unnoticed).
- `OnlyCyclesOverflow`, `Terminates`: it ends, by exhausting its stack over files that
  include each other. Exhausting the stack counts as an end in `Terminates`.
  `CyclesAreBroken` is what the changelog says, that nothing exhausts it;
  `include_cycles` violates it.
- `AuditSearchesNew`: in an audit, names of the new file denote files found with
  `-Inew`, unless the old file includes them too: `program_to_scope` is one, so such a
  file is scanned with `-Iold` only, for both. That is in the model, and no property
  covers it.

Of one file's compilation:

- `ListsAreConsistent`: `append`'s binary search is right only on a list in id order,
  and it alone keeps ids apart.
- `FailureHasCause`, `AcceptedIsSound`, `OnlyCyclesLoop`: what is refused has a fault,
  what is accepted has none of those looked for; a cycle of typedefs, and only that,
  is followed for ever; only values whose slots were not what is read crash.
- `RenderedAsMeant`, `CachedAsWritten`, `EnumModulesAgree`: what Ruby and the extension
  end up with is what the file says, through forward typedefs, names of constants,
  implicit ids, casts and enum numbering. The excepted files are stated: ids beyond 16
  bits, doubles of more digits than are printed, classes with one Ruby name ...
- `LoadErrorHasCause`: what stops Ruby from loading the generated file. A reference to a
  class that is declared later is one of the causes.
- `ReadsListsAsSpecified`: `Compiler` implements `FieldLists!ListSpec`, so that what is
  proved of the lists is true of them in the compiler.

Of the audit:

- `MergeIsExact`: walking two sorted lists at once says of each id what a definition by
  sets says of it, whatever ends first.
- `PassKeepsWire`: after an audit that passes, all that the old version has is there,
  and each pair of structs is readable in both directions, *if names mean the same in
  both* (`NamesMeanTheSame`): `compare_type` compares names, so a typedef whose target
  changed passes. No property covers such a change.
- `SelfAuditIsSilent`: but for the order of maps in memory and second names of an enum
  value.

Of classes:

- `EntriesAreTheirs`, `UnionsAreKnown`: a cached map is that of the class's `FIELDS`, every
  class it points to is alive, and the unions among them are known before they are
  used. They exempt a class whose `FIELDS` was assigned again (`stale`) and one at an
  address where another class lived (`FirstAt`); for those the model does reach wrong
  entries, and no property covers them; the code accepts what is leaked ("consider the memory
  leaked", `ext/serializer.cpp:49`).
- `OnlyDefinitionsRaise`: other threads may meet a class at any step of its definition;
  only then, and for subclasses without `FIELDS`, does anything raise.
- `DefaultsKeepTheirTop`: objects share their defaults; no step leaves one unfrozen
  within their reach, so only elements of a default can change for all. That they can
  is seen in the model, and nothing in the repository says otherwise.

## 6. Proofs

### The writer

`SparsamWriterProofs` proves, for every schema that meets `SchemaAssumption`, every
set of heaps and calls that meets `WriterAssumption`, and every `MaxDepth`:

| Theorem | Statement |
|---|---|
| `TypeCorrect` | `Spec => []TypeOK` |
| `AcceptedDataIsValid` | `Spec => []AcceptedIsValid` |
| `RejectedDataHasCulprit` | `Spec => []RejectedHasCulprit` |
| `SerializeDecidesConformance` | a call that returned was given data that conforms, one that raised was given data that does not |
| `BlameLeadsToTheField` | `Spec => []BlameNamesTheField` |
| `OnlyCyclesExhaustTheStack` | `Spec => [](WithRoom => OverflowIsCyclic)` |
| `BufferIsTyped` | `Spec => [](out \in Seq(WireEvent) /\ WireTyped(out))` |
| `BufferIsTheData` | `Spec => []Complete`: a buffer that is returned is accounted for by the object graph |

*Conforms* is a definition that knows no stack: there is a set of activations that
contains the root, is closed under `Callees`, and in which every `Verdict` is
"ok". It makes sense for cyclic graphs as well.

The argument. `AcceptedIsValid` speaks of the end of the call and is not
inductive. `IInv` strengthens it:

- `ShapeInv`: the stack is a sequence of frames, a frame that loops has only slots
  of its own activation left, and so on; it gives `TypeOK`.
- `RootInv`: while the call runs, the root is on the stack or has been visited.
- `ClosedInv`: what a visited activation calls for has been visited, or is on the
  stack, or is in the slots some frame still has to go through. When the stack is
  empty, nothing is owed, and this is `AcceptedIsValid`.
- `JustifiedInv`: whatever is visited, on the stack or still to come is the root or
  is called for by a visited activation; with it a raise has a culprit.

Each action has its lemma (`EnterInv`, `CallNextOwed`, ...). `StaysReachable`, a
second invariant, says that visited activations belong to every closed set that
contains the root; so a culprit refutes conformance, which gives
`SerializeDecidesConformance`.

For the blame, `outer_struct` and `field_sym` are parameters that every call hands
down: the invariant says of each frame that its two are those of the innermost struct
frame below it. For the overflow, a stack without a repetition is an injection into a set
of activations that is closed under calls; `WithRoom` says that one such set has fewer
than `MaxDepth` members.
`NullIsNoException` is used for the blame of a call that has not ended. The other assumptions on constants are used only through
`SchemaAssumption` and `WriterAssumption`, which TLC evaluates in every run.

`WireTyped` is what a reader may believe of a header: the scalar after a field header is of
the type it says, the elements of a list of scalars are as many and of the type that it
says, and a scalar is a string exactly if its type is. It is not inductive, for a header is
written before what it announces, by another action and another frame. `WireInv` says who
owes it: a field header at the end of the buffer is that of the activation on top
(`FieldPending`), and a list of which elements are missing is that of the frame on top, or of
the one that called it, which has just as many slots left as are missing (`ListPending`).

`Complete` says what is in the buffer in terms that a reader can follow, without the writer's
stack. A *due* is a value or a rest of a struct that has still to be written; it names the
value, the info or class by which it is written and, of a struct, the last field's id and the
fields left. `Settles` says how one event takes the due on top of a list of them off it and
puts those in its place that the event announces: the elements of a list, the keys and values
of a map in turn, a struct's rest and its field's value. `Accounts` says that such lists of
dues go with every prefix of the buffer, from the root alone to none. `AccountInv` is the same
while the call runs: what is due after the buffer so far is divided among the frames, from the
bottom of the stack up, each of which has its share to write (`Writes`, `Share`). A frame that
loops over a container has one due for every slot left; one that loops over a struct has one
due, with its fields left. So what each frame looks at is the end of the list, and a step
changes only the share on top (`CallNext` splits it).

### The reader

`SparsamRoundTripProofs`, and `SparsamAnswersProofs` of the last, prove, for every schema,
object graph, pair of classes and protocol, and every place where the buffer is cut:

| Theorem | Statement |
|---|---|
| `UnionsAreRegisters` | `RTSpec => []UnionsHoldTheirSetField` |
| `StructFieldsAreTyped` | `RTSpec => []StructFieldsHaveTheirType` |
| `WholeBuffersAreReadWhole` | `RTSpec => []IntactIsReadWhole`, if `Fits(Compatible, I)` for some `I` |
| `CutBuffersAreRefused` | `RTSpec => []TruncatedIsRefused`, if `Fits(Compatible, I)` for some `I` |
| `WhatIsReadWasWritten` | `RTSpec => []WrittenIsRead`, if `Fits(Compatible, I)` for some `I` |

The first two speak of every object at every moment, also when reading ends as `garbled`,
`crash` or with an exception. Objects are filled in while the frames of their members are above theirs,
so the invariants relate the stack to the objects:

- `ReaderTypes`: the shape of frames and objects. That a set or a hash holds what was read
  (`SetOfArrayType`, `HashOfType`) is proved of recursive functions by taking the least
  argument at which it would fail.
- `Owns`, `Younger`: each frame of a struct or union has an object of its class, younger
  than those of the frames below; so no two fill the same one. `Fresh`: a union that has yet
  to store its field is as `new` left it. With them `readUnion` stores one field, once.
- `CallsInv`: what each frame was called for by the one below. A frame that checks types, a
  struct or the loop of a list or set, is served by one of the type and class it wants;
  where readers disagree with writers it is served by a `skip`, which returns nil.
- `RetInv`: what is being returned fits what the frame below wants (`Fit`); `GotInv`: so do
  the elements a loop has got so far; `FieldsInv`: and what is in the objects.
- `RunInv`: the elements a list of scalars has still to come are in the buffer, of the type
  its header had, unless it ends before. `readAny` reads them without looking, and it is
  here that `WireTyped` is needed, of any prefix (`PrefixIsTyped`).

That objects keep their type, class and elements once they are made (`ObjectsStay`) makes
all of it stable: a step has to be looked at for what it adds only. The assumptions are those
of the writer and `RoundTripAssumption`. Of this, that fields of a class have different names
is what `ListsStayConsistent` gives for the compiler's structs; the rest is about how the model
represents references and a buffer that has not arrived.

The other three are about readers that should understand the writer. `Compatible` lists the
classes that should understand each class; the theorems hold of any such list that `Fits`:
with some choice `I` of the infos that should read the values written by each info, fields
that two classes share agree on what `readStruct` and `readAny` compare or take for granted, at
every depth, and a union is read from a union none of whose variants it lacks
(`unknown_variant` shows what happens otherwise). `Fits` says nothing of fields that only one
of the classes has, nor of lists whose elements changed type: those are skipped. That it can
be met is checked where the constants are given values (`ReadersFit` in `MCSparsamRoundTrip`,
for all classes of the schema and the versions among them). The argument:

- `AccountInv` of the writer has ended as an account of the whole buffer; `ReadInv` says that
  the reader follows it: after the events it has read, what is due is divided among the
  frames on its stack, from the bottom up (`Progress`, `ReadShare`), and each frame is of the
  function, type and class that reads its share (`IsToRead`). A `skip` reads anything.
- At every event the frame on top has the top due to read; `Settles` says what event that is
  and `Fits` that the frame understands it (`HeaderDue`, `AnyDue`, `ItemsDue`). One
  `...Progress` lemma per
  action of the reader shows that it leaves the others their shares.
- `PairsInv`: a loop over a map has an odd or even number of items left as it is at a key
  or at a value; so it reads each with the right info.
- Nothing on this way ends as `garbled` or `crash` (`NothingIsGarbled`), and an exception
  means that the buffer has ended, or two fields in a union (`EndOfFileProgress`). When the
  stack is empty nothing is due, and an account of a proper prefix of a buffer always has
  something due (`NothingDueAtTheEnd`): so what was read is all of it.

`WrittenIsRead` says that what `deserialize` returns and the data that `serialize` was given
are in a correspondence (`Corresponds`), a relation of what was read to what was written, each
pair of which matches (`Matches`) by pairs of the same relation:

- An object is of the reader's class, a field that was written and that this class knows holds
  what was read of it, and every other one holds what `new` put there; so does a list whose
  elements have another type on the wire, which is read as nil.
- A container is of the type that was written, and is made of what was read of its items, in
  their order, as `rb_ary_store`, `Set.new` and `rb_hash_aset` make it (`Built`).
- A scalar is the value that was written.

A relation is what makes this provable: it says at every depth what `ReadsWhatWasWritten` says
by recursion, and a step of the reader adds a pair to it or leaves it alone. It does not say
that two fields that referred to one object do so again: each is written, and read, by itself.
The invariant (`AnswersInv`) rests on the account again. To each frame belong the activation
that wrote what it reads, what it is read as, the parts it has read and the one it is reading
(`Tracked`):

- `Reads`: the frame's share of the dues is what is left of that activation without those
  parts. `AskedBy`: it reads the part that the frame below is reading; the first reads the root.
- `Has`: what it has read of them is in the correspondence, in the fields of its object or in
  its `got`; `Returned`: so is what is being returned, as the part that the frame on top is
  reading.
- `LeftAlone`: no object in the correspondence is one that a frame is still filling, so pairs
  go on matching (`CorrespondsKept`). An object enters it only when its frame returns it
  (`TopReturns`, `ObjectIsDone`), and by then it has read all of its fields: the stop field is
  due only when no field is.
- `Checked`: what was written had passed its checks, so each part is of the type of its field
  (`PartWasWritten`). It is what `AcceptedIsValid` leaves behind.

One `...Traced` lemma per action of the reader shows that all of this goes on, with the three
ways in which the top of the stack changes (`TopGoesOn`, `TopCalls`, `TopReturns`).

### The driver

`IncludesProofs` proves, for every set of files, every project on disk, and every `MaxDepth`:

| Theorem | Statement |
|---|---|
| `OnlyCyclesExhaustTheStack` | `Spec => []OnlyCyclesOverflow`, if `MaxDepth` is no less than the number of files |
| `NamesDenoteWhatIsIncluded` | `Spec => []NamesDenoteIncludes` |
| `NewNamesAreFromTheNewPath` | `Spec => []AuditSearchesNew` |
| `ProgramsOfAFileAgree` | `Spec => []CopiesAgree` |
| `RefusedForACause` | `Spec => []FailureHasCause` |
| `AcceptedIsSound` | `Spec => []DoneIsSound` |
| `EverythingIsGeneratedOnce` | `Spec => []GeneratesAll` |

All properties of the run `includes` but `Terminates` are theorems. None of them is
inductive: they speak of the end, or of one program, while scopes are filled in from
below and copied between programs. `CoreInv` says what the calls and the programs are:

- `TreeInv`, `StackInv`: the programs made for include directives form a tree, which the
  directives of the files shape; the calls of `parse` are a path in it, each at the
  directive of the next one.
- `FreshInv`: a program that is still to be called for is as it was made. It is why a
  program is parsed once.
- `KnownInv`: the keys of `program_to_scope` are closed under what their files include,
  and none of them includes itself, through however many others; of a call's includes
  those behind it are known. A file that is scanned is thus scanned with the path of the
  side that reaches it.
- `ChainInv`: each call is reached from those below it. A chain that is longer than there
  are files repeats one, and this is `OnlyCyclesOverflow`.

`NamesInv` says what is in the scopes, those of programs and the saved ones: a name
without a prefix is a definition of the program, one with a prefix a definition of a
program of a file that is included under that name; saved scopes have only the latter.
`OutcomeInv` says that nothing is missing from them:

- `HoldsOwn`, `HoldsImports`, `SavedHolds`: a scope has all that was defined in its program
  and below it, and the saved scope of a file all definitions of the files that it
  includes. So what is looked up in vain denotes nothing (`RefusedForACause`), and what was
  found in one program's scope is in that of any other of the file.
- `OwnOnce`, `ConstsOnce`, `TypesOnce`: what was defined was new, so no two definitions
  that should not share a name do (`AcceptedIsSound`).
- `SettledInv`: once no call is left for a program or for what it includes, its imports
  are the saved ones of its file and stay so; `FirstInv`: one program of each known file
  has read its directives. After parsing all programs are settled, which gives
  `ProgramsOfAFileAgree`.

`HistoryInv` is for generation. It has a witness that the state does not hold: for every
program the set of files that were known when it was parsed. `parse` and `generate` go
through the tree in one order and each leaves out what it has been through, so that set
is also what has been generated when `generate` comes to the program; a program that was
not scanned is then skipped, and its missing includes are not missed. The one assumption
is `IncludesAssumption`.

### Unions

`UnionObjectProofs` proves, for all fields, values and threads:

| Theorem | Statement |
|---|---|
| `UnionTypeCorrect` | `Spec => []TypeOK` |
| `RestingUnionIsBacked` | `Spec => []BackedAtRest` |
| `BornSetHoldsOne` | `Spec => []BornSetStaysSingle` |
| `FieldsHaveOwners` | `Spec => []AtMostOnePerThread` |
| `OneThreadIsRegister` | `Spec => IsRegister`, if there is one thread |

- `Backing`: where `@setfield` names a variable that is not there, some thread is
  about to assign `@setfield` or to store that very field. At rest none is.
- `OneRight`: a union made with a field has one variable and no thread past its
  removal, or one such thread and no variable. `OtherSteps` shows that only four
  actions need looking at.
- `Owned`: an injective naming of an owning thread for every variable and for every
  thread past its removal. A thread that found `@setfield` nil owns its own; one
  that removes a variable takes over its owner; storing hands it on.
- `Undisturbed`: on one thread what a step read still holds at the next. Then each
  step is one of the register (`Test` of an empty union and `Remove` set it) or
  leaves `held` and `got` alone.

They use `UnionAssumption` and `NullAssumption`.

### Field lists

`FieldListsProofs` proves `ListSpec => []TypeOK` (`ListsHaveTheirType`) and
`ListSpec => []ListsAreConsistent` (`ListsStayConsistent`), for every set of declarations
and every width of ids. The invariant is inductive together with the types.
`UpperBoundFacts` says what the binary search returns on a list in id order, with the
least element of a set of positions taken by well-founded induction; `InsertFacts` what an
insertion there does to the order and the members; `AppendIsConsistent` combines them.
`SetTopKeepsInv` reduces every action to the list on top. By `ReadsListsAsSpecified`,
which TLC checks, both hold of `Compiler`.

### Audit

`AuditProofs` proves, for all pairs of programs, types and values:

| Theorem | Statement |
|---|---|
| `WalkInvariant` | `Spec => []Inv` |
| `WalkIsExact` | `Spec => []MergeIsExact` |
| `PassIsCompatible` | `Spec => []PassKeepsWire` |
| `SelfAuditSilent` | `Spec => []SelfAuditIsSilent` |

These are all properties of the run `audit`. `Inv` says that `todo` holds comparisons
only of definitions in the two programs, and that each walk over two lists of members is
as its turns leave it:

- `Apart`: the ids it has passed are smaller than those at its iterators. It is why an
  id is never seen twice, and why a list that has ended has no greater id than what is
  left of the other.
- `SaidSoFar`: of each id it has passed it has said what it may say (`May`) and left
  unsaid what it may leave unsaid (`MayNot`), and nothing of other ids. The two differ
  only for defaults, which may compare either way.

`TurnKeepsWalk` is the argument for all four turns of the loop, which differ in the
iterators they move; each then needs only that what it says of its id is allowed. A
walk that has ended has passed every id (`AllTold`), which gives `MergeIsExact`.

`PassInv` is for an audit that has not failed: no walk under way has said a failure, and
every old struct, function and service is still awaited in `todo`, or has a new namesake
with which it is settled, that is, the walk over their members is in `todo` or they agree
(`MembersAgree`). `Handled` names what a step must do for the comparison it takes off
`todo`; the three `StaySettled` lemmas then keep all the others. At the end nothing is
awaited, a name is one definition's (`OneNamesake`), and agreeing members are compatible
because `compare_type` looks at the same parts as `SameWire`
(`ComparedIsSameOnWire`).

`SilentInv` is for a file against itself: every comparison in `todo` is of a definition
with the list it is from, which then finds itself (`FoundAsItself`), and both iterators
of a walk are at one field. The rest is that a type compares equal to itself
(`TypeIsItself`), and a value that contains no map of several entries as well
(`ValueIsItself`).

`compare_type`, `compare_defaults`, `SameWire`, `Leaves` and `Unordered` are recursive
functions over data that have no measure. `RecursionOverData` proves once that such a
function is what its equation says, for any set of data none of which is part of itself
(`Tree`): two functions that solve the equation on parts of the data agree where both do
(`SolutionsAgree`), so the least point at which there is no solution could be given one.
The inductions over types and values take a least counterexample instead of an
induction theorem.

The assumptions are `ProgramsAssumption` (members are in the order of their ids, which
`ListsStayConsistent` gives, and names in a program differ, which the parser sees to) and
`TypesAssumption` and `ValuesAssumption`: the parser builds containers from parts that
are there, so none is part of itself. The proof of the silence found the property wrong
as it was first stated: it overlooked the defaults of the arguments of functions, which
may be unordered maps too.

### Classes

`KlassCacheProofs` proves, for all classes, addresses, constants, versions and bounds:

| Theorem | Statement |
|---|---|
| `CacheInvariant` | `Spec => []Inv` |
| `EntriesStayTrue` | `Spec => []EntriesAreTheirs` |
| `UnionsStayKnown` | `Spec => []UnionsAreKnown` |
| `DefaultsStayDeclared` | `Spec => []DefaultsKeepTheirTop` |
| `CompleteClassesWork` | `Spec => []OnlyDefinitionsRaise` |

- `LifeInv`: classes have an address from their birth on, living ones one each, and what
  a living class refers to lives; so does what is bound or being defined. It is why the
  pointers of an entry do not dangle although the entry keeps nothing alive: `FIELDS`
  does.
- `BodyInv`, `CachedInv`: how far each class is defined, and that one that is past
  `cache_fields` has an entry. References go only to complete classes, or to itself.
- `OwnerInv`, `EntryInv`, `UnionInv`: what is known of an address is known of a class that
  was born there, and true of it if it was the first and is not stale.
- `FrozenInv`: every default a class or an object holds is frozen.
- `DefinedInv`: what each class has after each step of its definition, which a second
  definition does not take away and a subclass finds in the class above it.

The assumptions are `VersionsAssumption` (generated classes have `FIELDS`, refer to
generated classes and have no class of the program above them: the generator writes no
other), `BoundsAssumption` and `NullAssumption`.

## 7. Only model-checked

- Liveness (`Terminates`, `DeserializeTerminates`).
- Of the reader, `ReadsWhatWasWritten`, which compares what was read with an object that
  `ExpectedObject` computes by recursion over data: no prover here can do an induction over
  data. `WhatIsReadWasWritten` states the same without recursion, as a relation; that two
  objects in such a relation to the data print alike is what is left to TLC.
- The properties of `CompilerProperties` that hold, and that `Compiler` implements `FieldLists`: most
  operators of `Scope` and `CompilerProperties` are recursive over data as well.

## 8. Not modelled

- Within the modelled components: the encoding of scalars into bytes, binary versus
  UTF-8 strings, the text of messages, `to_a` of a Set redefined or interrupted by
  another thread, type ids no protocol writes (`readAny`'s default branch), what a
  program does after it has run out of stack.
- `Union#initialize`'s errors; `==` and `hash` of unions and structs, but for whether a
  struct's `==` raises.
- In `Includes`: services, enums, typedefs (a struct stands for a type), the reading
  of directories, files that cannot be opened, output paths, `-Inew` and `-Iold`
  beyond what they make `include_file` find.
- In `Compiler`: the include pass, which runs the same grammar and keeps nothing of it;
  names with a file's prefix (they are in `Includes`); the range of integer constants,
  which the compiler does not check either; comments, annotations, namespaces and the
  names of files; functions of the generator that are not called.
- In `KlassCache`: fields of containers (a class below one is kept and found in the same
  way); superclasses above one subclass; other errors of `new` than those of a
  definition under way.
- The lexer (character input), md5, logging, sparsepp and the build files: no logic
  of Sparsam's own.
