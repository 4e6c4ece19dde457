--------------------------- MODULE SparsamRoundTrip ---------------------------
(****************************************************************************)
(* Serialization with one version of a class, deserialization with another,  *)
(* as two programs that share a thrift file at two points of its history do  *)
(* (spec/sparsam_spec.rb: SS, NotSS, NotSS_plus, Nothing).  The bytes may be *)
(* cut short on the way.                                                     *)
(****************************************************************************)
EXTENDS SparsamWriter

CONSTANTS
  Defaults,    \* klass |-> (field name |-> default)
  Readers,     \* klass written |-> the classes it may be read as
  Compatible,  \* klass written |-> those of them that should understand it
  Protocols,   \* which of "compact" and "binary"
  Cuttable     \* the heaps of which a proper prefix may be delivered

\* The fields of a generated class have different names (ListsStayConsistent of
\* FieldListsProofs, for what the compiler generates).  A reference into mem is
\* told from a Ruby value, and a buffer from none.
ASSUME RoundTripAssumption ==
  /\ \A k \in Klasses : Readers[k] \subseteq Klasses
  /\ \A k \in Klasses : Defaults[k] \in [Names -> VALUE]
  /\ \A k \in Klasses : \A i, j \in Fids(k) :
       FieldInfo[InfoOf(k, i)].symName = FieldInfo[InfoOf(k, j)].symName => i = j
  /\ VALUE \cap Nat = {}
  /\ NULL \notin Seq(WireEvent)

VARIABLES protocol, readerKlass, input, pos, mem, rstack, ret, rres

rvars == <<protocol, readerKlass, input, pos, mem, rstack, ret, rres>>

R == INSTANCE SparsamReader WITH klass <- readerKlass, stack <- rstack, res <- rres

RTInit ==
  /\ Init /\ R!Init
  /\ protocol \in Protocols
  /\ readerKlass \in Readers[Klass]
  /\ input = NULL

Write == ~Done /\ Next /\ UNCHANGED rvars

\* The string serialize returned reaches Serializer.new(prot, str).
Deliver ==
  /\ res.st = "ok" /\ input = NULL
  /\ \E n \in 0..Len(out) :
       /\ n < Len(out) => heap \in Cuttable
       /\ input' = SubSeq(out, 1, n)
  /\ UNCHANGED <<protocol, readerKlass, pos, mem, rstack, ret, rres, vars>>

Read == input # NULL /\ R!Next /\ UNCHANGED vars

RTNext == Write \/ Deliver \/ Read

RTSpec == RTInit /\ [][RTNext]_<<vars, rvars>>
RTFairSpec == RTSpec /\ WF_<<vars, rvars>>(Write \/ Read) /\ WF_<<vars, rvars>>(Deliver)

-----------------------------------------------------------------------------
\* What is meant by compatible.  C has, for every class written, the classes that
\* should understand it, and I, for every FieldInfo written, those that should read
\* its values.  The fields that two classes share agree, at every depth, in what
\* readStruct and readAny compare or take for granted.  A union is read from a union
\* that has no variant it does not know: readUnion would leave the stop field behind.
Fits(C, I) ==
  /\ \A k \in Klasses : \A r \in C[k] :
       /\ r \in Klasses
       /\ r \in Unions => k \in Unions /\ Fids(k) \subseteq Fids(r)
       /\ \A fid \in Fids(k) \cap Fids(r) : InfoOf(r, fid) \in I[InfoOf(k, fid)]
  /\ \A w \in Infos : \A r \in I[w] :
       LET f == FieldInfo[w]
           g == FieldInfo[r]
       IN /\ r \in Infos /\ g.ftype = f.ftype
          /\ f.ftype = "STRUCT" => g.klass \in C[f.klass]
          /\ f.ftype \in SequenceTypes
             /\ FieldInfo[g.elementType].ftype = FieldInfo[f.elementType].ftype
               => g.elementType \in I[f.elementType]
          /\ f.ftype = "MAP" =>
               g.keyType \in I[f.keyType] /\ g.elementType \in I[f.elementType]

\* The buffer holds all that was written, by a version the reader knows of.
Understood == readerKlass \in Compatible[Klass]
Intact == input # NULL /\ Len(input) = Len(out) /\ Understood

\* A whole buffer is read to its end, so that no byte is left to be taken for
\* something else, unless it holds a union with two fields: those are refused
\* (ext/serializer.cpp:402-405).
TwoFields(v) == heap[v].klass \in Unions /\ \E m, n \in Names :
                  m # n /\ heap[v].ivars[m] # nil /\ heap[v].ivars[n] # nil

IntactIsReadWhole ==
  R!Done /\ Intact =>
    \/ rres.st = "ok" /\ pos = Len(input) + 1
    \/ rres.exc = "UnionException" /\ \E v \in VALUE : TwoFields(v)

\* A buffer that was cut short anywhere is refused, never read as less data
\* (spec/sparsam_spec.rb:374-379).
TruncatedIsRefused ==
  R!Done /\ Len(input) < Len(out) /\ Understood => rres.st = "raised"

\* A union that was read has at most one field, and it is the one its @setfield
\* names (lib/sparsam/union.rb reads it through @setfield).
UnionsHoldTheirSetField ==
  \A o \in 1..Len(mem) :
    mem[o].klass \in Unions =>
      \A n \in Names : mem[o].ivars[n] # nil <=> n = mem[o].setfield

\* Whatever class the data was written as, the fields of a struct that was read
\* hold their default or a value of their type, and the elements of its lists and
\* sets are of theirs, or nil.  Nothing of the kind is true of union fields and of
\* maps, which readUnion and readAny take as they come.
HasType(v, ftype, k) ==
  IF v \in VALUE
  THEN ftype \in ScalarTypes /\ (ftype = "STRING" <=> heap[v].type = "string")
  ELSE mem[v].type = (IF ftype = "STRUCT" THEN "object" ELSE ftype) /\ mem[v].klass = k

FieldHasType(v, f) ==
  /\ HasType(v, f.ftype, f.klass)
  /\ f.ftype \in SequenceTypes =>
       LET e == FieldInfo[f.elementType] IN
       \A i \in DOMAIN mem[v].items :
         mem[v].items[i] = nil \/ HasType(mem[v].items[i], e.ftype, e.klass)

StructFieldsHaveTheirType ==
  \A o \in 1..Len(mem) :
    mem[o].klass \in Klasses \ Unions =>
      \A fid \in Fids(mem[o].klass) :
        LET f == FieldInfo[InfoOf(mem[o].klass, fid)]
            v == mem[o].ivars[f.symName]
        IN v = Defaults[mem[o].klass][f.symName] \/ FieldHasType(v, f)

\* Deserialization ends, for every buffer.
DeserializeTerminates == input # NULL ~> R!Done

\* A difference between the types written and those expected is reported as such
\* or survived; it does not make the reader take a class for what is none
\* (spec/sparsam_spec.rb:274-284).
NeverCrashes == rres.st \notin {"crash", "garbled"}
=============================================================================
