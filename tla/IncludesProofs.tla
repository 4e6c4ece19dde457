--------------------------- MODULE IncludesProofs ---------------------------
(****************************************************************************)
(* What the driver promises, for every project, whatever its files include:  *)
(* only files that include each other exhaust the stack, and no project that *)
(* has some is finished; a name denotes what its file includes, in an audit  *)
(* what is found with the search path of its side.                           *)
(****************************************************************************)
EXTENDS Includes, SequenceTheorems, FiniteSetTheorems, TLAPS

(****************************************************************************)
(* The inductive invariant.                                                  *)
(****************************************************************************)
Kinds == {"types", "consts"}
KindOf(kind) == IF kind = "types" THEN "type" ELSE "const"
Progs == DOMAIN programs
Known == DOMAIN program_to_scope

IsSequence(s) == /\ Len(s) \in Nat /\ DOMAIN s = 1..Len(s)
                 /\ s = [i \in 1..Len(s) |-> s[i]]
Frame == [prog : Nat, parent : Nat \cup {NULL},
          pc : {"begin", "includes", "types", "write"}, next : Nat \ {0}]
IsProgram(r) ==
  /\ DOMAIN r = {"path", "side", "includes", "scope", "defs"}
  /\ DOMAIN r.scope = Kinds
  /\ r.path \in Files
  /\ IsSequence(r.includes) /\ IsSequence(r.defs)

\* Types, and the programs that main makes.
Roots == IF request.audit THEN 2 ELSE 1
ShapeInv ==
  /\ project \in Projects
  /\ request \in [audit : BOOLEAN, recurse : BOOLEAN]
  /\ request.audit => ~ request.recurse
  /\ side \in Sides /\ (~ request.audit => side = "new")
  /\ phase \in {"parse", "generate", "compare"}
  /\ status \in {"running", "failure", "overflow", "done"}
  /\ IsSequence(programs) /\ (\A p \in Progs : IsProgram(programs[p]))
  /\ Roots \in Progs /\ Path(1) = project.root["new"]
  /\ request.audit => Path(2) = project.root["old"]
  /\ \A f \in Known : DOMAIN program_to_scope[f] = Kinds
  /\ stack \in Seq(Frame) /\ \A k \in DOMAIN stack : stack[k].prog \in Progs

\* The programs made for include directives form a tree.
Scanned(p) == DOMAIN programs[p].includes = DOMAIN Seen[Path(p)]
TreeInv ==
  /\ \A p \in Progs : \A i \in DOMAIN programs[p].includes :
       LET c == programs[p].includes[i] IN
       /\ c \in Progs /\ c > p /\ c > Roots
       /\ Scanned(p) /\ Path(c) = Seen[Path(p)][i]
  /\ \A p, q \in Progs :
       \A i \in DOMAIN programs[p].includes, j \in DOMAIN programs[q].includes :
         programs[p].includes[i] = programs[q].includes[j] => p = q /\ i = j

\* The calls of parse on the stack are a path in it.
Parent(k) == IF k = Len(stack) THEN NULL ELSE stack[k + 1].prog
RootProg == IF side = "old" THEN 2 ELSE 1
StackInv ==
  phase = "parse" =>
  /\ stack # <<>>
  /\ stack[Len(stack)].prog = RootProg
  /\ \A k \in DOMAIN stack :
       /\ stack[k].pc \in {"begin", "includes", "types"}
       /\ stack[k].parent = Parent(k)
       /\ k > 1 => /\ stack[k].pc = "includes"
                   /\ stack[k].next - 1 \in DOMAIN programs[stack[k].prog].includes
                   /\ stack[k - 1].prog = programs[stack[k].prog].includes[stack[k].next - 1]
       /\ \A j \in DOMAIN stack : j < k => stack[j].prog > stack[k].prog

\* What has not been called for is as it was made.
Fresh(p) == /\ programs[p].includes = <<>> /\ programs[p].defs = <<>>
            /\ \A kind \in Kinds : DOMAIN programs[p].scope[kind] = {}
ToCall(k) == {programs[stack[k].prog].includes[i] :
                i \in {j \in DOMAIN programs[stack[k].prog].includes : j >= stack[k].next}}
FreshInv ==
  phase = "parse" =>
  /\ Top.pc = "begin" => Fresh(Top.prog) /\ Top.next = 1
  /\ side = "old" => Fresh(1)
  /\ \A k \in DOMAIN stack :
       stack[k].pc = "includes" =>
         /\ \A p \in ToCall(k) : Fresh(p)
         /\ programs[stack[k].prog].defs = <<>>
         /\ \A kind \in Kinds : \A q \in DOMAIN programs[stack[k].prog].scope[kind] : q[1] # NULL
  /\ Top.pc = "types" => Len(programs[Top.prog].defs) = Top.next - 1

\* A file is known once its includes are.
KnownInv ==
  /\ Known \subseteq Files
  /\ IsClosed(Seen, Known)
  /\ \A f \in Known : f \notin Reach(Seen, IncludedBy(f))
  /\ phase # "parse" => project.root["new"] \in Known
  /\ request.audit /\ side = "new" => project.root["old"] \in Known
  /\ phase = "parse" =>
       \A k \in DOMAIN stack :
         /\ stack[k].pc = "includes" =>
              /\ Scanned(stack[k].prog)
              /\ Path(stack[k].prog) \notin Known
              /\ \A i \in DOMAIN programs[stack[k].prog].includes :
                   i < stack[k].next =>
                     \/ (k > 1 /\ i = stack[k].next - 1)
                     \/ Path(programs[stack[k].prog].includes[i]) \in Known
         /\ stack[k].pc = "types" => Path(stack[k].prog) \in Known

\* Each is reached from those below it.
ChainInv ==
  phase = "parse" =>
    \A k \in DOMAIN stack :
      /\ Path(stack[k].prog) \in Reached(side)
      /\ \A j \in DOMAIN stack :
           j < k => Path(stack[j].prog) \in Reach(Seen, IncludedBy(Path(stack[k].prog)))

\* What a name stands for: a definition of a program, its own or one that its file includes.
IsPlace(kind, q, o) ==
  /\ q = <<q[1], q[2]>> /\ o \in Nat \X Nat
  /\ o[1] \in Progs /\ o[2] \in DOMAIN programs[o[1]].defs
  /\ programs[o[1]].defs[o[2]].name = q[2]
  /\ programs[o[1]].defs[o[2]].kind = KindOf(kind)
IsImport(f, q, o) == Path(o[1]) \in IncludedBy(f) /\ q[1] = BaseName(Path(o[1]))
KindsOf(defn) == IF defn.kind = "type" THEN "types" ELSE "consts"

(****************************************************************************)
(* Lemmas on sequences.                                                      *)
(****************************************************************************)
Elements(s) == {s[i] : i \in 1..Len(s)}

LEMMA SequenceIsSeq ==
  ASSUME NEW s, IsSequence(s), NEW S, Elements(s) \subseteq S
  PROVE  s \in Seq(S)
<1> DEFINE n == Len(s)
<1>1. n \in Nat /\ s = [i \in 1..n |-> s[i]]
  BY DEF IsSequence
<1>2. \A i \in 1..n : s[i] \in S
  BY DEF Elements
<1> HIDE DEF n
<1>3. s \in [1..n -> S]
  BY <1>1, <1>2
<1> QED BY <1>1, <1>3, SeqDef

LEMMA SeqIsSequence ==
  ASSUME NEW S, NEW s \in Seq(S)
  PROVE  IsSequence(s) /\ Elements(s) \subseteq S
BY LenProperties, ElementOfSeq DEF IsSequence, Elements

LEMMA FunctionIsSequence ==
  ASSUME NEW n \in Nat, NEW s, s = [i \in 1..n |-> s[i]]
  PROVE  IsSequence(s) /\ Len(s) = n
<1> DEFINE S == {s[i] : i \in 1..n}
<1>1. s \in [1..n -> S]
  <2>1. \A i \in 1..n : s[i] \in S
    OBVIOUS
  <2> HIDE DEF S
  <2> QED BY <2>1
<1>2. s \in Seq(S)
  BY <1>1, SeqDef
<1>3. Len(s) = n
  <2>1. Len(s) \in Nat /\ DOMAIN s = 1..Len(s)
    BY <1>2, LenProperties
  <2>2. DOMAIN s = 1..n
    BY <1>1
  <2> QED BY <2>1, <2>2
<1> QED BY <1>2, <1>3, SeqIsSequence

LEMMA ConcatIsSequence ==
  ASSUME NEW s, IsSequence(s), NEW t, IsSequence(t)
  PROVE  /\ IsSequence(s \o t)
         /\ Len(s \o t) = Len(s) + Len(t)
         /\ \A i \in 1..Len(s) : (s \o t)[i] = s[i]
         /\ \A i \in 1..Len(t) : (s \o t)[Len(s) + i] = t[i]
<1> DEFINE S == Elements(s) \cup Elements(t)
<1>1. s \in Seq(S) /\ t \in Seq(S)
  BY SequenceIsSeq
<1> HIDE DEF S
<1>2. s \o t \in Seq(S) /\ Len(s \o t) = Len(s) + Len(t)
  BY <1>1, ConcatProperties
<1>3. Len(s) \in Nat /\ Len(t) \in Nat
  BY DEF IsSequence
<1>4. \A i \in 1..Len(s) + Len(t) :
        (s \o t)[i] = IF i <= Len(s) THEN s[i] ELSE t[i - Len(s)]
  BY <1>1, ConcatProperties
<1>5. IsSequence(s \o t)
  BY <1>2, SeqIsSequence
<1>6. ASSUME NEW i \in 1..Len(t) PROVE (s \o t)[Len(s) + i] = t[i]
  <2>1. Len(s) + i \in 1..Len(s) + Len(t) /\ ~ (Len(s) + i <= Len(s)) /\ Len(s) + i - Len(s) = i
    BY <1>3
  <2> QED BY <1>4, <2>1
<1>7. \A i \in 1..Len(s) : (s \o t)[i] = s[i]
  BY <1>3, <1>4
<1> QED BY <1>2, <1>5, <1>6, <1>7

LEMMA AppendIsSequence ==
  ASSUME NEW s, IsSequence(s), NEW e
  PROVE  /\ IsSequence(Append(s, e))
         /\ Len(Append(s, e)) = Len(s) + 1
         /\ \A i \in 1..Len(s) : Append(s, e)[i] = s[i]
         /\ Append(s, e)[Len(s) + 1] = e
<1> DEFINE S == Elements(s) \cup {e}
<1>1. s \in Seq(S) /\ e \in S
  BY SequenceIsSeq
<1> HIDE DEF S
<1>2. /\ Append(s, e) \in Seq(S) /\ Len(Append(s, e)) = Len(s) + 1
      /\ \A i \in 1..Len(s) : Append(s, e)[i] = s[i]
      /\ Append(s, e)[Len(s) + 1] = e
  BY <1>1, AppendProperties
<1>3. IsSequence(Append(s, e))
  BY <1>2, SeqIsSequence
<1> QED BY <1>2, <1>3

(****************************************************************************)
(* Lemmas on the stack.                                                      *)
(****************************************************************************)
LEMMA WithTopFacts ==
  ASSUME stack \in Seq(Frame), stack # <<>>, NEW f \in Frame, WithTop(f)
  PROVE  /\ stack' \in Seq(Frame) /\ Len(stack') = Len(stack)
         /\ stack'[1] = f
         /\ \A k \in 2..Len(stack) : stack'[k] = stack[k]
<1>1. Tail(stack) \in Seq(Frame) /\ Len(Tail(stack)) = Len(stack) - 1
      /\ \A i \in 1..Len(Tail(stack)) : Tail(stack)[i] = stack[i + 1]
  BY HeadTailProperties
<1>2. <<f>> \in Seq(Frame) /\ Len(<<f>>) = 1 /\ <<f>>[1] = f
  OBVIOUS
<1>3. Len(stack) \in Nat \ {0}
  BY EmptySeq
<1>4. stack' = <<f>> \o Tail(stack)
  BY DEF WithTop
<1> QED BY <1>1, <1>2, <1>3, <1>4, ConcatProperties

LEMMA PushFacts ==
  ASSUME NEW s \in Seq(Frame), s # <<>>, NEW f \in Frame, NEW g \in Frame, NEW t,
         t = <<f, g>> \o Tail(s)
  PROVE  /\ t \in Seq(Frame) /\ Len(t) = Len(s) + 1
         /\ t[1] = f /\ t[2] = g
         /\ \A k \in 3..Len(s) + 1 : t[k] = s[k - 1]
<1>1. Tail(s) \in Seq(Frame) /\ Len(Tail(s)) = Len(s) - 1
      /\ \A i \in 1..Len(Tail(s)) : Tail(s)[i] = s[i + 1]
  BY HeadTailProperties
<1>2. <<f, g>> \in Seq(Frame) /\ Len(<<f, g>>) = 2 /\ <<f, g>>[1] = f /\ <<f, g>>[2] = g
  OBVIOUS
<1>3. Len(s) \in Nat \ {0}
  BY EmptySeq
<1> QED BY <1>1, <1>2, <1>3, ConcatProperties

LEMMA PopFacts ==
  ASSUME NEW s \in Seq(Frame), s # <<>>
  PROVE  /\ Tail(s) \in Seq(Frame) /\ Len(Tail(s)) = Len(s) - 1
         /\ \A k \in 1..Len(s) - 1 : Tail(s)[k] = s[k + 1]
<1>1. Tail(s) \in Seq(Frame) /\ Len(Tail(s)) = Len(s) - 1
      /\ \A i \in 1..Len(Tail(s)) : Tail(s)[i] = s[i + 1]
  BY HeadTailProperties
<1> QED BY <1>1

(****************************************************************************)
(* What does not change.                                                     *)
(****************************************************************************)
LEMMA Rigid ==
  ASSUME [Next]_vars
  PROVE  /\ UNCHANGED <<project, request>>
         /\ Seen' = Seen /\ Roots' = Roots
         /\ \A s : Reached(s)' = Reached(s)
<1>1. UNCHANGED <<project, request>>
  BY Zenon DEF Next, vars, SkipRecursion, ScanIncludes, Recurse, Overflow, SaveScope, DefineType,
         DefineConst, Defined, Refused, Return, ReturnToAudit, ReturnToMain, SkipGenerated,
         Generate, GenerateInclude, GenerateProgram
<1>2. Seen' = Seen
  BY <1>1 DEF Seen, OldFiles, Reach, IsClosed
<1> QED BY SMTT(40), <1>1, <1>2 DEF Reached, Reach, IsClosed, Roots

(****************************************************************************)
(* What the steps do to the programs and the stack, read off at one place.   *)
(****************************************************************************)

\* The innermost call, in a state of the right shape.
LEMMA TopFacts ==
  ASSUME ShapeInv, stack # <<>>
  PROVE  /\ Len(stack) \in Nat \ {0} /\ 1 \in DOMAIN stack /\ DOMAIN stack = 1..Len(stack)
         /\ Top \in Frame /\ Top.prog \in Progs /\ Progs = 1..Len(programs)
         /\ Path(Top.prog) \in Files /\ Len(programs) \in Nat
<1>1. stack \in Seq(Frame)
  BY DEF ShapeInv
<1>2. Len(stack) \in Nat \ {0} /\ DOMAIN stack = 1..Len(stack)
  BY <1>1, EmptySeq, LenProperties
<1>3. Top \in Frame /\ Top.prog \in Progs
  BY <1>1, <1>2, ElementOfSeq DEF Top, ShapeInv
<1>4. Progs = 1..Len(programs) /\ Len(programs) \in Nat
  BY DEF ShapeInv, IsSequence, Progs
<1>5. Path(Top.prog) \in Files
  BY <1>3 DEF ShapeInv, IsProgram, Path
<1>6. 1 \in DOMAIN stack
  BY <1>2
<1> QED BY <1>2, <1>3, <1>4, <1>5, <1>6

\* What is on disk.
LEMMA ProjectFacts ==
  ASSUME ShapeInv
  PROVE  /\ \A f \in Files : /\ Seen[f] \in Seq(Files) /\ IsSequence(project.defs[f])
                             /\ BaseName(f) # NULL
         /\ DOMAIN Seen = Files
         /\ project.root["new"] \in Files /\ project.root["old"] \in Files
<1>1. IsProject(project)
  BY IncludesAssumption DEF ShapeInv
<1>2. \A f \in Files, s \in Sides : project.includes[s][f] \in Seq(Files)
  BY <1>1 DEF IsProject
<1>3. \A f \in Files : Seen[f] \in Seq(Files)
  BY <1>2 DEF Seen, Sides
<1>4. \A f \in Files : IsSequence(project.defs[f])
  BY <1>1, SeqIsSequence DEF IsProject
<1>5. \A f \in Files : BaseName(f) # NULL
  BY <1>1 DEF IsProject, BaseName, Range
<1>6. DOMAIN Seen = Files
  BY DEF Seen
<1>7. project.root["new"] \in Files /\ project.root["old"] \in Files
  BY <1>1 DEF IsProject, Sides
<1> QED BY <1>3, <1>4, <1>5, <1>6, <1>7

\* A frame with another pc, or further on.
LEMMA FrameAt ==
  ASSUME NEW f \in Frame, NEW pc \in {"begin", "includes", "types", "write"}
  PROVE  /\ [f EXCEPT !.pc = pc] \in Frame
         /\ [f EXCEPT !.pc = pc].prog = f.prog /\ [f EXCEPT !.pc = pc].parent = f.parent
         /\ [f EXCEPT !.pc = pc].next = f.next /\ [f EXCEPT !.pc = pc].pc = pc
BY DEF Frame

LEMMA FrameNext ==
  ASSUME NEW f \in Frame
  PROVE  /\ [f EXCEPT !.next = @ + 1] \in Frame
         /\ [f EXCEPT !.next = @ + 1].prog = f.prog /\ [f EXCEPT !.next = @ + 1].parent = f.parent
         /\ [f EXCEPT !.next = @ + 1].next = f.next + 1 /\ [f EXCEPT !.next = @ + 1].pc = f.pc
BY DEF Frame

LEMMA FrameDefining ==
  ASSUME NEW prog \in Nat, NEW parent \in Nat \cup {NULL}
  PROVE  LET f == [ParseFrame(prog, parent) EXCEPT !.pc = "types"] IN
         f \in Frame /\ f.prog = prog /\ f.parent = parent /\ f.next = 1 /\ f.pc = "types"
BY DEF Frame, ParseFrame

LEMMA SkipFacts ==
  ASSUME ShapeInv, SkipRecursion
  PROVE  /\ IsSequence(programs') /\ Progs' = Progs
         /\ \A p \in Progs :
              /\ programs'[p].path = programs[p].path /\ DOMAIN programs'[p] = DOMAIN programs[p]
              /\ programs'[p].includes = programs[p].includes
              /\ programs'[p].defs = programs[p].defs
              /\ programs'[p].scope = IF p = Top.prog THEN program_to_scope[Path(Top.prog)]
                                                      ELSE programs[p].scope
         /\ stack' \in Seq(Frame) /\ Len(stack') = Len(stack)
         /\ stack'[1].prog = Top.prog /\ stack'[1].parent = Top.parent
         /\ stack'[1].next = Top.next /\ stack'[1].pc = "types"
         /\ \A k \in 2..Len(stack) : stack'[k] = stack[k]
         /\ Path(Top.prog) \in Known /\ Top.pc = "begin" /\ stack # <<>>
         /\ phase = "parse" /\ status = "running"
         /\ UNCHANGED <<side, program_to_scope, phase, generated_files, written, status>>
<1>1. stack # <<>> /\ stack \in Seq(Frame) /\ Top.pc = "begin" /\ Path(Top.prog) \in Known
      /\ phase = "parse" /\ status = "running"
  BY DEF SkipRecursion, At, ShapeInv, Known
<1>2. Top \in Frame /\ Top.prog \in Progs
  BY <1>1, TopFacts
<1>3. programs' = [programs EXCEPT ![Top.prog].scope = program_to_scope[Path(Top.prog)]]
  BY DEF SkipRecursion
<1>4. IsSequence(programs) /\ Progs = 1..Len(programs)
  BY DEF ShapeInv, IsSequence, Progs
<1>5. IsSequence(programs') /\ Progs' = Progs
  <2>1. programs' = [i \in 1..Len(programs) |-> programs'[i]] /\ DOMAIN programs' = DOMAIN programs
    BY <1>3, <1>4 DEF Progs
  <2>2. Len(programs) \in Nat
    BY <1>4 DEF IsSequence
  <2> QED BY <2>1, <2>2, FunctionIsSequence DEF Progs
<1>6. ASSUME NEW p \in Progs
      PROVE  /\ programs'[p].path = programs[p].path /\ DOMAIN programs'[p] = DOMAIN programs[p]
             /\ programs'[p].includes = programs[p].includes
             /\ programs'[p].defs = programs[p].defs
             /\ programs'[p].scope = IF p = Top.prog THEN program_to_scope[Path(Top.prog)]
                                                     ELSE programs[p].scope
  <2>1. DOMAIN programs[p] = {"path", "side", "includes", "scope", "defs"}
    BY DEF ShapeInv, IsProgram
  <2>2. CASE p = Top.prog
    <3>1. programs'[p] = [programs[p] EXCEPT !.scope = program_to_scope[Path(Top.prog)]]
      BY <1>3, <2>2 DEF Progs
    <3> QED BY <2>1, <2>2, <3>1
  <2>3. CASE p # Top.prog
    BY <1>3, <2>3 DEF Progs
  <2> QED BY <2>2, <2>3
<1>7. WithTop([Top EXCEPT !.pc = "types"])
  BY DEF SkipRecursion
<1>8. [Top EXCEPT !.pc = "types"] \in Frame
      /\ [Top EXCEPT !.pc = "types"].prog = Top.prog /\ [Top EXCEPT !.pc = "types"].parent = Top.parent
      /\ [Top EXCEPT !.pc = "types"].next = Top.next /\ [Top EXCEPT !.pc = "types"].pc = "types"
  BY <1>2, FrameAt
<1>9. /\ stack' \in Seq(Frame) /\ Len(stack') = Len(stack)
      /\ stack'[1] = [Top EXCEPT !.pc = "types"]
      /\ \A k \in 2..Len(stack) : stack'[k] = stack[k]
  BY <1>1, <1>7, <1>8, WithTopFacts
<1>10. UNCHANGED <<side, program_to_scope, phase, generated_files, written, status>>
  BY DEF SkipRecursion
<1> QED BY <1>1, <1>5, <1>6, <1>8, <1>9, <1>10

LEMMA SaveFacts ==
  ASSUME ShapeInv, SaveScope
  PROVE  /\ UNCHANGED <<programs, side, phase, generated_files, written, status>>
         /\ Known' = Known \cup {Path(Top.prog)}
         /\ program_to_scope'[Path(Top.prog)] = programs[Top.prog].scope
         /\ \A f \in Known : f # Path(Top.prog) => program_to_scope'[f] = program_to_scope[f]
         /\ stack' \in Seq(Frame) /\ Len(stack') = Len(stack)
         /\ stack'[1].prog = Top.prog /\ stack'[1].parent = Top.parent
         /\ stack'[1].next = 1 /\ stack'[1].pc = "types"
         /\ \A k \in 2..Len(stack) : stack'[k] = stack[k]
         /\ Top.pc = "includes" /\ stack # <<>> /\ phase = "parse" /\ status = "running"
         /\ Top.next \notin DOMAIN programs[Top.prog].includes
<1>1. stack # <<>> /\ stack \in Seq(Frame) /\ Top.pc = "includes" /\ phase = "parse"
      /\ Top.next \notin DOMAIN programs[Top.prog].includes /\ status = "running"
  BY DEF SaveScope, At, ShapeInv
<1>2. Top \in Frame
  BY <1>1, TopFacts
<1>3. program_to_scope' = With(program_to_scope, Path(Top.prog), programs[Top.prog].scope)
  BY DEF SaveScope
<1>4. /\ Known' = Known \cup {Path(Top.prog)}
      /\ program_to_scope'[Path(Top.prog)] = programs[Top.prog].scope
      /\ \A f \in Known : f # Path(Top.prog) => program_to_scope'[f] = program_to_scope[f]
  <2>1. PICK path, scope : path = Path(Top.prog) /\ scope = programs[Top.prog].scope
    OBVIOUS
  <2>2. program_to_scope' = With(program_to_scope, path, scope)
    BY <1>3, <2>1
  <2>3. Known' = Known \cup {path}
    BY <2>2 DEF With, Known
  <2>4. program_to_scope'[path] = scope
    BY <2>2 DEF With, Known
  <2>5. \A f \in Known : f # path => program_to_scope'[f] = program_to_scope[f]
    BY <2>2 DEF With, Known
  <2> QED BY <2>1, <2>3, <2>4, <2>5
<1> DEFINE f == [ParseFrame(Top.prog, Top.parent) EXCEPT !.pc = "types"]
<1>5. f \in Frame /\ f.prog = Top.prog /\ f.parent = Top.parent /\ f.next = 1 /\ f.pc = "types"
  BY <1>2, FrameDefining DEF Frame
<1>6. WithTop(f)
  BY DEF SaveScope
<1> HIDE DEF f
<1>7. /\ stack' \in Seq(Frame) /\ Len(stack') = Len(stack) /\ stack'[1] = f
      /\ \A k \in 2..Len(stack) : stack'[k] = stack[k]
  BY <1>1, <1>5, <1>6, WithTopFacts
<1>8. UNCHANGED <<programs, side, phase, generated_files, written, status>>
  BY DEF SaveScope
<1> QED BY <1>1, <1>4, <1>5, <1>7, <1>8

Found == project.includes[side][Path(Top.prog)]
Made(i) == Len(programs) + i
LEMMA ScanFacts ==
  ASSUME ShapeInv, ScanIncludes
  PROVE  /\ Found \in Seq(Files) /\ Len(Found) \in Nat /\ DOMAIN Found = 1..Len(Found)
         /\ IsSequence(programs') /\ Progs \subseteq Progs'
         /\ \A p \in Progs' : p \in Progs \/ \E i \in DOMAIN Found : p = Made(i)
         /\ \A p \in Progs : p # Top.prog => programs'[p] = programs[p]
         /\ DOMAIN programs'[Top.prog] = DOMAIN programs[Top.prog]
         /\ programs'[Top.prog].path = programs[Top.prog].path
         /\ programs'[Top.prog].side = programs[Top.prog].side
         /\ programs'[Top.prog].scope = programs[Top.prog].scope
         /\ programs'[Top.prog].defs = programs[Top.prog].defs
         /\ IsSequence(programs'[Top.prog].includes)
         /\ DOMAIN programs'[Top.prog].includes = DOMAIN Found
         /\ \A i \in DOMAIN Found :
              /\ programs'[Top.prog].includes[i] = Made(i)
              /\ Made(i) \in Progs' /\ Made(i) \notin Progs /\ Made(i) # Top.prog
              /\ \A p \in Progs : Made(i) > p
              /\ programs'[Made(i)] = NewProgram(Found[i], side)
              /\ \A j \in DOMAIN Found : Made(i) = Made(j) => i = j
         /\ stack' \in Seq(Frame) /\ Len(stack') = Len(stack)
         /\ stack'[1].prog = Top.prog /\ stack'[1].parent = Top.parent
         /\ stack'[1].next = Top.next /\ stack'[1].pc = "includes"
         /\ \A k \in 2..Len(stack) : stack'[k] = stack[k]
         /\ Path(Top.prog) \notin Known /\ Top.pc = "begin" /\ stack # <<>>
         /\ phase = "parse" /\ status = "running"
         /\ UNCHANGED <<side, program_to_scope, phase, generated_files, written, status>>
<1>0. PICK found : found = Found
  OBVIOUS
<1>1. stack # <<>> /\ stack \in Seq(Frame) /\ Top.pc = "begin" /\ Path(Top.prog) \notin Known
      /\ phase = "parse" /\ status = "running"
  BY DEF ScanIncludes, At, ShapeInv, Known
<1>2. Top \in Frame /\ Top.prog \in Progs /\ Path(Top.prog) \in Files
  BY <1>1, TopFacts
<1>3. found \in Seq(Files)
  BY <1>0, <1>2, IncludesAssumption DEF ShapeInv, IsProject, Found
<1>4. Len(found) \in Nat /\ DOMAIN found = 1..Len(found)
  BY <1>3, LenProperties
<1>5. programs' = [programs EXCEPT ![Top.prog].includes = [i \in DOMAIN found |-> Len(programs) + i]]
                   \o [i \in DOMAIN found |-> NewProgram(found[i], side)]
  BY <1>0 DEF ScanIncludes, Found
<1>6. PICK n, P, made, scanned :
        /\ n = Len(programs) /\ P = Top.prog
        /\ made = [i \in DOMAIN found |-> NewProgram(found[i], side)]
        /\ scanned = [programs EXCEPT ![P].includes = [i \in DOMAIN found |-> n + i]]
  OBVIOUS
<1>7. IsSequence(programs) /\ Progs = 1..n /\ DOMAIN programs = 1..n /\ n \in Nat /\ P \in 1..n
  BY <1>2, <1>6 DEF ShapeInv, IsSequence, Progs
<1>8. IsSequence(scanned) /\ Len(scanned) = n
  <2>1. scanned = [i \in 1..n |-> scanned[i]]
    BY <1>6, <1>7
  <2> QED BY <2>1, <1>7, FunctionIsSequence
<1>9. IsSequence(made) /\ Len(made) = Len(found)
  <2>1. made = [i \in 1..Len(found) |-> made[i]]
    BY <1>4, <1>6
  <2> QED BY <2>1, <1>4, FunctionIsSequence
<1>10. programs' = scanned \o made
  BY <1>5, <1>6
<1>11. /\ IsSequence(scanned \o made) /\ Len(scanned \o made) = n + Len(found)
       /\ \A i \in 1..n : (scanned \o made)[i] = scanned[i]
       /\ \A i \in 1..Len(found) : (scanned \o made)[n + i] = made[i]
  <2>1. /\ IsSequence(scanned \o made) /\ Len(scanned \o made) = Len(scanned) + Len(made)
        /\ \A i \in 1..Len(scanned) : (scanned \o made)[i] = scanned[i]
        /\ \A i \in 1..Len(made) : (scanned \o made)[Len(scanned) + i] = made[i]
    <3>1. IsSequence(scanned) /\ IsSequence(made)
      BY <1>8, <1>9
    <3> QED BY ONLY <3>1, ConcatIsSequence
  <2> QED BY <2>1, <1>8, <1>9
<1>12. IsSequence(programs') /\ Len(programs') = n + Len(found)
  BY <1>10, <1>11
<1>13. Progs' = 1..n + Len(found)
  BY <1>12 DEF IsSequence, Progs
<1>14. \A p \in 1..n : p # P => programs'[p] = programs[p]
  BY <1>6, <1>7, <1>10, <1>11
<1>15. programs'[P] = [programs[P] EXCEPT !.includes = [i \in DOMAIN found |-> n + i]]
  BY <1>6, <1>7, <1>10, <1>11
<1>16. \A i \in DOMAIN found : programs'[n + i] = NewProgram(found[i], side)
  BY SMTT(40), <1>4, <1>6, <1>10, <1>11
<1>17. WithTop([Top EXCEPT !.pc = "includes"])
  BY DEF ScanIncludes
<1>18. [Top EXCEPT !.pc = "includes"] \in Frame
      /\ [Top EXCEPT !.pc = "includes"].prog = Top.prog /\ [Top EXCEPT !.pc = "includes"].parent = Top.parent
      /\ [Top EXCEPT !.pc = "includes"].next = Top.next /\ [Top EXCEPT !.pc = "includes"].pc = "includes"
  BY <1>2, FrameAt
<1>19. /\ stack' \in Seq(Frame) /\ Len(stack') = Len(stack)
      /\ stack'[1] = [Top EXCEPT !.pc = "includes"]
      /\ \A k \in 2..Len(stack) : stack'[k] = stack[k]
  BY <1>1, <1>17, <1>18, WithTopFacts
<1>20. UNCHANGED <<side, program_to_scope, phase, generated_files, written, status>>
  BY DEF ScanIncludes
<1>21. stack'[1].prog = Top.prog /\ stack'[1].parent = Top.parent
       /\ stack'[1].next = Top.next /\ stack'[1].pc = "includes"
  BY <1>18, <1>19
<1>22. Progs \subseteq Progs'
  BY <1>4, <1>7, <1>13
<1>23. ASSUME NEW p \in Progs', p \notin Progs PROVE \E i \in DOMAIN found : p = n + i
  <2>1. p - n \in 1..Len(found) /\ p = n + (p - n)
    BY <1>4, <1>7, <1>13, <1>23
  <2> QED BY <1>4, <2>1
<1>24. ASSUME NEW i \in DOMAIN found
       PROVE  /\ n + i \in Progs' /\ n + i \notin Progs /\ n + i # P
              /\ \A p \in Progs : n + i > p
              /\ \A j \in DOMAIN found : n + i = n + j => i = j
  BY <1>4, <1>7, <1>13
<1>25. IsProgram(programs[P])
  BY <1>7 DEF ShapeInv
<1>26. PICK s : s = [i \in DOMAIN found |-> n + i]
  OBVIOUS
<1>27. programs'[P] = [programs[P] EXCEPT !.includes = s]
  BY <1>15, <1>26
<1>28. /\ DOMAIN programs'[P] = DOMAIN programs[P] /\ programs'[P].path = programs[P].path
       /\ programs'[P].side = programs[P].side /\ programs'[P].scope = programs[P].scope
       /\ programs'[P].defs = programs[P].defs /\ programs'[P].includes = s
  BY <1>25, <1>27 DEF IsProgram
<1>29. IsSequence(s) /\ DOMAIN s = DOMAIN found /\ \A i \in DOMAIN found : s[i] = n + i
  <2>1. s = [i \in 1..Len(found) |-> s[i]]
    BY <1>4, <1>26
  <2> QED BY <2>1, <1>4, <1>26, FunctionIsSequence
<1>30. \A i : Made(i) = n + i
  BY <1>6 DEF Made
<1>31. /\ \A p \in Progs' : p \in Progs \/ \E i \in DOMAIN found : p = Made(i)
       /\ \A i \in DOMAIN found :
            /\ programs'[P].includes[i] = Made(i)
            /\ Made(i) \in Progs' /\ Made(i) \notin Progs /\ Made(i) # P
            /\ \A p \in Progs : Made(i) > p
            /\ programs'[Made(i)] = NewProgram(found[i], side)
            /\ \A j \in DOMAIN found : Made(i) = Made(j) => i = j
  <2>1. \A p \in Progs' : p \in Progs \/ \E i \in DOMAIN found : p = n + i
    BY <1>23
  <2>2. \A i \in DOMAIN found : programs'[P].includes[i] = n + i /\ programs'[n + i] = NewProgram(found[i], side)
    BY <1>16, <1>28, <1>29
  <2> QED BY <1>24, <1>30, <2>1, <2>2
<1> QED BY <1>0, <1>1, <1>3, <1>4, <1>6, <1>7, <1>12, <1>14, <1>19, <1>20, <1>21, <1>22, <1>28, <1>29, <1>31

\* The definition that is being parsed goes to kind, either by DefineType or by
\* DefineConst.
Accepts(kind) ==
  IF kind = "types" THEN IsUniqueTypename
  ELSE IsNewConstant /\ \A q \in Current.refs : Bound("consts")[q] # NULL
Defines(kind) == Defining /\ Current.kind = KindOf(kind) /\ Accepts(kind) /\ Defined(kind)

LEMMA DefineFacts ==
  ASSUME ShapeInv, NEW kind \in Kinds, Defines(kind)
  PROVE  /\ IsSequence(programs') /\ Progs' = Progs
         /\ \A p \in Progs :
              /\ programs'[p].path = programs[p].path /\ DOMAIN programs'[p] = DOMAIN programs[p]
              /\ programs'[p].includes = programs[p].includes
              /\ DOMAIN programs'[p].scope = Kinds
              /\ p # Top.prog => programs'[p].defs = programs[p].defs
              /\ \A k \in Kinds :
                   programs'[p].scope[k] = 
                     IF k # kind THEN programs[p].scope[k]
                     ELSE IF p = Top.prog THEN WithCurrent(programs[p].scope[k], NULL)
                     ELSE IF p = Top.parent THEN WithCurrent(programs[p].scope[k], Prefix)
                     ELSE programs[p].scope[k]
         /\ programs'[Top.prog].defs =
              Append(programs[Top.prog].defs,
                     [name |-> Current.name, kind |-> Current.kind, refs |-> Bound(kind)])
         /\ stack' \in Seq(Frame) /\ Len(stack') = Len(stack)
         /\ stack'[1].prog = Top.prog /\ stack'[1].parent = Top.parent
         /\ stack'[1].next = Top.next + 1 /\ stack'[1].pc = "types"
         /\ \A k \in 2..Len(stack) : stack'[k] = stack[k]
         /\ Top.pc = "types" /\ stack # <<>> /\ Top.next \in DOMAIN Defs(Top.prog)
         /\ phase = "parse" /\ status = "running"
         /\ UNCHANGED <<side, program_to_scope, phase, generated_files, written, status>>
<1>1. stack # <<>> /\ stack \in Seq(Frame) /\ Top.pc = "types" /\ Top.next \in DOMAIN Defs(Top.prog)
      /\ phase = "parse" /\ status = "running"
  BY DEF Defines, Defining, At, ShapeInv
<1>2. Top \in Frame /\ Top.prog \in Progs
  BY <1>1, TopFacts
<1>3. PICK d : d = [name |-> Current.name, kind |-> Current.kind, refs |-> Bound(kind)]
  OBVIOUS
<1>4. PICK added : added = AddedTo(kind)
  OBVIOUS
<1>5. programs' = [added EXCEPT ![Top.prog].defs = Append(@, d)]
  BY <1>3, <1>4 DEF Defines, Defined
<1>6. IsSequence(programs) /\ Progs = 1..Len(programs) /\ Len(programs) \in Nat
  BY DEF ShapeInv, IsSequence, Progs
<1>7. DOMAIN added = Progs
  BY <1>4 DEF AddedTo, Progs
<1>8. IsSequence(programs') /\ Progs' = Progs
  <2>1. programs' = [i \in 1..Len(programs) |-> programs'[i]] /\ DOMAIN programs' = Progs
    BY <1>5, <1>6, <1>7
  <2> QED BY <2>1, <1>6, FunctionIsSequence DEF Progs
<1>9. ASSUME NEW p \in Progs
      PROVE  /\ DOMAIN added[p] = DOMAIN programs[p]
             /\ added[p].path = programs[p].path /\ added[p].includes = programs[p].includes
             /\ added[p].defs = programs[p].defs /\ DOMAIN added[p].scope = Kinds
             /\ \A k \in Kinds :
                  added[p].scope[k] =
                     IF k # kind THEN programs[p].scope[k]
                     ELSE IF p = Top.prog THEN WithCurrent(programs[p].scope[k], NULL)
                     ELSE IF p = Top.parent THEN WithCurrent(programs[p].scope[k], Prefix)
                     ELSE programs[p].scope[k]
  <2>1. DOMAIN programs[p] = {"path", "side", "includes", "scope", "defs"} /\ DOMAIN programs[p].scope = Kinds
    BY DEF ShapeInv, IsProgram
  <2>2. PICK names : names = IF p = Top.prog THEN WithCurrent(programs[p].scope[kind], NULL)
                             ELSE IF p = Top.parent THEN WithCurrent(programs[p].scope[kind], Prefix)
                             ELSE programs[p].scope[kind]
    OBVIOUS
  <2>3. added[p] = [programs[p] EXCEPT !.scope[kind] = names]
    BY <1>4, <2>2 DEF AddedTo, Progs
  <2>4. /\ DOMAIN added[p] = DOMAIN programs[p]
        /\ added[p].path = programs[p].path /\ added[p].includes = programs[p].includes
        /\ added[p].defs = programs[p].defs
    BY <2>1, <2>3
  <2>5. added[p].scope = [programs[p].scope EXCEPT ![kind] = names]
    BY <2>1, <2>3
  <2>6. DOMAIN added[p].scope = Kinds
    BY <2>1, <2>5
  <2>7. \A k \in Kinds : added[p].scope[k] = IF k # kind THEN programs[p].scope[k] ELSE names
    BY <2>1, <2>5
  <2> QED BY <2>2, <2>4, <2>6, <2>7
<1>10. ASSUME NEW p \in Progs
      PROVE  /\ DOMAIN programs'[p] = DOMAIN added[p]
             /\ programs'[p].path = added[p].path /\ programs'[p].includes = added[p].includes
             /\ programs'[p].scope = added[p].scope
             /\ programs'[p].defs = IF p = Top.prog THEN Append(added[p].defs, d) ELSE added[p].defs
  <2>1. DOMAIN added[p] = {"path", "side", "includes", "scope", "defs"}
    BY <1>9 DEF ShapeInv, IsProgram
  <2>2. CASE p = Top.prog
    <3>1. programs'[p] = [added[p] EXCEPT !.defs = Append(@, d)]
      BY <1>5, <1>7, <2>2
    <3> QED BY <2>1, <2>2, <3>1
  <2>3. CASE p # Top.prog
    BY <1>5, <1>7, <2>3
  <2> QED BY <2>2, <2>3
<1>11. ASSUME NEW p \in Progs
       PROVE  /\ programs'[p].path = programs[p].path /\ DOMAIN programs'[p] = DOMAIN programs[p]
              /\ programs'[p].includes = programs[p].includes
              /\ DOMAIN programs'[p].scope = Kinds
              /\ p # Top.prog => programs'[p].defs = programs[p].defs
              /\ \A k \in Kinds :
                   programs'[p].scope[k] =
                     IF k # kind THEN programs[p].scope[k]
                     ELSE IF p = Top.prog THEN WithCurrent(programs[p].scope[k], NULL)
                     ELSE IF p = Top.parent THEN WithCurrent(programs[p].scope[k], Prefix)
                     ELSE programs[p].scope[k]
  <2>1. PICK a, b : a = added[p] /\ b = programs'[p]
    OBVIOUS
  <2>2. /\ b.path = a.path /\ DOMAIN b = DOMAIN a /\ b.includes = a.includes
        /\ b.scope = a.scope /\ (p # Top.prog => b.defs = a.defs)
    BY <1>10, <2>1
  <2> QED BY <1>9, <2>1, <2>2
<1>12. programs'[Top.prog].defs = Append(programs[Top.prog].defs, d)
  <2>1. programs'[Top.prog].defs = Append(added[Top.prog].defs, d)
    BY <1>2, <1>10
  <2>2. added[Top.prog].defs = programs[Top.prog].defs
    BY <1>2, <1>9
  <2> QED BY <2>1, <2>2
<1>13. WithTop([Top EXCEPT !.next = @ + 1])
  BY DEF Defines, Defined
<1>14. [Top EXCEPT !.next = @ + 1] \in Frame
      /\ [Top EXCEPT !.next = @ + 1].prog = Top.prog /\ [Top EXCEPT !.next = @ + 1].parent = Top.parent
      /\ [Top EXCEPT !.next = @ + 1].next = Top.next + 1 /\ [Top EXCEPT !.next = @ + 1].pc = Top.pc
  BY <1>2, FrameNext
<1>15. /\ stack' \in Seq(Frame) /\ Len(stack') = Len(stack)
      /\ stack'[1] = [Top EXCEPT !.next = @ + 1]
      /\ \A k \in 2..Len(stack) : stack'[k] = stack[k]
  BY <1>1, <1>13, <1>14, WithTopFacts
<1>16. UNCHANGED <<side, program_to_scope, phase, generated_files, written, status>>
  BY DEF Defines, Defined
<1>17. stack'[1].prog = Top.prog /\ stack'[1].parent = Top.parent
       /\ stack'[1].next = Top.next + 1 /\ stack'[1].pc = "types"
  BY <1>1, <1>14, <1>15
<1> QED BY <1>1, <1>3, <1>8, <1>11, <1>12, <1>15, <1>16, <1>17

\* The steps, as most invariants see them: those that only end the compiler, and those
\* after parsing, are each of one kind.
Finished == At("parse", "types") /\ Top.next \notin DOMAIN Defs(Top.prog)
AuditGoesOn ==
  /\ Finished /\ Len(stack) = 1 /\ request.audit /\ side = "old"
  /\ side' = "new" /\ stack' = <<ParseFrame(1, NULL)>>
  /\ UNCHANGED <<programs, program_to_scope, phase, generated_files, written, status>>
Leaves ==
  /\ phase = "parse" => Finished /\ Len(stack) = 1 /\ side = "new"
  /\ phase' # "parse"
  /\ UNCHANGED <<side, programs, program_to_scope>>
Stays == UNCHANGED <<side, programs, program_to_scope, stack, phase, generated_files, written>>

LEMMA Steps ==
  ASSUME ShapeInv, [Next]_vars
  PROVE  \/ SkipRecursion \/ ScanIncludes \/ Recurse \/ SaveScope \/ Return
         \/ Defines("types") \/ Defines("consts") \/ AuditGoesOn \/ Leaves \/ Stays
<1>1. CASE UNCHANGED vars
  BY <1>1 DEF vars, Stays
<1>2. CASE Overflow
  BY <1>2 DEF Overflow, Stays
<1>3. CASE DefineType
  BY <1>3 DEF DefineType, Defines, Accepts, KindOf, Refused, Stays
<1>4. CASE DefineConst
  BY <1>4 DEF DefineConst, Defines, Accepts, KindOf, Refused, Stays
<1>5. CASE ReturnToAudit
  <2>1. CASE side = "old"
    BY <1>5, <2>1 DEF ReturnToAudit, AuditGoesOn, Finished
  <2>2. CASE side # "old"
    <3>1. side = "new"
      BY <2>2 DEF ShapeInv, Sides
    <3> QED BY <1>5, <2>2, <3>1 DEF ReturnToAudit, Leaves, Finished
  <2> QED BY <2>1, <2>2
<1>6. CASE ReturnToMain
  <2>1. side = "new"
    BY <1>6 DEF ReturnToMain, ShapeInv
  <2> QED BY <1>6, <2>1 DEF ReturnToMain, Leaves, Finished
<1>7. CASE SkipGenerated \/ Generate \/ GenerateInclude
  BY <1>7 DEF SkipGenerated, Generate, GenerateInclude, At, Leaves
<1>8. CASE GenerateProgram
  BY <1>8 DEF GenerateProgram, At, Leaves, Refused
<1> QED BY <1>1, <1>2, <1>3, <1>4, <1>5, <1>6, <1>7, <1>8 DEF Next

LEMMA RecurseFacts ==
  ASSUME ShapeInv, TreeInv, Recurse, NEW c, c = programs[Top.prog].includes[Top.next]
  PROVE  /\ UNCHANGED <<side, programs, program_to_scope, phase, generated_files, written, status>>
         /\ Top.next \in DOMAIN programs[Top.prog].includes /\ Top.pc = "includes" /\ stack # <<>>
         /\ phase = "parse" /\ c \in Progs
         /\ stack' \in Seq(Frame) /\ Len(stack') = Len(stack) + 1
         /\ stack'[1] = ParseFrame(c, Top.prog)
         /\ stack'[2].prog = Top.prog /\ stack'[2].parent = Top.parent
         /\ stack'[2].next = Top.next + 1 /\ stack'[2].pc = "includes"
         /\ \A k \in 3..Len(stack) + 1 : stack'[k] = stack[k - 1]
<1>1. stack # <<>> /\ stack \in Seq(Frame) /\ Top.pc = "includes" /\ phase = "parse"
      /\ Top.next \in DOMAIN programs[Top.prog].includes
      /\ UNCHANGED <<side, programs, program_to_scope, phase, generated_files, written, status>>
  BY DEF Recurse, At, ShapeInv
<1>2. Top \in Frame /\ Top.prog \in Progs /\ Progs = 1..Len(programs) /\ Len(programs) \in Nat
  BY <1>1, TopFacts
<1>3. c \in Progs
  BY <1>1, <1>2 DEF TreeInv
<1>4. ParseFrame(c, Top.prog) \in Frame
  BY <1>2, <1>3 DEF ParseFrame, Frame
<1>5. PICK g : g = [Top EXCEPT !.next = @ + 1]
  OBVIOUS
<1>6. g \in Frame /\ g.prog = Top.prog /\ g.parent = Top.parent /\ g.next = Top.next + 1
      /\ g.pc = "includes"
  BY <1>1, <1>2, <1>5, FrameNext
<1>7. stack' = <<ParseFrame(c, Top.prog), g>> \o Tail(stack)
  BY <1>5 DEF Recurse
<1>8. /\ stack' \in Seq(Frame) /\ Len(stack') = Len(stack) + 1
      /\ stack'[1] = ParseFrame(c, Top.prog) /\ stack'[2] = g
      /\ \A k \in 3..Len(stack) + 1 : stack'[k] = stack[k - 1]
  BY <1>1, <1>4, <1>6, <1>7, PushFacts
<1> QED BY <1>1, <1>3, <1>6, <1>8

LEMMA ReturnFacts ==
  ASSUME ShapeInv, Return
  PROVE  /\ UNCHANGED <<side, programs, program_to_scope, phase, generated_files, written, status>>
         /\ Finished /\ Top.pc = "types" /\ stack # <<>> /\ phase = "parse" /\ Len(stack) > 1
         /\ stack' \in Seq(Frame) /\ Len(stack') = Len(stack) - 1
         /\ \A k \in 1..Len(stack) - 1 : stack'[k] = stack[k + 1]
<1>1. stack # <<>> /\ stack \in Seq(Frame) /\ Top.pc = "types" /\ phase = "parse" /\ Len(stack) > 1
      /\ UNCHANGED <<side, programs, program_to_scope, phase, generated_files, written, status>>
      /\ stack' = Tail(stack) /\ Finished
  BY DEF Return, At, ShapeInv, Finished
<1> QED BY <1>1, PopFacts

(****************************************************************************)
(* ShapeInv                                                                  *)
(****************************************************************************)
StackShape == stack \in Seq(Frame) /\ \A k \in DOMAIN stack : stack[k].prog \in Progs
ProgramsShape ==
  /\ IsSequence(programs) /\ (\A p \in Progs : IsProgram(programs[p]))
  /\ Roots \in Progs /\ Path(1) = project.root["new"]
  /\ request.audit => Path(2) = project.root["old"]
  /\ \A f \in Known : DOMAIN program_to_scope[f] = Kinds

LEMMA ProgramsShapeNext ==
  ASSUME ShapeInv, [Next]_vars
  PROVE  ProgramsShape' /\ Progs \subseteq Progs'
<1>0. UNCHANGED <<project, request>> /\ Roots' = Roots
  BY Rigid
<1>00. ProgramsShape
  BY DEF ShapeInv, ProgramsShape
<1>1. CASE SkipRecursion
  <2>1. ASSUME NEW p \in Progs PROVE IsProgram(programs'[p])
    <3>1. IsProgram(programs[p])
      BY DEF ShapeInv
    <3>2. DOMAIN program_to_scope[Path(Top.prog)] = Kinds
      BY <1>1, SkipFacts DEF ShapeInv
    <3> QED BY <1>1, <3>1, <3>2, SkipFacts DEF IsProgram
  <2>2. Path(1)' = Path(1) /\ (request.audit => Path(2)' = Path(2))
    BY <1>1, SkipFacts, TopFacts DEF Path, ShapeInv, Roots
  <2> QED BY <1>0, <1>00, <1>1, <2>1, <2>2, SkipFacts DEF ProgramsShape, Known
<1>2. CASE ScanIncludes
  <2>1. stack # <<>> /\ IsSequence(programs') /\ program_to_scope' = program_to_scope
        /\ Progs \subseteq Progs'
    BY <1>2, ScanFacts
  <2>2. Top.prog \in Progs /\ Progs = 1..Len(programs) /\ Len(programs) \in Nat
    BY <2>1, TopFacts
  <2>3. ASSUME NEW p \in Progs PROVE IsProgram(programs'[p]) /\ programs'[p].path = programs[p].path
    <3>1. IsProgram(programs[p])
      BY DEF ShapeInv
    <3>2. CASE p # Top.prog
      BY <1>2, <3>1, <3>2, ScanFacts
    <3>3. CASE p = Top.prog
      BY <1>2, <3>1, <3>3, ScanFacts DEF IsProgram
    <3> QED BY <3>2, <3>3
  <2>4. ASSUME NEW i \in DOMAIN Found PROVE IsProgram(programs'[Made(i)])
    <3>1. <<>> = [j \in 1..0 |-> <<>>[j]]
      OBVIOUS
    <3>2. IsSequence(<<>>)
      BY <3>1, FunctionIsSequence
    <3>3. Found[i] \in Files
      BY <1>2, ScanFacts, ElementOfSeq
    <3>4. \A f \in Files : \A s : IsProgram(NewProgram(f, s))
      BY <3>2 DEF IsProgram, NewProgram, EmptyScope, Kinds
    <3>5. programs'[Made(i)] = NewProgram(Found[i], side)
      BY <1>2, ScanFacts
    <3> QED BY <3>3, <3>4, <3>5
  <2>5. \A p \in Progs' : p \in Progs \/ \E i \in DOMAIN Found : p = Made(i)
    BY <1>2, ScanFacts
  <2>6. \A p \in Progs' : IsProgram(programs'[p])
    BY <2>3, <2>4, <2>5
  <2>7. Path(1)' = Path(1) /\ (request.audit => Path(2)' = Path(2))
    <3>1. 1 \in Progs /\ (request.audit => 2 \in Progs)
      BY <2>2 DEF ShapeInv, Roots
    <3> QED BY <2>3, <3>1 DEF Path
  <2> QED BY <1>0, <1>00, <2>1, <2>6, <2>7 DEF ProgramsShape, Known
<1>3. CASE SaveScope
  <2>1. Known' = Known \cup {Path(Top.prog)} /\ UNCHANGED programs /\ stack # <<>>
        /\ program_to_scope'[Path(Top.prog)] = programs[Top.prog].scope
        /\ \A f \in Known : f # Path(Top.prog) => program_to_scope'[f] = program_to_scope[f]
    BY <1>3, SaveFacts
  <2>2. DOMAIN programs[Top.prog].scope = Kinds
    BY <2>1, TopFacts DEF ShapeInv, IsProgram
  <2>3. \A f \in Known' : DOMAIN program_to_scope'[f] = Kinds
    BY <1>00, <2>1, <2>2 DEF ProgramsShape
  <2>4. Progs' = Progs
    BY <2>1 DEF Progs
  <2> QED BY <1>0, <1>00, <2>1, <2>3, <2>4 DEF ProgramsShape, Path
<1>4. ASSUME NEW kind \in Kinds, Defines(kind) PROVE ProgramsShape' /\ Progs \subseteq Progs'
  <2>1. /\ IsSequence(programs') /\ Progs' = Progs /\ stack # <<>> /\ UNCHANGED program_to_scope
        /\ \A p \in Progs :
              /\ programs'[p].path = programs[p].path /\ DOMAIN programs'[p] = DOMAIN programs[p]
              /\ programs'[p].includes = programs[p].includes
              /\ DOMAIN programs'[p].scope = Kinds
              /\ p # Top.prog => programs'[p].defs = programs[p].defs
    BY <1>4, DefineFacts
  <2>2. PICK d : programs'[Top.prog].defs = Append(programs[Top.prog].defs, d)
    BY <1>4, DefineFacts
  <2>3. IsSequence(programs'[Top.prog].defs)
    BY <2>1, <2>2, AppendIsSequence, TopFacts DEF ShapeInv, IsProgram
  <2>4. \A p \in Progs : IsProgram(programs'[p])
    BY <2>1, <2>3 DEF ShapeInv, IsProgram
  <2>5. Path(1)' = Path(1) /\ (request.audit => Path(2)' = Path(2))
    BY <2>1, TopFacts DEF Path, ShapeInv, Roots
  <2> QED BY <1>0, <1>00, <2>1, <2>4, <2>5 DEF ProgramsShape, Known
<1>5. CASE UNCHANGED <<programs, program_to_scope>>
  BY <1>0, <1>00, <1>5 DEF ProgramsShape, Progs, Known, Path
<1> QED BY <1>1, <1>2, <1>3, <1>4, <1>5, Steps DEF Kinds, Recurse, Return, AuditGoesOn, Leaves, Stays

\* The file of a program does not change.
LEMMA PathFacts ==
  ASSUME ShapeInv, [Next]_vars
  PROVE  Progs \subseteq Progs' /\ \A p \in Progs : programs'[p].path = programs[p].path
<1>1. CASE SkipRecursion
  BY <1>1, SkipFacts
<1>2. CASE ScanIncludes
  BY <1>2, ScanFacts
<1>3. ASSUME NEW kind \in Kinds, Defines(kind)
      PROVE  Progs \subseteq Progs' /\ \A p \in Progs : programs'[p].path = programs[p].path
  BY <1>3, DefineFacts
<1>4. CASE UNCHANGED programs
  BY <1>4 DEF Progs
<1> QED BY <1>1, <1>2, <1>3, <1>4, Steps DEF Kinds, Recurse, SaveScope, Return, AuditGoesOn, Leaves, Stays

LEMMA StackShapeNext ==
  ASSUME ShapeInv, TreeInv, [Next]_vars
  PROVE  StackShape'
<1>1. StackShape /\ 1 \in Progs /\ 1 \in Nat
  BY DEF StackShape, ShapeInv, Roots, Progs, IsSequence
<1>2. Progs \subseteq Progs'
  BY PathFacts
<1>3. ASSUME stack # <<>>, stack' \in Seq(Frame), Len(stack') = Len(stack), stack'[1].prog = Top.prog,
             \A k \in 2..Len(stack) : stack'[k] = stack[k]
      PROVE  StackShape'
  <2>1. DOMAIN stack' = 1..Len(stack) /\ DOMAIN stack = 1..Len(stack) /\ Top.prog \in Progs
        /\ Len(stack) \in Nat
    BY <1>3, TopFacts, LenProperties
  <2>2. ASSUME NEW k \in DOMAIN stack' PROVE stack'[k].prog \in Progs
    <3>1. k \in DOMAIN stack /\ (k = 1 \/ k \in 2..Len(stack))
      BY <2>1
    <3> QED BY <1>1, <1>3, <2>1, <3>1 DEF StackShape
  <2> QED BY <1>2, <1>3, <2>2 DEF StackShape
<1>4. ASSUME NEW f \in Frame, f.prog \in Progs, stack' = <<f>>
      PROVE  StackShape'
  <2>1. \A k \in DOMAIN stack' : k = 1 /\ stack'[k] = f
    BY <1>4
  <2> QED BY <1>2, <1>4, <2>1 DEF StackShape
<1>5. ASSUME stack # <<>>, stack' = Tail(stack)
      PROVE  StackShape'
  <2>1. /\ stack' \in Seq(Frame) /\ Len(stack') = Len(stack) - 1
        /\ \A k \in 1..Len(stack) - 1 : stack'[k] = stack[k + 1]
    BY <1>1, <1>5, PopFacts DEF StackShape
  <2>2. DOMAIN stack' = 1..Len(stack) - 1 /\ DOMAIN stack = 1..Len(stack) /\ Len(stack) \in Nat
    BY <1>5, <2>1, TopFacts, LenProperties
  <2>3. \A k \in DOMAIN stack' : k + 1 \in DOMAIN stack
    BY <2>2
  <2> QED BY <1>1, <1>2, <2>1, <2>2, <2>3 DEF StackShape
<1>6. ASSUME stack # <<>>, NEW c \in Progs, NEW f \in Frame, f.prog = c,
             stack' = <<f, [Top EXCEPT !.next = @ + 1]>> \o Tail(stack)
      PROVE  StackShape'
  <2>1. PICK g : g = [Top EXCEPT !.next = @ + 1]
    OBVIOUS
  <2>2. g \in Frame /\ g.prog = Top.prog /\ Top.prog \in Progs
    BY <1>6, <2>1, TopFacts, FrameNext
  <2>3. /\ stack' \in Seq(Frame) /\ Len(stack') = Len(stack) + 1
        /\ stack'[1] = f /\ stack'[2] = g
        /\ \A k \in 3..Len(stack) + 1 : stack'[k] = stack[k - 1]
    BY <1>1, <1>6, <2>1, <2>2, PushFacts DEF StackShape
  <2>4. DOMAIN stack' = 1..Len(stack) + 1 /\ DOMAIN stack = 1..Len(stack) /\ Len(stack) \in Nat
    BY <1>6, <2>3, TopFacts, LenProperties
  <2>5. ASSUME NEW k \in DOMAIN stack' PROVE stack'[k].prog \in Progs
    <3>1. k = 1 \/ k = 2 \/ (k \in 3..Len(stack) + 1 /\ k - 1 \in DOMAIN stack)
      BY <2>4
    <3> QED BY <1>1, <1>6, <2>2, <2>3, <3>1 DEF StackShape
  <2> QED BY <1>2, <2>3, <2>5 DEF StackShape
<1>7. CASE UNCHANGED stack
  BY <1>1, <1>2, <1>7 DEF StackShape
<1>8. CASE SkipRecursion
  BY <1>3, <1>8, SkipFacts
<1>9. CASE ScanIncludes
  BY <1>3, <1>9, ScanFacts
<1>10. CASE SaveScope
  BY <1>3, <1>10, SaveFacts
<1>11. ASSUME NEW kind \in Kinds, Defines(kind) PROVE StackShape'
  BY <1>3, <1>11, DefineFacts
<1>12. ASSUME NEW p \in Progs PROVE ParseFrame(p, NULL) \in Frame /\ ParseFrame(p, NULL).prog = p
  BY DEF ParseFrame, Frame, Progs, ShapeInv, IsSequence
<1>13. CASE Recurse
  <2>1. stack # <<>> /\ Top.next \in DOMAIN programs[Top.prog].includes
    BY <1>13 DEF Recurse, At
  <2>2. PICK c : c = programs[Top.prog].includes[Top.next]
    OBVIOUS
  <2>3. c \in Progs /\ Top.prog \in Nat
    BY <2>1, <2>2, TopFacts DEF TreeInv, Frame
  <2>4. ParseFrame(c, Top.prog) \in Frame /\ ParseFrame(c, Top.prog).prog = c
    BY <2>3 DEF ParseFrame, Frame, ShapeInv, Progs, IsSequence
  <2> QED BY <1>6, <1>13, <2>1, <2>2, <2>3, <2>4 DEF Recurse
<1>14. CASE Return
  BY <1>5, <1>14 DEF Return, At
<1>15. CASE ReturnToAudit \/ ReturnToMain
  <2>1. CASE stack' = <<ParseFrame(1, NULL)>>
    <3>1. PICK f : f = ParseFrame(1, NULL)
      OBVIOUS
    <3> QED BY <1>1, <1>4, <1>12, <2>1, <3>1
  <2>2. CASE stack' = <<>>
    BY <2>2 DEF StackShape
  <2> QED BY <1>15, <2>1, <2>2 DEF ReturnToAudit, ReturnToMain, GenerateFrame
<1>16. CASE SkipGenerated
  BY <1>5, <1>16 DEF SkipGenerated, At, Popped
<1>17. ASSUME stack # <<>>, NEW pc \in {"includes", "write"}, WithTop([Top EXCEPT !.pc = pc])
       PROVE  StackShape'
  <2>1. PICK f : f = [Top EXCEPT !.pc = pc]
    OBVIOUS
  <2>2. f \in Frame /\ f.prog = Top.prog
    <3>1. pc \in {"begin", "includes", "types", "write"} /\ Top \in Frame
      BY <1>17, TopFacts
    <3> QED BY <2>1, <3>1, FrameAt
  <2>3. WithTop(f)
    BY <1>17, <2>1
  <2> QED BY <1>1, <1>3, <1>17, <2>2, <2>3, WithTopFacts DEF StackShape
<1>18. CASE Generate
  BY <1>17, <1>18 DEF Generate, At
<1>19. CASE GenerateInclude
  <2>1. stack # <<>>
    BY <1>19 DEF GenerateInclude, At
  <2>2. PICK c : c = programs[Top.prog].includes[Top.next]
    OBVIOUS
  <2>3. CASE Top.next \in DOMAIN programs[Top.prog].includes
    <3>1. c \in Progs
      BY <2>1, <2>2, <2>3, TopFacts DEF TreeInv
    <3>2. PICK f : f = GenerateFrame(c)
      OBVIOUS
    <3>3. f \in Frame /\ f.prog = c
      BY <1>12, <3>1, <3>2 DEF GenerateFrame
    <3> QED BY <1>6, <1>19, <2>1, <2>2, <2>3, <3>1, <3>2, <3>3 DEF GenerateInclude
  <2>4. CASE Top.next \notin DOMAIN programs[Top.prog].includes
    BY <1>17, <1>19, <2>1, <2>4 DEF GenerateInclude
  <2> QED BY <2>3, <2>4
<1>20. CASE GenerateProgram
  <2>1. CASE Refused
    BY <1>7, <2>1 DEF Refused
  <2>2. CASE Popped
    BY <1>5, <1>20, <2>2 DEF GenerateProgram, At, Popped
  <2> QED BY <1>20, <2>1, <2>2 DEF GenerateProgram
<1>21. CASE UNCHANGED vars
  BY <1>7, <1>21 DEF vars
<1>22. CASE Overflow
  BY <1>7, <1>22 DEF Overflow
<1>23. CASE DefineType \/ DefineConst
  <2>1. CASE Refused
    BY <1>7, <2>1 DEF Refused
  <2>2. \/ Defines("types") \/ Defines("consts") \/ Refused
    BY <1>23 DEF DefineType, DefineConst, Defines, Accepts, KindOf
  <2> QED BY <1>11, <2>1, <2>2 DEF Kinds
<1> QED BY <1>8, <1>9, <1>10, <1>13, <1>14, <1>15, <1>16, <1>18, <1>19, <1>20, <1>21, <1>22, <1>23 DEF Next

LEMMA ShapeNext ==
  ASSUME ShapeInv, TreeInv, [Next]_vars
  PROVE  ShapeInv'
<1>1. ProgramsShape' /\ StackShape'
  BY ProgramsShapeNext, StackShapeNext
<1>2. UNCHANGED <<project, request>>
  BY SMTT(40), Rigid
<1>3. side' \in Sides /\ (~ request.audit => side' = "new")
      /\ phase' \in {"parse", "generate", "compare"}
      /\ status' \in {"running", "failure", "overflow", "done"}
  <2>1. side \in Sides /\ (~ request.audit => side = "new") /\ phase \in {"parse", "generate", "compare"}
        /\ status \in {"running", "failure", "overflow", "done"} /\ "new" \in Sides
    BY DEF ShapeInv, Sides
  <2> HIDE DEF Sides
  <2>2. CASE UNCHANGED <<side, phase, status>>
    BY <2>1, <2>2
  <2>3. CASE UNCHANGED <<side, phase>> /\ status' \in {"failure", "overflow", "done"}
    BY <2>1, <2>3
  <2>4. CASE ReturnToAudit \/ ReturnToMain
    BY <2>1, <2>4 DEF ReturnToAudit, ReturnToMain, End
  <2> QED BY Zenon, <2>2, <2>3, <2>4 DEF Next, vars, SkipRecursion, ScanIncludes, Recurse, Overflow,
         SaveScope, DefineType, DefineConst, Defined, Refused, Return, SkipGenerated, Popped, End,
         Generate, GenerateInclude, GenerateProgram
<1> QED BY <1>1, <1>2, <1>3 DEF ShapeInv, ProgramsShape, StackShape

(****************************************************************************)
(* What is reached.                                                          *)
(****************************************************************************)
IncludesFiles(includes) == \A f \in Files : Range(includes[f]) \subseteq Files

LEMMA ReachLeast ==
  ASSUME NEW includes, NEW S, NEW T \in SUBSET Files, S \subseteq T, IsClosed(includes, T)
  PROVE  Reach(includes, S) \subseteq T
BY DEF Reach

LEMMA ReachFacts ==
  ASSUME NEW includes, IncludesFiles(includes), NEW S \in SUBSET Files
  PROVE  /\ S \subseteq Reach(includes, S) /\ Reach(includes, S) \subseteq Files
         /\ IsClosed(includes, Reach(includes, S))
<1>1. S \subseteq Reach(includes, S) /\ Reach(includes, S) \subseteq Files
  BY DEF Reach
<1>2. ASSUME NEW f \in Reach(includes, S), NEW g \in Range(includes[f]) PROVE g \in Reach(includes, S)
  <2>1. g \in Files
    BY <1>1 DEF IncludesFiles
  <2>2. ASSUME NEW T \in SUBSET Files, S \subseteq T, IsClosed(includes, T) PROVE g \in T
    <3>1. f \in T
      BY <2>2, ReachLeast
    <3> QED BY <2>2, <3>1 DEF IsClosed
  <2> QED BY <2>1, <2>2 DEF Reach
<1> QED BY <1>1, <1>2 DEF IsClosed

LEMMA SeenFacts ==
  ASSUME ShapeInv
  PROVE  /\ IncludesFiles(Seen) /\ IncludesFiles(project.includes["old"])
         /\ \A f \in Files : IncludedBy(f) \in SUBSET Files
         /\ \A f \in Files : \A i \in DOMAIN Seen[f] : Seen[f][i] \in IncludedBy(f)
<1>1. \A s \in Sides, f \in Files : project.includes[s][f] \in Seq(Files)
  BY IncludesAssumption DEF ShapeInv, IsProject
<1>2. \A f \in Files : Seen[f] \in Seq(Files) /\ project.includes["old"][f] \in Seq(Files)
  BY <1>1, ProjectFacts DEF Sides
<1>3. ASSUME NEW s \in Seq(Files) PROVE Range(s) \subseteq Files /\ \A i \in DOMAIN s : s[i] \in Range(s)
  BY LenProperties, ElementOfSeq DEF Range
<1> QED BY <1>2, <1>3 DEF IncludesFiles, IncludedBy

\* The side that parse is on is the one whose include directives count.
LEMMA OldFilesClosed ==
  ASSUME ShapeInv
  PROVE  /\ OldFiles \in SUBSET Files /\ IsClosed(project.includes["old"], OldFiles)
         /\ project.root["old"] \in OldFiles
BY ReachFacts, SeenFacts, ProjectFacts DEF OldFiles

LEMMA ScanReadsSeen ==
  ASSUME ShapeInv, KnownInv, ChainInv, phase = "parse", stack # <<>>, Path(Top.prog) \notin Known
  PROVE  Found = Seen[Path(Top.prog)]
<1>1. PICK f : f = Path(Top.prog)
  OBVIOUS
<1>2. f \in Files /\ 1 \in DOMAIN stack
  BY <1>1, TopFacts
<1>3. Found = project.includes[side][f]
  BY <1>1 DEF Found
<1>4. Seen[f] = project.includes[IF f \in (IF request.audit THEN OldFiles ELSE {}) THEN "old" ELSE "new"][f]
  BY <1>2 DEF Seen
<1>5. CASE ~ request.audit
  BY <1>1, <1>3, <1>4, <1>5 DEF ShapeInv
<1>6. \A g \in OldFiles : request.audit => Seen[g] = project.includes["old"][g]
  BY OldFilesClosed DEF Seen
<1>7. CASE request.audit /\ side = "old"
  <2>1. IsClosed(Seen, OldFiles)
    BY <1>6, <1>7, OldFilesClosed DEF IsClosed
  <2>2. Reached("old") \subseteq OldFiles
    BY <2>1, OldFilesClosed, ReachLeast DEF Reached
  <2>3. f \in Reached("old")
    BY <1>1, <1>2, <1>7 DEF ChainInv, Top
  <2> QED BY <1>1, <1>3, <1>6, <1>7, <2>2, <2>3
<1>8. CASE request.audit /\ side = "new"
  <2>1. PICK T : T = Known \cap OldFiles
    OBVIOUS
  <2>2. T \in SUBSET Files /\ project.root["old"] \in T
    BY <1>8, <2>1, OldFilesClosed DEF KnownInv
  <2>3. IsClosed(project.includes["old"], T)
    <3>1. ASSUME NEW g \in T PROVE Range(project.includes["old"][g]) \subseteq T
      <4>1. Range(project.includes["old"][g]) \subseteq OldFiles
        BY <2>1, OldFilesClosed DEF IsClosed
      <4>2. Range(project.includes["old"][g]) \subseteq Known
        BY <1>6, <1>8, <2>1 DEF KnownInv, IsClosed
      <4> QED BY <2>1, <4>1, <4>2
    <3> QED BY <3>1 DEF IsClosed
  <2>4. OldFiles \subseteq Known
    <3>1. {project.root["old"]} \subseteq T
      BY <2>2
    <3>2. Reach(project.includes["old"], {project.root["old"]}) \subseteq T
      BY <2>2, <2>3, <3>1, ReachLeast
    <3> QED BY <2>1, <3>2 DEF OldFiles
  <2>5. f \notin OldFiles
    BY <1>1, <2>4
  <2> QED BY <1>1, <1>3, <1>4, <1>8, <2>5
<1> QED BY <1>5, <1>7, <1>8 DEF ShapeInv, Sides

(****************************************************************************)
(* TreeInv and StackInv                                                      *)
(****************************************************************************)
LEMMA NewProgramFacts ==
  ASSUME NEW f, NEW s
  PROVE  /\ NewProgram(f, s).path = f /\ NewProgram(f, s).side = s
         /\ NewProgram(f, s).includes = <<>> /\ NewProgram(f, s).defs = <<>>
         /\ \A kind \in Kinds : NewProgram(f, s).scope[kind] = <<>>
BY DEF NewProgram, EmptyScope, Kinds

\* One include directive of one program.
IsChild(p, i, c) ==
  /\ c \in Progs /\ c > p /\ c > Roots
  /\ DOMAIN programs[p].includes = DOMAIN Seen[programs[p].path]
  /\ programs[c].path = Seen[programs[p].path][i]
IsTree ==
  /\ \A p \in Progs : \A i \in DOMAIN programs[p].includes : IsChild(p, i, programs[p].includes[i])
  /\ \A p \in Progs, q \in Progs :
       \A i \in DOMAIN programs[p].includes, j \in DOMAIN programs[q].includes :
         programs[p].includes[i] = programs[q].includes[j] => p = q /\ i = j

LEMMA TreeIsTree == TreeInv <=> IsTree
BY DEF TreeInv, IsTree, IsChild, Scanned, Path

LEMMA TreeNext ==
  ASSUME ShapeInv, TreeInv, KnownInv, ChainInv, [Next]_vars
  PROVE  TreeInv'
<1>1. Seen' = Seen /\ Roots' = Roots /\ Progs \subseteq Progs' /\ Roots \in Progs
  BY Rigid, PathFacts DEF ShapeInv
<1>2. \A p \in Progs : programs'[p].path = programs[p].path
  BY PathFacts
<1>0. IsTree
  BY TreeIsTree
<1>3. ASSUME Progs' = Progs, \A p \in Progs : programs'[p].includes = programs[p].includes
      PROVE  TreeInv'
  <2>1. ASSUME NEW p \in Progs, NEW i \in DOMAIN programs'[p].includes
        PROVE  IsChild(p, i, programs[p].includes[i])'
    <3>1. PICK c : c = programs[p].includes[i] /\ i \in DOMAIN programs[p].includes
      BY <1>3, <2>1
    <3>2. IsChild(p, i, c)
      BY <1>0, <2>1, <3>1 DEF IsTree
    <3>3. IsChild(p, i, c)'
      BY <1>1, <1>2, <1>3, <2>1, <3>2 DEF IsChild
    <3> QED BY <1>3, <2>1, <3>1, <3>3
  <2>2. IsTree'
    BY <1>0, <1>3, <2>1 DEF IsTree
  <2> QED BY <2>2, TreeIsTree, PTL
<1>4. CASE ScanIncludes
  <2>1. Found = Seen[Path(Top.prog)] /\ Top.prog \in Progs /\ stack # <<>>
    BY <1>4, ScanReadsSeen, ScanFacts, TopFacts
  <2>2. PICK P : P = Top.prog /\ P \in Progs
    BY <2>1
  <2>3. /\ \A p \in Progs' : p \in Progs \/ \E i \in DOMAIN Found : p = Made(i)
        /\ \A p \in Progs : p # P => programs'[p] = programs[p]
        /\ DOMAIN programs'[P].includes = DOMAIN Found
        /\ \A i \in DOMAIN Found :
             /\ programs'[P].includes[i] = Made(i)
             /\ Made(i) \in Progs' /\ Made(i) \notin Progs /\ Made(i) # P
             /\ \A p \in Progs : Made(i) > p
             /\ programs'[Made(i)] = NewProgram(Found[i], side)
             /\ \A j \in DOMAIN Found : Made(i) = Made(j) => i = j
    BY <1>4, <2>2, ScanFacts
  <2>4. \A i \in DOMAIN Found : programs'[Made(i)].path = Found[i] /\ programs'[Made(i)].includes = <<>>
    BY <2>3, NewProgramFacts
  <2>5. \A p \in Progs' : (p \in Progs /\ p # P) \/ p = P \/ programs'[p].includes = <<>>
    BY <2>3, <2>4
  <2>6. ASSUME NEW p \in Progs', NEW i \in DOMAIN programs'[p].includes
        PROVE  IsChild(p, i, programs[p].includes[i])'
    <3>1. CASE p = P
      <4>1. i \in DOMAIN Found /\ programs'[P].includes[i] = Made(i)
        BY <2>3, <2>6, <3>1
      <4>2. programs'[p].path = Path(P) /\ programs'[Made(i)].path = Found[i]
        BY <1>2, <2>2, <2>4, <3>1, <4>1 DEF Path
      <4>3. PICK c : c = Made(i)
        OBVIOUS
      <4>4. c \in Progs' /\ c > p /\ c > Roots
        BY <1>1, <2>2, <2>3, <3>1, <4>1, <4>3
      <4>5. IsChild(p, i, c)'
        BY <1>1, <2>1, <2>2, <2>3, <3>1, <4>1, <4>2, <4>3, <4>4 DEF IsChild
      <4> QED BY <3>1, <4>1, <4>3, <4>5
    <3>2. CASE p # P
      <4>1. p \in Progs /\ programs'[p] = programs[p]
        BY <2>3, <2>5, <2>6, <3>2
      <4>2. PICK c : c = programs[p].includes[i] /\ i \in DOMAIN programs[p].includes
        BY <2>6, <4>1
      <4>3. IsChild(p, i, c)
        BY <1>0, <4>1, <4>2 DEF IsTree
      <4>4. IsChild(p, i, c)'
        BY <1>1, <1>2, <4>1, <4>3 DEF IsChild
      <4> QED BY <4>1, <4>2, <4>4
    <3> QED BY <3>1, <3>2
  <2>7. ASSUME NEW p \in Progs', NEW q \in Progs',
               NEW i \in DOMAIN programs'[p].includes, NEW j \in DOMAIN programs'[q].includes,
               programs'[p].includes[i] = programs'[q].includes[j]
        PROVE  p = q /\ i = j
    <3>1. CASE p = P /\ q = P
      BY <2>3, <2>7, <3>1
    <3>2. ASSUME NEW r \in Progs', NEW k \in DOMAIN programs'[r].includes, r # P
          PROVE  r \in Progs /\ k \in DOMAIN programs[r].includes
                 /\ programs'[r].includes[k] = programs[r].includes[k]
                 /\ programs'[r].includes[k] \in Progs
      <4>1. r \in Progs /\ programs'[r] = programs[r]
        BY <2>3, <2>5, <3>2
      <4> QED BY <3>2, <4>1 DEF TreeInv
    <3>3. CASE p = P /\ q # P
      BY <2>3, <2>7, <3>2, <3>3
    <3>4. CASE p # P /\ q = P
      BY <2>3, <2>7, <3>2, <3>4
    <3>5. CASE p # P /\ q # P
      BY <2>7, <3>2, <3>5 DEF TreeInv
    <3> QED BY <3>1, <3>3, <3>4, <3>5
  <2>8. IsTree'
    BY <2>6, <2>7 DEF IsTree
  <2> QED BY <2>8, TreeIsTree, PTL
<1>5. CASE SkipRecursion
  BY <1>3, <1>5, SkipFacts
<1>6. ASSUME NEW kind \in Kinds, Defines(kind) PROVE TreeInv'
  BY <1>3, <1>6, DefineFacts
<1>7. CASE UNCHANGED programs
  BY <1>3, <1>7 DEF Progs
<1> QED BY <1>4, <1>5, <1>6, <1>7, Steps DEF Kinds, Recurse, SaveScope, Return, AuditGoesOn, Leaves, Stays

\* A call of parse is of the include that the call below it has just gone past.
IsCall(k) ==
  /\ stack[k].pc \in {"begin", "includes", "types"}
  /\ stack[k].parent = Parent(k)
  /\ k > 1 => /\ stack[k].pc = "includes"
              /\ stack[k].next - 1 \in DOMAIN programs[stack[k].prog].includes
              /\ stack[k - 1].prog = programs[stack[k].prog].includes[stack[k].next - 1]
  /\ \A j \in DOMAIN stack : j < k => stack[j].prog > stack[k].prog

LEMMA StackNext ==
  ASSUME ShapeInv, TreeInv, StackInv, [Next]_vars
  PROVE  StackInv'
<1>1. CASE phase' # "parse"
  BY <1>1 DEF StackInv
<1>2. ASSUME phase = "parse" /\ phase' = "parse"
      PROVE  /\ stack # <<>> /\ stack[Len(stack)].prog = RootProg /\ Len(stack) \in Nat \ {0}
             /\ DOMAIN stack = 1..Len(stack)
             /\ \A k \in 1..Len(stack) : IsCall(k)
  BY <1>2, TopFacts DEF StackInv, IsCall
<1>3. ASSUME phase' = "parse", stack' # <<>>, Len(stack') \in Nat \ {0}, DOMAIN stack' = 1..Len(stack'),
             stack'[Len(stack')].prog = RootProg', \A k \in 1..Len(stack') : IsCall(k)'
      PROVE  StackInv'
  BY <1>3 DEF StackInv, IsCall
<1>4. ASSUME NEW s, s \in Seq(Frame)
      PROVE  /\ Len(s) \in Nat /\ DOMAIN s = 1..Len(s)
             /\ Len(s) # 0 => s # <<>>
  BY <1>4, LenProperties
<1>5. ASSUME phase = "parse", stack # <<>>, UNCHANGED <<phase, side>>,
             stack' \in Seq(Frame), Len(stack') = Len(stack),
             stack'[1].prog = Top.prog, stack'[1].parent = Top.parent,
             stack'[1].pc \in {"begin", "includes", "types"},
             \A k \in 2..Len(stack) : stack'[k] = stack[k],
             \A p \in Progs : p # Top.prog => programs'[p].includes = programs[p].includes
      PROVE  StackInv'
  <2>1. PICK n : n = Len(stack) /\ n \in Nat \ {0}
    BY <1>2, <1>5
  <2>2. stack[n].prog = RootProg /\ \A k \in 1..n : IsCall(k)
    BY <1>2, <1>5, <2>1
  <2>3. DOMAIN stack' = 1..n /\ DOMAIN stack = 1..n /\ stack' # <<>> /\ Len(stack') = n
    BY <1>2, <1>4, <1>5, <2>1
  <2>4. stack'[n].prog = RootProg'
    BY <1>5, <2>1, <2>2 DEF RootProg, Top
  <2>5. \A k \in 1..n : stack'[k].prog = stack[k].prog /\ stack'[k].parent = stack[k].parent
    <3>1. \A k \in 1..n : k = 1 \/ k \in 2..n
      BY <2>1
    <3> QED BY <1>5, <2>1, <3>1 DEF Top
  <2>6. ASSUME NEW k \in 1..n PROVE IsCall(k)'
    <3>1. Parent(k)' = Parent(k)
      BY <2>1, <2>3, <2>5 DEF Parent
    <3>2. stack'[k].pc \in {"begin", "includes", "types"}
      <4>1. CASE k = 1
        BY <1>5, <4>1
      <4>2. CASE k # 1
        <5>1. k \in 2..n
          BY <2>1, <4>2
        <5> QED BY <1>5, <2>1, <2>2, <5>1 DEF IsCall
      <4> QED BY <4>1, <4>2
    <3>3. ASSUME k > 1
          PROVE  /\ stack'[k].pc = "includes"
                 /\ stack'[k].next - 1 \in DOMAIN programs'[stack'[k].prog].includes
                 /\ stack'[k - 1].prog = programs'[stack'[k].prog].includes[stack'[k].next - 1]
      <4>1. stack'[k] = stack[k] /\ stack'[k - 1].prog = stack[k - 1].prog
        BY <1>5, <2>1, <2>5, <3>3
      <4>2. stack[k].prog # Top.prog /\ stack[k].prog \in Progs
        <5>1. Top.prog > stack[k].prog /\ Top.prog \in Nat
          BY <2>2, <2>3, <3>3, TopFacts DEF IsCall, Top, Frame
        <5> QED BY <2>3, <5>1 DEF ShapeInv
      <4> QED BY <1>5, <2>2, <3>3, <4>1, <4>2 DEF IsCall
    <3> QED BY <2>2, <2>3, <2>5, <3>1, <3>2, <3>3 DEF IsCall
  <2> QED BY <1>3, <1>5, <2>1, <2>3, <2>4, <2>6
<1>6. CASE SkipRecursion
  <2>1. \A p \in Progs : p # Top.prog => programs'[p].includes = programs[p].includes
    BY <1>6, SkipFacts
  <2> QED BY <1>5, <1>6, <2>1, SkipFacts
<1>7. CASE ScanIncludes
  <2>1. \A p \in Progs : p # Top.prog => programs'[p].includes = programs[p].includes
    BY <1>7, ScanFacts
  <2> QED BY <1>5, <1>7, <2>1, ScanFacts
<1>8. CASE SaveScope
  <2>1. \A p \in Progs : p # Top.prog => programs'[p].includes = programs[p].includes
    BY <1>8, SaveFacts
  <2> QED BY <1>5, <1>8, <2>1, SaveFacts
<1>9. ASSUME NEW kind \in Kinds, Defines(kind) PROVE StackInv'
  <2>1. \A p \in Progs : p # Top.prog => programs'[p].includes = programs[p].includes
    BY <1>9, DefineFacts
  <2> QED BY <1>5, <1>9, <2>1, DefineFacts
<1>10. CASE Recurse
  <2>1. PICK c : c = programs[Top.prog].includes[Top.next]
    OBVIOUS
  <2>2. /\ UNCHANGED <<side, programs, phase>>
        /\ Top.next \in DOMAIN programs[Top.prog].includes /\ Top.pc = "includes" /\ stack # <<>>
        /\ phase = "parse" /\ c \in Progs
        /\ stack' \in Seq(Frame) /\ Len(stack') = Len(stack) + 1
        /\ stack'[1] = ParseFrame(c, Top.prog)
        /\ stack'[2].prog = Top.prog /\ stack'[2].parent = Top.parent
        /\ stack'[2].next = Top.next + 1 /\ stack'[2].pc = "includes"
        /\ \A k \in 3..Len(stack) + 1 : stack'[k] = stack[k - 1]
    BY <1>10, <2>1, RecurseFacts
  <2>3. PICK n : n = Len(stack) /\ n \in Nat \ {0}
    BY <1>2, <2>2
  <2>4. stack[n].prog = RootProg /\ \A k \in 1..n : IsCall(k)
    BY <1>2, <2>2, <2>3
  <2>5. DOMAIN stack' = 1..n + 1 /\ DOMAIN stack = 1..n /\ stack' # <<>> /\ Len(stack') = n + 1
    BY <1>2, <1>4, <2>2, <2>3
  <2>6. /\ stack'[1].prog = c /\ stack'[1].parent = Top.prog /\ stack'[1].pc = "begin"
    BY <2>2 DEF ParseFrame
  <2>7. \A k \in 2..n + 1 : /\ k - 1 \in 1..n
                            /\ stack'[k].prog = stack[k - 1].prog /\ stack'[k].parent = stack[k - 1].parent
                            /\ stack'[k].pc = stack[k - 1].pc
    <3>1. \A k \in 2..n + 1 : k - 1 \in 1..n /\ (k = 2 \/ k \in 3..n + 1)
      BY <2>3
    <3> QED BY <2>2, <2>3, <3>1 DEF Top
  <2>8. stack'[n + 1].prog = RootProg'
    <3>1. n + 1 \in 2..n + 1 /\ n + 1 - 1 = n
      BY <2>3
    <3>2. stack'[n + 1].prog = stack[n].prog
      <4>1. PICK k : k = n + 1
        OBVIOUS
      <4>2. k \in 2..n + 1 /\ k - 1 = n
        BY <2>3, <3>1, <4>1
      <4>3. stack'[k].prog = stack[k - 1].prog
        BY <2>7, <4>2
      <4> QED BY <4>1, <4>2, <4>3
    <3>3. RootProg' = RootProg
      BY <2>2 DEF RootProg
    <3> QED BY <2>4, <3>2, <3>3
  <2>9. c > Top.prog /\ c \in Nat
    BY <2>1, <2>2, TopFacts DEF TreeInv
  <2>10. ASSUME NEW k \in 2..n + 1 PROVE Top.prog >= stack'[k].prog /\ stack'[k].prog \in Nat
    <3>1. k = 2 \/ k - 1 > 1
      BY <2>3
    <3>2. k - 1 \in DOMAIN stack /\ 1 \in DOMAIN stack /\ IsCall(k - 1)
      BY <2>4, <2>5, <2>7, <2>3
    <3>3. stack[k - 1].prog \in Nat /\ Top.prog \in Nat
      BY <3>2, <2>2, TopFacts DEF ShapeInv, Progs, IsSequence
    <3>4. k - 1 > 1 => stack[1].prog > stack[k - 1].prog
      BY <3>2 DEF IsCall
    <3>5. stack'[k].prog = stack[k - 1].prog
      BY <2>7
    <3>6. k = 2 => stack'[k].prog = Top.prog
      BY <2>2
    <3> QED BY <3>1, <3>3, <3>4, <3>5, <3>6 DEF Top
  <2>11. ASSUME NEW k \in 1..n + 1 PROVE IsCall(k)'
    <3>1. CASE k = 1
      <4>1. Parent(k)' = Top.prog
        BY <2>2, <2>3, <2>5, <3>1 DEF Parent
      <4> QED BY <2>5, <2>6, <3>1, <4>1 DEF IsCall
    <3>2. CASE k # 1
      <4>1. k \in 2..n + 1 /\ k - 1 \in 1..n /\ IsCall(k - 1)
        BY <2>3, <2>4, <3>2
      <4>2. Parent(k)' = Parent(k - 1)
        <5>1. CASE k = n + 1
          BY <2>3, <2>5, <5>1 DEF Parent
        <5>2. CASE k # n + 1
          <6>1. k + 1 \in 3..n + 1 /\ k - 1 # n /\ k - 1 + 1 = k /\ k + 1 - 1 = k
            BY <2>3, <4>1, <5>2
          <6>2. stack'[k + 1] = stack[k]
            BY <2>2, <2>3, <6>1
          <6> QED BY <2>3, <2>5, <5>2, <6>1, <6>2 DEF Parent
        <5> QED BY <5>1, <5>2
      <4>3. /\ stack'[k].prog = stack[k - 1].prog /\ stack'[k].parent = stack[k - 1].parent
            /\ stack'[k].pc = stack[k - 1].pc
        BY <2>7, <4>1
      <4>4. /\ stack'[k].pc = "includes"
            /\ stack'[k].next - 1 \in DOMAIN programs'[stack'[k].prog].includes
            /\ stack'[k - 1].prog = programs'[stack'[k].prog].includes[stack'[k].next - 1]
        <5>1. CASE k = 2
          <6>1. stack'[k].next - 1 = Top.next
            <7>1. Top.next \in Nat
              BY <2>2, TopFacts DEF Frame
            <7> QED BY <2>2, <5>1, <7>1
          <6> QED BY <2>1, <2>2, <2>6, <5>1, <6>1
        <5>2. CASE k # 2
          <6>1. k \in 3..n + 1 /\ k - 1 \in 2..n + 1 /\ k - 1 > 1
            BY <2>3, <4>1, <5>2
          <6>2. stack'[k] = stack[k - 1] /\ stack'[k - 1].prog = stack[k - 1 - 1].prog
            BY <2>2, <2>3, <2>7, <6>1
          <6> QED BY <2>2, <4>1, <6>1, <6>2 DEF IsCall
        <5> QED BY <5>1, <5>2
      <4>5. ASSUME NEW j \in DOMAIN stack', j < k PROVE stack'[j].prog > stack'[k].prog
        <5>1. CASE j = 1
          <6>1. Top.prog \in Nat
            BY <2>2, TopFacts DEF Frame
          <6>2. Top.prog >= stack'[k].prog /\ stack'[k].prog \in Nat
            BY <2>10, <4>1
          <6> QED BY <2>6, <2>9, <5>1, <6>1, <6>2
        <5>2. CASE j # 1
          <6>1. j \in 2..n + 1 /\ j - 1 \in DOMAIN stack /\ j - 1 < k - 1
            BY <2>3, <2>5, <4>5, <5>2
          <6> QED BY <2>7, <4>1, <4>3, <6>1 DEF IsCall
        <5> QED BY <5>1, <5>2
      <4> QED BY <4>1, <4>2, <4>3, <4>4, <4>5 DEF IsCall
    <3> QED BY <3>1, <3>2
  <2> QED BY <1>3, <2>2, <2>3, <2>5, <2>8, <2>11
<1>11. CASE Return
  <2>1. /\ UNCHANGED <<side, programs, phase>> /\ phase = "parse" /\ stack # <<>> /\ Len(stack) > 1
        /\ stack' \in Seq(Frame) /\ Len(stack') = Len(stack) - 1
        /\ \A k \in 1..Len(stack) - 1 : stack'[k] = stack[k + 1]
    BY <1>11, ReturnFacts
  <2>2. PICK n : n = Len(stack) /\ n \in Nat \ {0, 1}
    BY <1>2, <2>1
  <2>3. stack[n].prog = RootProg /\ \A k \in 1..n : IsCall(k)
    BY <1>2, <2>1, <2>2
  <2>4. DOMAIN stack' = 1..n - 1 /\ DOMAIN stack = 1..n /\ stack' # <<>> /\ Len(stack') = n - 1
    <3>1. Len(stack') # 0
      BY <2>1, <2>2
    <3> QED BY <1>2, <1>4, <2>1, <2>2, <3>1
  <2>5. stack'[n - 1].prog = RootProg'
    <3>1. n - 1 \in 1..n - 1 /\ n - 1 + 1 = n
      BY <2>2
    <3> QED BY <2>1, <2>2, <2>3, <3>1 DEF RootProg
  <2>6. ASSUME NEW k \in 1..n - 1 PROVE IsCall(k)'
    <3>1. stack'[k] = stack[k + 1] /\ k + 1 \in 1..n /\ IsCall(k + 1) /\ k + 1 > 1
      BY <2>1, <2>2, <2>3
    <3>2. Parent(k)' = Parent(k + 1)
      <4>1. CASE k = n - 1
        BY <2>2, <2>4, <4>1 DEF Parent
      <4>2. CASE k # n - 1
        <5>1. k + 1 \in 1..n - 1 /\ k + 1 # n
          BY <2>2, <4>2
        <5> QED BY <2>1, <2>2, <2>4, <4>2, <5>1 DEF Parent
      <4> QED BY <4>1, <4>2
    <3>3. ASSUME k > 1 PROVE stack'[k - 1].prog = stack[k + 1 - 1].prog
      <4>1. k - 1 \in 1..n - 1 /\ k - 1 + 1 = k + 1 - 1
        BY <2>2, <3>3
      <4> QED BY <2>1, <2>2, <4>1
    <3>4. ASSUME NEW j \in DOMAIN stack', j < k PROVE stack'[j].prog > stack'[k].prog
      <4>1. j \in 1..n - 1 /\ j + 1 \in DOMAIN stack /\ j + 1 < k + 1
        BY <2>2, <2>4, <3>4
      <4> QED BY <2>1, <2>2, <3>1, <4>1 DEF IsCall
    <3> QED BY <2>1, <3>1, <3>2, <3>3, <3>4 DEF IsCall
  <2> QED BY <1>3, <2>1, <2>2, <2>4, <2>5, <2>6
<1>12. CASE AuditGoesOn
  <2>1. stack' = <<ParseFrame(1, NULL)>> /\ side' = "new" /\ phase' = phase
    BY <1>12 DEF AuditGoesOn
  <2>2. Len(stack') = 1 /\ DOMAIN stack' = {1} /\ stack' # <<>> /\ stack'[1] = ParseFrame(1, NULL)
    BY <2>1
  <2>3. stack'[1].prog = 1 /\ stack'[1].parent = NULL /\ stack'[1].pc = "begin"
    BY <2>2 DEF ParseFrame
  <2>4. IsCall(1)'
    BY <2>2, <2>3 DEF IsCall, Parent
  <2>5. stack'[Len(stack')].prog = RootProg'
    BY <2>1, <2>2, <2>3 DEF RootProg
  <2> QED BY <1>1, <1>3, <2>2, <2>4, <2>5
<1>13. CASE Stays
  BY <1>13 DEF Stays, StackInv, Parent, RootProg
<1> QED BY <1>1, <1>6, <1>7, <1>8, <1>9, <1>10, <1>11, <1>12, <1>13, Steps DEF Kinds, Leaves

(****************************************************************************)
(* How the calls on the stack correspond before and after a step of parse.   *)
(****************************************************************************)
Parsing == /\ phase = "parse" /\ phase' = phase /\ side' = side /\ stack # <<>>
           /\ Len(stack) \in Nat \ {0} /\ DOMAIN stack = 1..Len(stack) /\ 1 \in DOMAIN stack
           /\ \A k \in DOMAIN stack : stack[k] \in Frame /\ stack[k].prog \in Progs
SameCalls ==
  /\ Parsing
  /\ Len(stack') = Len(stack) /\ DOMAIN stack' = DOMAIN stack
  /\ \A k \in DOMAIN stack : stack'[k].prog = stack[k].prog /\ (k # 1 => stack'[k] = stack[k])
OneMoreCall(c) ==
  /\ Parsing
  /\ Len(stack') = Len(stack) + 1 /\ DOMAIN stack' = 1..Len(stack) + 1
  /\ stack'[1] = ParseFrame(c, Top.prog)
  /\ \A k \in DOMAIN stack' :
       k # 1 => /\ k - 1 \in DOMAIN stack
                /\ stack'[k].prog = stack[k - 1].prog /\ stack'[k].pc = stack[k - 1].pc
                /\ stack'[k].next = IF k = 2 THEN stack[k - 1].next + 1 ELSE stack[k - 1].next
OneCallLess ==
  /\ Parsing
  /\ Len(stack') = Len(stack) - 1 /\ Len(stack) > 1 /\ DOMAIN stack' = 1..Len(stack) - 1
  /\ \A k \in DOMAIN stack' : k + 1 \in DOMAIN stack /\ stack'[k] = stack[k + 1]

LEMMA ParsingFacts ==
  ASSUME ShapeInv, phase = "parse", phase' = phase, side' = side, stack # <<>>
  PROVE  Parsing
<1>1. \A k \in DOMAIN stack : stack[k] \in Frame
  BY ElementOfSeq, LenProperties DEF ShapeInv
<1> QED BY <1>1, TopFacts DEF Parsing, ShapeInv

LEMMA SameCallsFacts ==
  ASSUME ShapeInv, phase = "parse", phase' = phase, side' = side, stack # <<>>,
         stack' \in Seq(Frame), Len(stack') = Len(stack),
         stack'[1].prog = Top.prog, \A k \in 2..Len(stack) : stack'[k] = stack[k]
  PROVE  SameCalls
<1>1. Parsing
  BY ParsingFacts
<1>2. DOMAIN stack' = DOMAIN stack /\ DOMAIN stack = 1..Len(stack) /\ Len(stack) \in Nat
  BY <1>1, LenProperties DEF Parsing
<1>3. \A k \in DOMAIN stack : k # 1 => k \in 2..Len(stack)
  BY <1>2
<1>4. \A k \in DOMAIN stack : stack'[k].prog = stack[k].prog
  BY <1>3 DEF Top
<1> QED BY <1>1, <1>2, <1>3, <1>4 DEF SameCalls

LEMMA CallsFacts ==
  ASSUME ShapeInv, TreeInv
  PROVE  /\ SkipRecursion \/ ScanIncludes \/ SaveScope \/ Defines("types") \/ Defines("consts") => SameCalls
         /\ Recurse => OneMoreCall(programs[Top.prog].includes[Top.next])
         /\ Return => OneCallLess
<1>1. ASSUME NEW kind \in Kinds, Defines(kind) PROVE SameCalls
  BY <1>1, DefineFacts, SameCallsFacts
<1>2. SkipRecursion => SameCalls
  BY SkipFacts, SameCallsFacts
<1>3. ScanIncludes => SameCalls
  BY ScanFacts, SameCallsFacts
<1>4. SaveScope => SameCalls
  BY SaveFacts, SameCallsFacts
<1>5. ASSUME Recurse PROVE OneMoreCall(programs[Top.prog].includes[Top.next])
  <2>1. PICK c : c = programs[Top.prog].includes[Top.next]
    OBVIOUS
  <2>2. /\ UNCHANGED <<side, phase>> /\ stack # <<>> /\ Top.pc = "includes"
        /\ phase = "parse"
        /\ stack' \in Seq(Frame) /\ Len(stack') = Len(stack) + 1
        /\ stack'[1] = ParseFrame(c, Top.prog)
        /\ stack'[2].prog = Top.prog /\ stack'[2].next = Top.next + 1 /\ stack'[2].pc = "includes"
        /\ \A k \in 3..Len(stack) + 1 : stack'[k] = stack[k - 1]
    BY <1>5, <2>1, RecurseFacts
  <2>3. Parsing
    BY <2>2, ParsingFacts
  <2>4. DOMAIN stack' = 1..Len(stack) + 1 /\ DOMAIN stack = 1..Len(stack) /\ Len(stack) \in Nat
    BY <2>2, <2>3, LenProperties DEF Parsing
  <2>5. ASSUME NEW k \in DOMAIN stack', k # 1
        PROVE  /\ k - 1 \in DOMAIN stack
               /\ stack'[k].prog = stack[k - 1].prog /\ stack'[k].pc = stack[k - 1].pc
               /\ stack'[k].next = IF k = 2 THEN stack[k - 1].next + 1 ELSE stack[k - 1].next
    <3>1. k - 1 \in DOMAIN stack /\ (k = 2 \/ k \in 3..Len(stack) + 1)
      BY <2>3, <2>4, <2>5 DEF Parsing
    <3>2. CASE k = 2
      <4>1. k - 1 = 1
        BY <3>2
      <4> QED BY <2>2, <3>1, <3>2, <4>1 DEF Top
    <3>3. CASE k \in 3..Len(stack) + 1
      <4>1. k # 2
        BY <2>4, <3>3
      <4> QED BY <2>2, <3>1, <3>3, <4>1
    <3> QED BY <3>1, <3>2, <3>3
  <2> QED BY <2>1, <2>2, <2>3, <2>4, <2>5 DEF OneMoreCall
<1>6. ASSUME Return PROVE OneCallLess
  <2>1. /\ UNCHANGED <<side, phase>> /\ phase = "parse" /\ stack # <<>> /\ Len(stack) > 1
        /\ stack' \in Seq(Frame) /\ Len(stack') = Len(stack) - 1
        /\ \A k \in 1..Len(stack) - 1 : stack'[k] = stack[k + 1]
    BY <1>6, ReturnFacts
  <2>2. Parsing
    BY <2>1, ParsingFacts
  <2>3. DOMAIN stack' = 1..Len(stack) - 1 /\ DOMAIN stack = 1..Len(stack) /\ Len(stack) \in Nat
    BY <2>1, <2>2, LenProperties DEF Parsing
  <2>4. \A k \in DOMAIN stack' : k + 1 \in DOMAIN stack
    BY <2>3
  <2> QED BY <2>1, <2>2, <2>3, <2>4 DEF OneCallLess
<1> QED BY <1>1, <1>2, <1>3, <1>4, <1>5, <1>6 DEF Kinds

(****************************************************************************)
(* Which programs are on the stack, and which are still to be called for.    *)
(****************************************************************************)
LEMMA CalledAreNotToCall ==
  ASSUME ShapeInv, TreeInv, StackInv, phase = "parse", NEW j \in DOMAIN stack, NEW k \in DOMAIN stack
  PROVE  stack[j].prog \notin ToCall(k)
<1>1. DOMAIN stack = 1..Len(stack) /\ Len(stack) \in Nat
  BY LenProperties DEF ShapeInv
<1>2. \A i \in DOMAIN stack : /\ stack[i].prog \in Progs /\ stack[i].prog \in Nat
                              /\ stack[i].next \in Nat
                              /\ \A h \in DOMAIN stack : h < i => stack[h].prog > stack[i].prog
  <2>1. \A i \in DOMAIN stack : stack[i] \in Frame
    BY <1>1, ElementOfSeq DEF ShapeInv
  <2> QED BY <2>1 DEF Frame, ShapeInv, StackInv
<1>3. SUFFICES ASSUME NEW i \in DOMAIN programs[stack[k].prog].includes, i >= stack[k].next,
                      stack[j].prog = programs[stack[k].prog].includes[i]
               PROVE  FALSE
  BY DEF ToCall
<1>4. stack[j].prog > stack[k].prog
  BY <1>2, <1>3 DEF TreeInv
<1>5. j < k
  <2>1. ~ (k < j) /\ j # k
    BY <1>2, <1>4
  <2> QED BY <1>1, <2>1
<1>6. PICK h : h = j + 1
  OBVIOUS
<1>7. h \in DOMAIN stack /\ h > 1 /\ h - 1 = j /\ h <= k
  BY <1>1, <1>5, <1>6
<1>8. /\ stack[h].next - 1 \in DOMAIN programs[stack[h].prog].includes
      /\ stack[j].prog = programs[stack[h].prog].includes[stack[h].next - 1]
  BY <1>7 DEF StackInv
<1>9. stack[h].prog = stack[k].prog /\ stack[h].next - 1 = i
  <2>1. PICK a, b, n : a = stack[h].prog /\ b = stack[k].prog /\ n = stack[h].next - 1
    OBVIOUS
  <2>2. /\ a \in Progs /\ b \in Progs /\ n \in DOMAIN programs[a].includes
        /\ i \in DOMAIN programs[b].includes
        /\ programs[a].includes[n] = programs[b].includes[i]
    BY <1>2, <1>3, <1>7, <1>8, <2>1
  <2>3. a = b /\ n = i
    BY <2>2 DEF TreeInv
  <2> QED BY <2>1, <2>3
<1>10. h = k
  <2>1. ~ (h < k)
    BY <1>2, <1>7, <1>9
  <2> QED BY <1>1, <1>7, <2>1
<1> QED BY <1>2, <1>3, <1>9, <1>10, <1>7

\* Those to be called for are on the tree, and not among the roots.
LEMMA ToCallFacts ==
  ASSUME ShapeInv, TreeInv, NEW k \in DOMAIN stack, NEW p \in ToCall(k)
  PROVE  p \in Progs /\ p # 1 /\ p > Roots
<1>1. PICK i \in DOMAIN programs[stack[k].prog].includes : p = programs[stack[k].prog].includes[i]
  BY DEF ToCall
<1>2. p \in Progs /\ p > Roots
  BY <1>1 DEF TreeInv, ShapeInv
<1> QED BY <1>2 DEF Roots

\* In an audit's first parse the new program is not on the stack.
LEMMA NewFileIsNotCalled ==
  ASSUME ShapeInv, StackInv, phase = "parse", side = "old", NEW k \in DOMAIN stack
  PROVE  stack[k].prog # 1
<1>1. DOMAIN stack = 1..Len(stack) /\ Len(stack) \in Nat /\ stack[Len(stack)].prog = 2
  BY LenProperties DEF ShapeInv, StackInv, RootProg
<1>2. CASE k = Len(stack)
  BY <1>1, <1>2
<1>3. CASE k # Len(stack)
  <2>1. k < Len(stack) /\ Len(stack) \in DOMAIN stack
    BY <1>1, <1>3
  <2>2. stack[k].prog > 2
    BY <1>1, <2>1 DEF StackInv
  <2> QED BY <2>2
<1> QED BY <1>2, <1>3

\* The program that includes the one being parsed.
LEMMA ParentFacts ==
  ASSUME ShapeInv, StackInv, phase = "parse", stack # <<>>
  PROVE  /\ Top.parent = NULL <=> Len(stack) = 1
         /\ Len(stack) # 1 =>
              /\ 2 \in DOMAIN stack /\ Top.parent = stack[2].prog /\ stack[2].pc = "includes"
              /\ Top.parent \in Progs /\ Top.parent # Top.prog
              /\ stack[2].next - 1 \in DOMAIN programs[Top.parent].includes
              /\ Top.prog = programs[Top.parent].includes[stack[2].next - 1]
<1>1. DOMAIN stack = 1..Len(stack) /\ Len(stack) \in Nat \ {0} /\ 1 \in DOMAIN stack
  BY TopFacts
<1>2. Top.parent = Parent(1)
  BY <1>1 DEF StackInv, Top
<1>3. ASSUME Len(stack) # 1
      PROVE  /\ 2 \in DOMAIN stack /\ Top.parent = stack[2].prog /\ stack[2].pc = "includes"
             /\ Top.parent \in Progs /\ Top.parent # Top.prog
             /\ stack[2].next - 1 \in DOMAIN programs[Top.parent].includes
             /\ Top.prog = programs[Top.parent].includes[stack[2].next - 1]
  <2>1. 2 \in DOMAIN stack /\ Top.parent = stack[2].prog
    BY <1>1, <1>2, <1>3 DEF Parent
  <2>2. /\ stack[2].pc = "includes"
        /\ stack[2].next - 1 \in DOMAIN programs[stack[2].prog].includes
        /\ stack[2 - 1].prog = programs[stack[2].prog].includes[stack[2].next - 1]
        /\ stack[1].prog > stack[2].prog
    BY <1>1, <2>1 DEF StackInv
  <2>3. stack[2].prog \in Progs /\ stack[2].prog \in Nat
    BY <2>1 DEF ShapeInv, Progs, IsSequence
  <2> QED BY <2>1, <2>2, <2>3 DEF Top
<1>4. Len(stack) = 1 => Top.parent = NULL
  BY <1>2 DEF Parent
<1>5. Len(stack) # 1 => Top.parent # NULL
  BY <1>3, IncludesAssumption DEF Progs, ShapeInv, IsSequence
<1> QED BY <1>3, <1>4, <1>5

(****************************************************************************)
(* FreshInv                                                                  *)
(****************************************************************************)
Waits(k) ==
  stack[k].pc = "includes" =>
    /\ \A p \in ToCall(k) : Fresh(p)
    /\ programs[stack[k].prog].defs = <<>>
    /\ \A kind \in Kinds : \A q \in DOMAIN programs[stack[k].prog].scope[kind] : q[1] # NULL

LEMMA FreshNext ==
  ASSUME ShapeInv, TreeInv, StackInv, FreshInv, [Next]_vars
  PROVE  FreshInv'
<1>1. CASE phase' # "parse"
  BY <1>1 DEF FreshInv
<1>2. ASSUME phase = "parse"
      PROVE  /\ Top.pc = "begin" => Fresh(Top.prog) /\ Top.next = 1
             /\ side = "old" => Fresh(1)
             /\ \A k \in DOMAIN stack : Waits(k)
             /\ Top.pc = "types" => Len(programs[Top.prog].defs) = Top.next - 1
             /\ stack # <<>> /\ Top \in Frame /\ Top.prog \in Progs /\ 1 \in DOMAIN stack /\ 1 \in Progs
             /\ Len(stack) \in Nat \ {0} /\ DOMAIN stack = 1..Len(stack)
  BY <1>2, TopFacts DEF FreshInv, Waits, StackInv, ShapeInv, Roots
<1>3. ASSUME NEW p, Fresh(p),
             programs'[p].includes = programs[p].includes, programs'[p].defs = programs[p].defs,
             \A kind \in Kinds : DOMAIN programs'[p].scope[kind] = DOMAIN programs[p].scope[kind]
      PROVE  Fresh(p)'
  BY <1>3 DEF Fresh
\* Of the calls that are only on the stack, nothing changes but for the parent's scope.
<1>4. ASSUME SameCalls,
             \A p \in Progs : p # Top.prog =>
               /\ programs'[p].includes = programs[p].includes /\ programs'[p].defs = programs[p].defs
               /\ \A kind \in Kinds :
                    IF p = Top.parent
                    THEN \A q \in DOMAIN programs'[p].scope[kind] :
                           q \in DOMAIN programs[p].scope[kind] \/ q[1] # NULL
                    ELSE DOMAIN programs'[p].scope[kind] = DOMAIN programs[p].scope[kind]
      PROVE  /\ side' = "old" => Fresh(1)'
             /\ \A k \in DOMAIN stack' : k # 1 => Waits(k)'
  <2>1. phase = "parse" /\ phase' = "parse" /\ side' = side /\ DOMAIN stack' = DOMAIN stack
        /\ \A k \in DOMAIN stack : stack'[k].prog = stack[k].prog /\ (k # 1 => stack'[k] = stack[k])
    BY <1>4 DEF SameCalls, Parsing
  <2>2. Top.parent = NULL \/ \E j \in DOMAIN stack : Top.parent = stack[j].prog
    BY <1>2, <2>1, ParentFacts
  <2>3. Top.prog = stack[1].prog
    BY DEF Top
  <2>4. NULL \notin Progs
    BY IncludesAssumption DEF Progs, ShapeInv, IsSequence
  <2>5. ASSUME side = "old" PROVE Fresh(1)'
    <3>1. \A j \in DOMAIN stack : stack[j].prog # 1
      BY <2>1, <2>5, NewFileIsNotCalled
    <3>2. Top.prog # 1 /\ Top.parent # 1
      BY <1>2, <2>1, <2>2, <2>3, <2>4, <3>1
    <3>3. 1 \in Progs /\ Fresh(1)
      BY <1>2, <2>1, <2>5
    <3> QED BY <1>3, <1>4, <3>2, <3>3
  <2>6. ASSUME NEW k \in DOMAIN stack, k # 1 PROVE Waits(k)'
    <3>1. SUFFICES ASSUME stack[k].pc = "includes"
          PROVE /\ \A p \in ToCall(k)' : Fresh(p)'
                /\ programs'[stack[k].prog].defs = <<>>
                /\ \A kind \in Kinds : \A q \in DOMAIN programs'[stack[k].prog].scope[kind] : q[1] # NULL
      BY <2>1, <2>6 DEF Waits
    <3>2. stack[k].prog \in Progs /\ stack[k].prog # Top.prog
      <4>1. stack[1].prog > stack[k].prog
        BY <1>2, <2>1, <2>6 DEF StackInv
      <4>2. stack[k].prog \in Progs /\ stack[k].prog \in Nat
        BY DEF ShapeInv, Progs, IsSequence
      <4> QED BY <2>3, <4>1, <4>2
    <3>3. /\ programs'[stack[k].prog].includes = programs[stack[k].prog].includes
          /\ programs'[stack[k].prog].defs = programs[stack[k].prog].defs
          /\ \A kind \in Kinds : \A q \in DOMAIN programs'[stack[k].prog].scope[kind] :
               q \in DOMAIN programs[stack[k].prog].scope[kind] \/ q[1] # NULL
      BY <1>4, <3>2
    <3>4. Waits(k)
      BY <1>2, <2>1
    <3>5. ToCall(k)' = ToCall(k)
      BY <2>1, <2>6, <3>3 DEF ToCall
    <3>6. ASSUME NEW p \in ToCall(k) PROVE Fresh(p)'
      <4>1. p \in Progs /\ p # Top.prog /\ p # Top.parent
        BY <1>2, <2>1, <2>2, <2>3, <2>4, ToCallFacts, CalledAreNotToCall
      <4>2. Fresh(p)
        BY <3>1, <3>4 DEF Waits
      <4> QED BY <1>3, <1>4, <4>1, <4>2
    <3>7. stack[k].pc = "includes" => programs[stack[k].prog].defs = <<>>
             /\ \A kind \in Kinds : \A q \in DOMAIN programs[stack[k].prog].scope[kind] : q[1] # NULL
      BY <3>4 DEF Waits
    <3> QED BY <3>1, <3>3, <3>5, <3>6, <3>7
  <2> QED BY <2>1, <2>5, <2>6
<1>5. ASSUME phase' = "parse", side' = "old" => Fresh(1)', \A k \in DOMAIN stack' : Waits(k)',
             Top'.pc = "begin" => Top'.next = 1 /\ \A p : p = Top'.prog => Fresh(p)',
             Top'.pc = "types" => Len(programs'[Top'.prog].defs) = Top'.next - 1
      PROVE  FreshInv'
  <2>1. Top'.pc = "begin" => Fresh(Top.prog)' /\ Top'.next = 1
    BY <1>5
  <2> QED BY <1>5, <2>1 DEF FreshInv, Waits
<1>6. CASE SkipRecursion
  <2>1. SameCalls /\ Top'.pc = "types" /\ Top'.next = Top.next /\ Top'.prog = Top.prog
        /\ Top.pc = "begin" /\ phase = "parse" /\ phase' = "parse"
    BY <1>6, CallsFacts, SkipFacts DEF Top
  <2>2. \A p \in Progs : p # Top.prog => programs'[p] = programs[p]
    BY <1>6 DEF SkipRecursion, Progs
  <2>3. (side' = "old" => Fresh(1)') /\ \A k \in DOMAIN stack' : k # 1 => Waits(k)'
    BY <1>4, <2>1, <2>2
  <2>4. Waits(1)'
    BY <2>1 DEF Waits, Top
  <2>5. programs'[Top.prog].defs = <<>> /\ Top.next = 1
    BY <1>2, <1>6, <2>1, SkipFacts DEF Fresh
  <2> QED BY <1>5, <2>1, <2>3, <2>4, <2>5
<1>7. CASE ScanIncludes
  <2>1. SameCalls /\ Top'.pc = "includes" /\ Top'.next = Top.next /\ Top'.prog = Top.prog
        /\ Top.pc = "begin" /\ phase = "parse" /\ phase' = "parse"
    BY <1>7, CallsFacts, ScanFacts DEF Top
  <2>2. \A p \in Progs : p # Top.prog => programs'[p] = programs[p]
    BY <1>7, ScanFacts
  <2>3. (side' = "old" => Fresh(1)') /\ \A k \in DOMAIN stack' : k # 1 => Waits(k)'
    BY <1>4, <2>1, <2>2
  <2>4. Fresh(Top.prog)
    BY <1>2, <2>1
  <2>5. programs'[Top.prog].defs = <<>>
        /\ \A kind \in Kinds : \A q \in DOMAIN programs'[Top.prog].scope[kind] : q[1] # NULL
    BY <1>7, <2>4, ScanFacts DEF Fresh
  <2>6. ASSUME NEW i \in DOMAIN Found, NEW c, c = Made(i) PROVE Fresh(c)'
    <3>1. programs'[c] = NewProgram(Found[i], side)
      BY <1>7, <2>6, ScanFacts
    <3> QED BY <3>1, NewProgramFacts DEF Fresh
  <2>7. Waits(1)'
    <3>1. stack'[1].prog = Top.prog
      BY <2>1 DEF Top
    <3>2. ASSUME NEW p \in ToCall(1)' PROVE Fresh(p)'
      <4>1. PICK i \in DOMAIN programs'[Top.prog].includes : p = programs'[Top.prog].includes[i]
        BY <3>1, <3>2 DEF ToCall
      <4>2. i \in DOMAIN Found /\ p = Made(i)
        BY <1>7, <4>1, ScanFacts
      <4> QED BY <2>6, <4>2
    <3> QED BY <2>5, <3>1, <3>2 DEF Waits
  <2>8. Top'.pc # "begin" /\ Top'.pc # "types"
    BY <2>1
  <2>9. \A k \in DOMAIN stack' : Waits(k)'
    BY <2>3, <2>7
  <2> QED BY <1>5, <2>1, <2>3, <2>8, <2>9
<1>8. CASE SaveScope
  <2>1. SameCalls /\ Top'.pc = "types" /\ Top'.next = 1 /\ Top'.prog = Top.prog
        /\ Top.pc = "includes" /\ phase = "parse" /\ phase' = "parse" /\ programs' = programs
    BY <1>8, CallsFacts, SaveFacts DEF Top
  <2>2. (side' = "old" => Fresh(1)') /\ \A k \in DOMAIN stack' : k # 1 => Waits(k)'
    BY <1>4, <2>1
  <2>3. Waits(1)'
    BY <2>1 DEF Waits, Top
  <2>4. programs[Top.prog].defs = <<>>
    BY <1>2, <2>1 DEF Waits, Top
  <2>5. \A k \in DOMAIN stack' : Waits(k)'
    BY <2>2, <2>3
  <2> QED BY <1>5, <2>1, <2>2, <2>4, <2>5
<1>9. ASSUME NEW kind \in Kinds, Defines(kind) PROVE FreshInv'
  <2>1. SameCalls /\ Top'.pc = "types" /\ Top'.next = Top.next + 1 /\ Top'.prog = Top.prog
        /\ Top.pc = "types" /\ phase = "parse" /\ phase' = "parse"
    BY <1>9, CallsFacts, DefineFacts DEF Top, Kinds
  <2>2. ASSUME NEW p \in Progs, p # Top.prog
        PROVE  /\ programs'[p].includes = programs[p].includes /\ programs'[p].defs = programs[p].defs
               /\ \A k \in Kinds :
                    IF p = Top.parent
                    THEN \A q \in DOMAIN programs'[p].scope[k] :
                           q \in DOMAIN programs[p].scope[k] \/ q[1] # NULL
                    ELSE DOMAIN programs'[p].scope[k] = DOMAIN programs[p].scope[k]
    <3>1. programs'[p].includes = programs[p].includes /\ programs'[p].defs = programs[p].defs
      BY <1>9, <2>2, DefineFacts
    <3>0. \A k \in Kinds :
            programs'[p].scope[k] = IF k # kind THEN programs[p].scope[k]
                                    ELSE IF p = Top.prog THEN WithCurrent(programs[p].scope[k], NULL)
                                    ELSE IF p = Top.parent THEN WithCurrent(programs[p].scope[k], Prefix)
                                    ELSE programs[p].scope[k]
      BY ZenonT(40), <1>9, DefineFacts
    <3>2. ASSUME NEW k \in Kinds, p # Top.parent PROVE programs'[p].scope[k] = programs[p].scope[k]
      BY <2>2, <3>0, <3>2
    <3>3. ASSUME NEW k \in Kinds, p = Top.parent, NEW q \in DOMAIN programs'[p].scope[k]
          PROVE  q \in DOMAIN programs[p].scope[k] \/ q[1] # NULL
      <4>1. programs'[p].scope[k] = IF k # kind THEN programs[p].scope[k]
                                    ELSE WithCurrent(programs[p].scope[k], Prefix)
        BY <2>2, <3>0, <3>3
      <4>2. DOMAIN WithCurrent(programs[p].scope[k], Prefix) =
              DOMAIN programs[p].scope[k] \cup {<<Prefix, Current.name>>}
        BY DEF WithCurrent, With
      <4>3. Prefix # NULL
        BY <1>2, <2>1, TopFacts, ProjectFacts DEF Prefix
      <4> QED BY <3>3, <4>1, <4>2, <4>3
    <3> QED BY <3>1, <3>2, <3>3
  <2>3. (side' = "old" => Fresh(1)') /\ \A k \in DOMAIN stack' : k # 1 => Waits(k)'
    BY <1>4, <2>1, <2>2
  <2>4. \A k \in DOMAIN stack' : Waits(k)'
    <3>1. Waits(1)'
      BY <2>1 DEF Waits, Top
    <3> QED BY <2>3, <3>1
  <2>5. Len(programs'[Top.prog].defs) = Top.next /\ Top.next \in Nat
    <3>1. PICK d : programs'[Top.prog].defs = Append(programs[Top.prog].defs, d)
      BY <1>9, DefineFacts
    <3>2. IsSequence(programs[Top.prog].defs) /\ Len(programs[Top.prog].defs) = Top.next - 1 /\ Top.next \in Nat
      BY <1>2, <2>1 DEF ShapeInv, IsProgram, Frame
    <3>3. Len(programs'[Top.prog].defs) = Len(programs[Top.prog].defs) + 1
      BY <3>1, <3>2, AppendIsSequence
    <3> QED BY <3>2, <3>3
  <2>6. Top'.pc # "begin" /\ (Top'.pc = "types" => Len(programs'[Top'.prog].defs) = Top'.next - 1)
    BY <2>1, <2>5
  <2> QED BY <1>5, <2>1, <2>3, <2>4, <2>6
<1>10. CASE Recurse
  <2>1. PICK c : c = programs[Top.prog].includes[Top.next]
    OBVIOUS
  <2>2. OneMoreCall(c) /\ UNCHANGED <<programs, side, phase>> /\ phase = "parse"
        /\ Top.next \in DOMAIN programs[Top.prog].includes /\ Top.pc = "includes"
    BY <1>10, <2>1, CallsFacts, RecurseFacts
  <2>3. Top' = ParseFrame(c, Top.prog)
    BY <2>2 DEF OneMoreCall, Top
  <2>4. Top'.prog = c /\ Top'.next = 1 /\ Top'.pc = "begin"
    BY <2>3 DEF ParseFrame
  <2>5. c \in ToCall(1)
    <3>1. Top.next >= Top.next
      BY <1>2, <2>2 DEF Frame
    <3> QED BY <2>1, <2>2, <3>1 DEF ToCall, Top
  <2>6. Fresh(c)
    BY <1>2, <2>2, <2>5 DEF Waits, Top
  <2>7. ASSUME NEW k \in DOMAIN stack' PROVE Waits(k)'
    <3>1. CASE k = 1
      BY <2>4, <3>1 DEF Waits, Top
    <3>2. CASE k # 1
      <4>1. PICK h : h = k - 1
        OBVIOUS
      <4>2. /\ h \in DOMAIN stack /\ stack'[k].prog = stack[h].prog /\ stack'[k].pc = stack[h].pc
            /\ stack'[k].next = stack[h].next + 1 \/ stack'[k].next = stack[h].next
        BY <2>2, <2>7, <3>2, <4>1 DEF OneMoreCall
      <4>3. stack[h].next \in Nat
        BY <2>2, <4>2 DEF OneMoreCall, Parsing, Frame
      <4>4. DOMAIN programs[stack[h].prog].includes \subseteq Nat
        <5>1. IsSequence(programs[stack[h].prog].includes)
          BY <4>2 DEF ShapeInv, IsProgram
        <5> QED BY <5>1 DEF IsSequence
      <4>5. ToCall(k)' \subseteq ToCall(h)
        BY <2>2, <4>2, <4>3, <4>4 DEF ToCall
      <4>6. Waits(h)
        BY <1>2, <2>2, <4>2
      <4>7. \A p : Fresh(p)' <=> Fresh(p)
        BY <2>2 DEF Fresh
      <4> QED BY <2>2, <4>2, <4>5, <4>6, <4>7 DEF Waits
    <3> QED BY <3>1, <3>2
  <2>8. Fresh(c)' /\ (side' = "old" => Fresh(1)')
    BY <1>2, <2>2, <2>6 DEF Fresh
  <2>9. \A p : p = Top'.prog => Fresh(p)'
    BY <2>4, <2>8
  <2>10. Top'.pc # "types" /\ phase' = "parse"
    BY <2>2, <2>4
  <2> QED BY <1>5, <2>4, <2>7, <2>8, <2>9, <2>10
<1>11. CASE Return
  <2>1. OneCallLess /\ UNCHANGED <<programs, side, phase>> /\ phase = "parse" /\ Len(stack) > 1
    BY <1>11, CallsFacts, ReturnFacts
  <2>2. Top'.pc = "includes"
    <3>1. 1 \in DOMAIN stack' /\ 1 + 1 > 1 /\ 1 + 1 \in DOMAIN stack
      BY <1>2, <2>1 DEF OneCallLess
    <3> QED BY <2>1, <3>1 DEF OneCallLess, StackInv, Top
  <2>3. \A k \in DOMAIN stack' : Waits(k)'
    <3>1. ASSUME NEW k \in DOMAIN stack' PROVE Waits(k)'
      <4>1. PICK h : h = k + 1
        OBVIOUS
      <4>2. h \in DOMAIN stack /\ stack'[k] = stack[h]
        BY <2>1, <4>1 DEF OneCallLess
      <4>3. ToCall(k)' = ToCall(h)
        BY <2>1, <4>2 DEF ToCall
      <4>4. Waits(h)
        BY <1>2, <2>1, <4>2
      <4>5. \A p : Fresh(p)' <=> Fresh(p)
        BY <2>1 DEF Fresh
      <4> QED BY <2>1, <4>2, <4>3, <4>4, <4>5 DEF Waits
    <3> QED BY <3>1
  <2>4. side' = "old" => Fresh(1)'
    BY <1>2, <2>1 DEF Fresh
  <2> QED BY <1>5, <2>1, <2>2, <2>3, <2>4
<1>12. CASE AuditGoesOn
  <2>1. stack' = <<ParseFrame(1, NULL)>> /\ side' = "new" /\ phase' = "parse" /\ phase = "parse"
        /\ programs' = programs /\ side = "old"
    BY <1>12 DEF AuditGoesOn, Finished, At
  <2>2. DOMAIN stack' = {1} /\ stack'[1] = ParseFrame(1, NULL) /\ Top' = ParseFrame(1, NULL)
    BY <2>1 DEF Top
  <2>3. Top'.prog = 1 /\ Top'.pc = "begin" /\ Top'.next = 1 /\ stack'[1].pc = "begin"
    BY <2>2 DEF ParseFrame
  <2>4. Fresh(1)'
    BY <1>2, <2>1 DEF Fresh
  <2>5. \A k \in DOMAIN stack' : Waits(k)'
    BY <2>2, <2>3 DEF Waits
  <2>6. \A p : p = Top'.prog => Fresh(p)'
    BY <2>3, <2>4
  <2>7. Top'.pc # "types" /\ side' # "old"
    BY <2>1, <2>3
  <2> QED BY <1>5, <2>1, <2>3, <2>5, <2>6, <2>7
<1>13. CASE Stays
  <2>1. UNCHANGED <<phase, side, stack, programs>>
    BY <1>13 DEF Stays
  <2>2. (\A p : Fresh(p)' <=> Fresh(p)) /\ Top' = Top /\ \A k : ToCall(k)' = ToCall(k)
    BY <2>1 DEF Fresh, Top, ToCall
  <2> QED BY <2>1, <2>2 DEF FreshInv
<1> QED BY <1>1, <1>6, <1>7, <1>8, <1>9, <1>10, <1>11, <1>12, <1>13, Steps DEF Kinds, Leaves

(****************************************************************************)
(* KnownInv and ChainInv                                                     *)
(****************************************************************************)
Opened(k) ==
  /\ stack[k].pc = "includes" =>
       /\ DOMAIN programs[stack[k].prog].includes = DOMAIN Seen[programs[stack[k].prog].path]
       /\ programs[stack[k].prog].path \notin Known
       /\ \A i \in DOMAIN programs[stack[k].prog].includes :
            i < stack[k].next => \/ (k > 1 /\ i = stack[k].next - 1)
                                 \/ programs[programs[stack[k].prog].includes[i]].path \in Known
  /\ stack[k].pc = "types" => programs[stack[k].prog].path \in Known
IsKnown ==
  /\ Known \subseteq Files
  /\ IsClosed(Seen, Known)
  /\ \A f \in Known : f \notin Reach(Seen, IncludedBy(f))

AllOpened ==
  /\ IsKnown
  /\ phase # "parse" => project.root["new"] \in Known
  /\ request.audit /\ side = "new" => project.root["old"] \in Known
  /\ phase = "parse" => \A k \in DOMAIN stack : Opened(k)

LEMMA KnownIsOpened == KnownInv <=> AllOpened
BY DEF KnownInv, AllOpened, IsKnown, Opened, Scanned, Path

LEMMA KnownNext ==
  ASSUME ShapeInv, TreeInv, StackInv, FreshInv, KnownInv, ChainInv, [Next]_vars
  PROVE  KnownInv'
<1>1. UNCHANGED <<project, request>> /\ Seen' = Seen
  BY Rigid
<1>2. \A p \in Progs : programs'[p].path = programs[p].path
  BY PathFacts
<1>3. /\ IsKnown
      /\ phase # "parse" => project.root["new"] \in Known
      /\ request.audit /\ side = "new" => project.root["old"] \in Known
      /\ phase = "parse" => \A k \in DOMAIN stack : Opened(k)
  BY KnownIsOpened DEF AllOpened
<1>4. ASSUME IsKnown', phase' = "parse", side' = side, \A k \in DOMAIN stack' : Opened(k)'
      PROVE  KnownInv'
  <2>1. Known' = Known \/ Known \subseteq Known'
    <3>1. CASE SaveScope
      BY <3>1, SaveFacts
    <3>2. CASE UNCHANGED program_to_scope
      BY <3>2 DEF Known
    <3> QED BY <3>1, <3>2, Steps, SkipFacts, ScanFacts DEF Kinds, Defines, Defined, Recurse, Return,
              AuditGoesOn, Leaves, Stays
  <2>2. request.audit' /\ side' = "new" => project'.root["old"] \in Known'
    BY <1>1, <1>3, <1>4, <2>1
  <2>3. AllOpened'
    BY <1>4, <2>2 DEF AllOpened
  <2> QED BY <2>3, KnownIsOpened, PTL
<1>5. ASSUME UNCHANGED program_to_scope
      PROVE  IsKnown' /\ Known' = Known
  BY <1>1, <1>3, <1>5 DEF IsKnown, Known, IncludedBy, IsClosed, Reach
<1>6. ASSUME phase = "parse"
      PROVE  /\ stack # <<>> /\ Top \in Frame /\ Top.prog \in Progs /\ 1 \in DOMAIN stack
             /\ Len(stack) \in Nat \ {0} /\ DOMAIN stack = 1..Len(stack) /\ Path(Top.prog) \in Files
  BY <1>6, TopFacts DEF StackInv
\* The calls below the innermost stay as they are, when what they include does.
<1>7. ASSUME SameCalls, \A p \in Progs : p # Top.prog => programs'[p].includes = programs[p].includes,
             Known \subseteq Known',
             \A k \in DOMAIN stack : k # 1 /\ stack[k].pc = "includes" => programs[stack[k].prog].path \notin Known'
      PROVE  \A k \in DOMAIN stack' : k # 1 => Opened(k)'
  <2>1. phase = "parse" /\ DOMAIN stack' = DOMAIN stack
        /\ \A k \in DOMAIN stack : k # 1 => stack'[k] = stack[k]
    BY <1>7 DEF SameCalls, Parsing
  <2>2. ASSUME NEW k \in DOMAIN stack, k # 1 PROVE Opened(k)'
    <3>1. PICK p : p = stack[k].prog /\ p \in Progs
      BY DEF ShapeInv
    <3>2. p # Top.prog
      <4>1. stack[1].prog > p /\ p \in Nat
        BY <1>6, <2>1, <2>2, <3>1 DEF StackInv, Progs, ShapeInv, IsSequence
      <4> QED BY <4>1 DEF Top
    <3>3. programs'[p].includes = programs[p].includes /\ programs'[p].path = programs[p].path
      BY <1>2, <1>7, <3>1, <3>2
    <3>4. ASSUME NEW i \in DOMAIN programs[p].includes
          PROVE programs'[programs[p].includes[i]].path = programs[programs[p].includes[i]].path
      BY <1>2, <3>1 DEF TreeInv
    <3>5. Opened(k)
      BY <1>3, <2>1
    <3>6. stack'[k] = stack[k]
      BY <2>1, <2>2
    <3> QED BY <1>1, <1>7, <2>2, <3>1, <3>3, <3>4, <3>5, <3>6 DEF Opened
  <2> QED BY <2>1, <2>2
<1>8. ASSUME SameCalls, Known' = Known
      PROVE  \A k \in DOMAIN stack : k # 1 /\ stack[k].pc = "includes" => programs[stack[k].prog].path \notin Known'
  BY <1>3, <1>8 DEF Opened, SameCalls, Parsing
<1>9. CASE SkipRecursion
  <2>1. SameCalls /\ Top'.pc = "types" /\ Top'.prog = Top.prog /\ Path(Top.prog) \in Known
        /\ phase = "parse" /\ phase' = "parse" /\ side' = side /\ UNCHANGED program_to_scope
        /\ \A p \in Progs : programs'[p].includes = programs[p].includes
    BY <1>9, CallsFacts, SkipFacts DEF Top
  <2>2. \A k \in DOMAIN stack' : k # 1 => Opened(k)'
    BY <1>5, <1>7, <1>8, <2>1
  <2>3. Opened(1)'
    BY <1>2, <1>5, <1>6, <2>1 DEF Opened, Top, Path
  <2> QED BY <1>4, <1>5, <2>1, <2>2, <2>3
<1>10. CASE ScanIncludes
  <2>1. SameCalls /\ Top'.pc = "includes" /\ Top'.prog = Top.prog /\ Path(Top.prog) \notin Known
        /\ Top'.next = Top.next /\ Top.pc = "begin"
        /\ phase = "parse" /\ phase' = "parse" /\ side' = side /\ UNCHANGED program_to_scope
        /\ DOMAIN programs'[Top.prog].includes = DOMAIN Found
    BY <1>10, CallsFacts, ScanFacts DEF Top
  <2>2. \A p \in Progs : p # Top.prog => programs'[p].includes = programs[p].includes
    BY <1>10, ScanFacts
  <2>3. \A k \in DOMAIN stack' : k # 1 => Opened(k)'
    BY <1>5, <1>7, <1>8, <2>1, <2>2
  <2>4. Found = Seen[Path(Top.prog)] /\ Top.next = 1
    BY <1>6, <2>1, ScanReadsSeen DEF FreshInv
  <2>5. DOMAIN Found \subseteq Nat \ {0}
    BY <1>10, ScanFacts
  <2>6. Opened(1)'
    BY <1>1, <1>2, <1>5, <1>6, <2>1, <2>4, <2>5 DEF Opened, Top, Path
  <2> QED BY <1>4, <1>5, <2>1, <2>3, <2>6
<1>11. CASE SaveScope
  <2>1. SameCalls /\ Top'.pc = "types" /\ Top'.prog = Top.prog /\ Top.pc = "includes"
        /\ phase = "parse" /\ phase' = "parse" /\ side' = side /\ UNCHANGED programs
        /\ Top.next \notin DOMAIN programs[Top.prog].includes
        /\ Known' = Known \cup {Path(Top.prog)}
    BY <1>11, CallsFacts, SaveFacts DEF Top
  <2>2. PICK P, f : P = Top.prog /\ P \in Progs /\ f = Path(P) /\ f \in Files
    BY <1>6, <2>1
  <2>3. Opened(1) /\ stack[1].prog = P /\ stack[1].next = Top.next /\ stack[1].pc = "includes"
    BY <1>3, <1>6, <2>1, <2>2 DEF Top
  <2>4. DOMAIN programs[P].includes = DOMAIN Seen[f] /\ f \notin Known
        /\ \A i \in DOMAIN programs[P].includes :
             i < Top.next => programs[programs[P].includes[i]].path \in Known
    BY <2>2, <2>3 DEF Opened, Path
  <2>5. \A i \in DOMAIN programs[P].includes : i < Top.next
    <3>1. IsSequence(programs[P].includes) /\ Top.next \in Nat \ {0}
      BY <1>6, <2>1, <2>2 DEF ShapeInv, IsProgram, Frame
    <3> QED BY <2>1, <2>2, <3>1 DEF IsSequence
  <2>6. IncludedBy(f) \subseteq Known
    <3>1. \A i \in DOMAIN Seen[f] : Seen[f][i] \in Known
      BY <2>2, <2>4, <2>5 DEF TreeInv, Path
    <3> QED BY <3>1 DEF IncludedBy, Range
  <2>7. f \notin Reach(Seen, IncludedBy(f))
    <3>1. Known \in SUBSET Files /\ IsClosed(Seen, Known)
      BY <1>3 DEF IsKnown
    <3>2. Reach(Seen, IncludedBy(f)) \subseteq Known
      BY <2>6, <3>1, ReachLeast
    <3> QED BY <2>4, <3>2
  <2>8. \A g : Reach(Seen, IncludedBy(g))' = Reach(Seen, IncludedBy(g))
    BY <1>1 DEF Reach, IncludedBy, IsClosed
  <2>9. Known' = Known \cup {f}
    BY <2>1, <2>2
  <2>10. IsKnown'
    <3>1. Known' \subseteq Files
      BY <1>3, <2>2, <2>9 DEF IsKnown
    <3>2. IsClosed(Seen, Known)'
      BY <1>1, <1>3, <2>6, <2>9 DEF IsKnown, IsClosed, IncludedBy
    <3>3. \A g \in Known' : g \notin Reach(Seen, IncludedBy(g))'
      BY <1>3, <2>7, <2>8, <2>9 DEF IsKnown
    <3> QED BY <3>1, <3>2, <3>3 DEF IsKnown
  <2>11. ASSUME NEW k \in DOMAIN stack, k # 1, stack[k].pc = "includes"
         PROVE  programs[stack[k].prog].path \notin Known'
    <3>1. programs[stack[k].prog].path \notin Known
      BY <1>3, <2>1, <2>11 DEF Opened
    <3>2. Path(stack[1].prog) \in Reach(Seen, IncludedBy(Path(stack[k].prog)))
      BY <1>6, <2>1, <2>11 DEF ChainInv
    <3>3. Path(stack[k].prog) # f
      BY <2>2, <2>3, <2>7, <3>2
    <3> QED BY <2>9, <3>1, <3>3 DEF Path
  <2>12. \A k \in DOMAIN stack' : k # 1 => Opened(k)'
    <3>1. \A k \in DOMAIN stack : k # 1 /\ stack[k].pc = "includes" => programs[stack[k].prog].path \notin Known'
      BY <2>11
    <3>2. Known \subseteq Known' /\ \A p \in Progs : p # Top.prog => programs'[p].includes = programs[p].includes
      BY <2>1, <2>9
    <3> QED BY <1>7, <2>1, <3>1, <3>2
  <2>13. Opened(1)'
    BY <2>1, <2>2, <2>9 DEF Opened, Top, Path
  <2> QED BY <1>4, <2>1, <2>10, <2>12, <2>13
<1>12. ASSUME NEW kind \in Kinds, Defines(kind) PROVE KnownInv'
  <2>1. SameCalls /\ Top'.pc = "types" /\ Top'.prog = Top.prog /\ Top.pc = "types"
        /\ phase = "parse" /\ phase' = "parse" /\ side' = side /\ UNCHANGED program_to_scope
    BY <1>12, CallsFacts, DefineFacts DEF Top, Kinds
  <2>2. \A p \in Progs : programs'[p].includes = programs[p].includes
    BY <1>12, DefineFacts
  <2>3. \A k \in DOMAIN stack' : k # 1 => Opened(k)'
    BY <1>5, <1>7, <1>8, <2>1, <2>2
  <2>4. programs[Top.prog].path \in Known
    BY <1>3, <1>6, <2>1 DEF Opened, Top
  <2>5. Opened(1)'
    BY <1>2, <1>5, <1>6, <2>1, <2>4 DEF Opened, Top
  <2> QED BY <1>4, <1>5, <2>1, <2>3, <2>5
<1>13. CASE Recurse
  <2>1. PICK c : c = programs[Top.prog].includes[Top.next]
    OBVIOUS
  <2>2. OneMoreCall(c) /\ UNCHANGED <<programs, side, phase, program_to_scope>> /\ phase = "parse"
        /\ Top.next \in DOMAIN programs[Top.prog].includes /\ Top.pc = "includes"
    BY <1>13, <2>1, CallsFacts, RecurseFacts
  <2>3. ASSUME NEW k \in DOMAIN stack' PROVE Opened(k)'
    <3>1. CASE k = 1
      <4>1. stack'[k].pc = "begin"
        BY <2>2, <3>1 DEF OneMoreCall, ParseFrame
      <4> QED BY <4>1 DEF Opened
    <3>2. CASE k # 1
      <4>1. PICK h : h = k - 1
        OBVIOUS
      <4>2. /\ h \in DOMAIN stack /\ stack'[k].prog = stack[h].prog /\ stack'[k].pc = stack[h].pc
            /\ stack'[k].next = IF k = 2 THEN stack[h].next + 1 ELSE stack[h].next
        BY <2>2, <2>3, <3>2, <4>1 DEF OneMoreCall
      <4>3. stack[h].next \in Nat /\ k \in Nat /\ k > 1 /\ h \in Nat /\ (k = 2 <=> h = 1)
        BY <1>6, <2>2, <2>3, <3>2, <4>1, <4>2 DEF OneMoreCall, Parsing, Frame
      <4>4. DOMAIN programs[stack[h].prog].includes \subseteq Nat
        <5>1. IsSequence(programs[stack[h].prog].includes)
          BY <4>2 DEF ShapeInv, IsProgram
        <5> QED BY <5>1 DEF IsSequence
      <4>5. Opened(h)
        BY <1>3, <2>2, <4>2
      <4>6. Known' = Known
        BY <1>5, <2>2
      <4>7. ASSUME NEW i \in DOMAIN programs[stack[h].prog].includes, stack[h].pc = "includes",
                   i < stack'[k].next
            PROVE  \/ i = stack'[k].next - 1
                   \/ programs[programs[stack[h].prog].includes[i]].path \in Known
        <5>1. CASE k = 2
          <6>1. i = stack'[k].next - 1 \/ i < stack[h].next
            BY <4>2, <4>3, <4>4, <4>7, <5>1
          <6> QED BY <4>3, <4>5, <4>7, <5>1, <6>1 DEF Opened
        <5>2. CASE k # 2
          BY <4>2, <4>5, <4>7, <5>2 DEF Opened
        <5> QED BY <5>1, <5>2
      <4> QED BY <1>1, <2>2, <4>2, <4>3, <4>5, <4>6, <4>7 DEF Opened
    <3> QED BY <3>1, <3>2
  <2> QED BY <1>4, <1>5, <2>2, <2>3
<1>14. CASE Return
  <2>1. OneCallLess /\ UNCHANGED <<programs, side, phase, program_to_scope>> /\ phase = "parse"
        /\ Top.pc = "types"
    BY <1>14, CallsFacts, ReturnFacts
  <2>2. ASSUME NEW k \in DOMAIN stack' PROVE Opened(k)'
    <3>1. PICK h : h = k + 1
      OBVIOUS
    <3>2. h \in DOMAIN stack /\ stack'[k] = stack[h] /\ k \in Nat \ {0} /\ h > 1 /\ h - 1 = k
      BY <2>1, <2>2, <3>1 DEF OneCallLess
    <3>3. Opened(h) /\ Known' = Known
      BY <1>3, <1>5, <2>1, <3>2
    <3>4. stack[h].pc = "includes"
          /\ stack[h - 1].prog = programs[stack[h].prog].includes[stack[h].next - 1]
      BY <2>1, <3>2 DEF StackInv
    <3>5. k = 1 => programs[programs[stack[h].prog].includes[stack[h].next - 1]].path \in Known
      <4>1. programs[Top.prog].path \in Known
        BY <1>3, <1>6, <2>1 DEF Opened, Top
      <4> QED BY <3>2, <3>4, <4>1 DEF Top
    <3> QED BY <1>1, <2>1, <3>2, <3>3, <3>4, <3>5 DEF Opened
  <2> QED BY <1>4, <1>5, <2>1, <2>2
\* The innermost of one call is the root, and it is done.
<1>15. ASSUME phase = "parse", Finished, Len(stack) = 1
       PROVE  Path(RootProg) \in Known
  <2>1. Top.pc = "types" /\ Top.prog = RootProg
    BY <1>15 DEF Finished, At, StackInv, Top
  <2> QED BY <1>3, <1>6, <1>15, <2>1 DEF Opened, Top, Path
<1>16. CASE AuditGoesOn
  <2>1. stack' = <<ParseFrame(1, NULL)>> /\ phase' = "parse" /\ phase = "parse" /\ request.audit
        /\ side = "old" /\ UNCHANGED program_to_scope /\ Finished /\ Len(stack) = 1
    BY <1>16 DEF AuditGoesOn, Finished, At
  <2>2. Path(2) \in Known
    BY <1>15, <2>1 DEF RootProg
  <2>3. project.root["old"] \in Known
    BY <2>1, <2>2 DEF ShapeInv
  <2>4. \A k \in DOMAIN stack' : stack'[k].pc = "begin"
    BY <2>1 DEF ParseFrame
  <2>5. \A k \in DOMAIN stack' : Opened(k)'
    BY <2>4 DEF Opened
  <2>6. IsKnown' /\ project'.root["old"] \in Known'
    BY <1>1, <1>5, <2>1, <2>3
  <2>7. AllOpened'
    BY <2>1, <2>5, <2>6 DEF AllOpened
  <2> QED BY <2>7, KnownIsOpened, PTL
<1>17. CASE Leaves
  <2>1. IsKnown' /\ Known' = Known /\ phase' # "parse" /\ side' = side
    BY <1>5, <1>17 DEF Leaves
  <2>2. project.root["new"] \in Known
    <3>1. CASE phase = "parse"
      <4>1. Path(1) \in Known
        BY <1>15, <1>17, <3>1 DEF Leaves, RootProg
      <4> QED BY <4>1 DEF ShapeInv
    <3> QED BY <1>3, <3>1
  <2>3. project'.root["new"] \in Known' /\ (request'.audit /\ side' = "new" => project'.root["old"] \in Known')
    BY <1>1, <1>3, <2>1, <2>2
  <2>4. AllOpened'
    BY <2>1, <2>3 DEF AllOpened
  <2> QED BY <2>4, KnownIsOpened, PTL
<1>18. CASE Stays
  <2>1. UNCHANGED <<phase, side, stack, programs, program_to_scope>>
    BY <1>18 DEF Stays
  <2>2. IsKnown' /\ Known' = Known
    BY <1>5, <2>1
  <2>3. \A k : Opened(k)' <=> Opened(k)
    BY <1>1, <2>1, <2>2 DEF Opened
  <2>4. (phase' = "parse" => \A k \in DOMAIN stack' : Opened(k)')
        /\ (phase' # "parse" => project'.root["new"] \in Known')
        /\ (request'.audit /\ side' = "new" => project'.root["old"] \in Known')
    BY <1>1, <1>3, <2>1, <2>2, <2>3
  <2>5. AllOpened'
    BY <2>2, <2>4 DEF AllOpened
  <2> QED BY <2>5, KnownIsOpened, PTL
<1> QED BY <1>9, <1>10, <1>11, <1>12, <1>13, <1>14, <1>16, <1>17, <1>18, Steps DEF Kinds

LEMMA ChainNext ==
  ASSUME ShapeInv, TreeInv, StackInv, ChainInv, [Next]_vars
  PROVE  ChainInv'
<1>1. UNCHANGED <<project, request>> /\ Seen' = Seen
  BY Rigid
<1>2. \A p \in Progs : Path(p)' = Path(p)
  BY PathFacts DEF Path
<1>3. \A f : Reach(Seen, IncludedBy(f))' = Reach(Seen, IncludedBy(f))
  BY <1>1 DEF Reach, IncludedBy, IsClosed
<1>4. \A s : Reached(s)' = Reached(s)
  BY Rigid
<1>5. CASE phase' # "parse"
  BY <1>5 DEF ChainInv
<1>6. ASSUME phase = "parse"
      PROVE  /\ \A k \in DOMAIN stack : Path(stack[k].prog) \in Reached(side)
             /\ \A k, j \in DOMAIN stack : j < k => Path(stack[j].prog) \in Reach(Seen, IncludedBy(Path(stack[k].prog)))
             /\ \A k \in DOMAIN stack : stack[k].prog \in Progs
  BY <1>6 DEF ChainInv, ShapeInv
<1>12. ASSUME \A k \in DOMAIN stack' :
                /\ stack'[k].prog \in Progs /\ Path(stack'[k].prog) \in Reached(side')
                /\ \A j \in DOMAIN stack' : j < k =>
                     Path(stack'[j].prog) \in Reach(Seen, IncludedBy(Path(stack'[k].prog)))
       PROVE  ChainInv'
  <2>1. Reached(side)' = Reached(side')
    BY <1>1 DEF Reached, Reach, IsClosed
  <2>2. \A k \in DOMAIN stack' : programs'[stack'[k].prog].path = Path(stack'[k].prog)
    BY <1>12, PathFacts DEF Path
  <2> QED BY <1>3, <1>12, <2>1, <2>2 DEF ChainInv, Path
<1>7. CASE SameCalls
  <2>1. phase = "parse" /\ side' = side /\ DOMAIN stack' = DOMAIN stack
        /\ \A k \in DOMAIN stack : stack'[k].prog = stack[k].prog
    BY <1>7 DEF SameCalls, Parsing
  <2> QED BY <1>6, <1>12, <2>1
<1>8. CASE Recurse
  <2>1. PICK c : c = programs[Top.prog].includes[Top.next]
    OBVIOUS
  <2>2. OneMoreCall(c) /\ UNCHANGED <<programs, side, phase>> /\ phase = "parse"
        /\ Top.next \in DOMAIN programs[Top.prog].includes /\ c \in Progs
    BY <1>8, <2>1, CallsFacts, RecurseFacts
  <2>3. PICK P, f : P = Top.prog /\ P \in Progs /\ f = Path(P) /\ f \in Files /\ 1 \in DOMAIN stack /\ P = stack[1].prog
    BY <2>2, TopFacts DEF OneMoreCall, Parsing, Top
  <2>4. Path(c) \in IncludedBy(f) /\ Path(c) = Seen[f][Top.next]
    <3>1. Scanned(P) /\ Path(c) = Seen[f][Top.next] /\ Top.next \in DOMAIN programs[P].includes
      BY <2>1, <2>2, <2>3 DEF TreeInv
    <3>2. Top.next \in DOMAIN Seen[f]
      BY <2>3, <3>1 DEF Scanned
    <3> QED BY <2>3, <3>1, <3>2, SeenFacts
  <2>5. \A S \in SUBSET Files : f \in Reach(Seen, S) => Path(c) \in Reach(Seen, S)
    BY <2>4, SeenFacts, ReachFacts DEF IsClosed, IncludedBy
  <2>6. Path(c) \in Reach(Seen, IncludedBy(f))
    <3>1. IncludedBy(f) \in SUBSET Files
      BY <2>3, SeenFacts
    <3>2. IncludedBy(f) \subseteq Reach(Seen, IncludedBy(f))
      BY <3>1, SeenFacts, ReachFacts
    <3> QED BY <2>4, <3>2
  <2>7. Path(c) \in Reached(side)
    <3>1. f \in Reached(side)
      BY <1>6, <2>2, <2>3
    <3>2. {project.root[side]} \in SUBSET Files
      BY ProjectFacts DEF ShapeInv, Sides
    <3> QED BY <2>5, <3>1, <3>2 DEF Reached
  <2>8. ASSUME NEW k \in DOMAIN stack'
        PROVE  stack'[k].prog \in Progs /\ Path(stack'[k].prog) \in Reached(side)
    <3>1. CASE k = 1
      BY <2>2, <2>7, <3>1 DEF OneMoreCall, ParseFrame
    <3>2. CASE k # 1
      BY <1>6, <2>2, <3>2 DEF OneMoreCall
    <3> QED BY <3>1, <3>2
  <2>9. ASSUME NEW k \in DOMAIN stack', NEW j \in DOMAIN stack', j < k
        PROVE  Path(stack'[j].prog) \in Reach(Seen, IncludedBy(Path(stack'[k].prog)))
    <3>1. PICK h : h = k - 1
      OBVIOUS
    <3>2. j \in Nat \ {0} /\ k \in Nat /\ k # 1
      BY <2>2, <2>9 DEF OneMoreCall, Parsing
    <3>3. h \in DOMAIN stack /\ stack'[k].prog = stack[h].prog
      BY <2>2, <3>1, <3>2 DEF OneMoreCall
    <3>4. PICK g : g = Path(stack[h].prog) /\ g \in Files
      BY <1>6, <2>2, <3>3 DEF ShapeInv, IsProgram, Path
    <3>5. IncludedBy(g) \in SUBSET Files
      BY <3>4, SeenFacts
    <3>6. CASE j = 1
      <4>1. stack'[j].prog = c
        BY <2>2, <3>6 DEF OneMoreCall, ParseFrame
      <4>2. CASE h = 1
        BY <2>3, <2>6, <3>3, <3>4, <4>1, <4>2
      <4>3. CASE h # 1
        <5>1. 1 < h
          BY <2>2, <3>1, <3>2, <3>3, <4>3 DEF OneMoreCall, Parsing
        <5>2. f \in Reach(Seen, IncludedBy(g))
          BY <1>6, <2>2, <2>3, <3>3, <3>4, <5>1
        <5> QED BY <2>5, <3>3, <3>4, <3>5, <4>1, <5>2
      <4> QED BY <4>2, <4>3
    <3>7. CASE j # 1
      <4>1. PICK i : i = j - 1
        OBVIOUS
      <4>2. i \in DOMAIN stack /\ stack'[j].prog = stack[i].prog /\ i < h
        BY <2>2, <2>9, <3>1, <3>2, <3>7, <4>1 DEF OneMoreCall
      <4> QED BY <1>6, <2>2, <3>3, <3>4, <4>2
    <3> QED BY <3>6, <3>7
  <2> QED BY <1>12, <2>2, <2>8, <2>9
<1>9. CASE Return
  <2>1. OneCallLess /\ UNCHANGED <<programs, side, phase>> /\ phase = "parse"
    BY <1>9, CallsFacts, ReturnFacts
  <2>2. \A k \in DOMAIN stack' : k \in Nat /\ k + 1 \in DOMAIN stack /\ stack'[k] = stack[k + 1]
    BY <2>1 DEF OneCallLess, Parsing
  <2>3. \A k, j \in DOMAIN stack' : j < k => j + 1 < k + 1
    BY <2>2
  <2> QED BY <1>6, <1>12, <2>1, <2>2, <2>3
<1>10. CASE AuditGoesOn
  <2>1. stack' = <<ParseFrame(1, NULL)>> /\ side' = "new" /\ UNCHANGED programs
    BY <1>10 DEF AuditGoesOn
  <2>2. \A k \in DOMAIN stack' : k = 1 /\ stack'[k].prog = 1
    BY <2>1 DEF ParseFrame
  <2>3. Path(1) = project.root["new"] /\ 1 \in Progs
    BY DEF ShapeInv, Roots, Progs, IsSequence
  <2>4. project.root["new"] \in Reached("new")
    <3>1. {project.root["new"]} \in SUBSET Files
      BY ProjectFacts
    <3> QED BY <3>1, SeenFacts, ReachFacts DEF Reached
  <2>5. \A k, j \in DOMAIN stack' : ~ (j < k)
    BY <2>2
  <2> QED BY <1>12, <2>1, <2>2, <2>3, <2>4, <2>5
<1>11. CASE Stays
  <2>1. phase' = phase /\ side' = side /\ stack' = stack /\ programs' = programs
    BY <1>11 DEF Stays
  <2> QED BY <1>5, <1>6, <1>12, <2>1
<1> QED BY <1>5, <1>7, <1>8, <1>9, <1>10, <1>11, Steps, CallsFacts DEF Leaves

(****************************************************************************)
(* The calls of parse, together.                                             *)
(****************************************************************************)
CoreInv == ShapeInv /\ TreeInv /\ StackInv /\ FreshInv /\ KnownInv /\ ChainInv

LEMMA NewProgramIsFresh ==
  ASSUME NEW f \in Files, NEW s
  PROVE  /\ IsProgram(NewProgram(f, s)) /\ NewProgram(f, s).path = f
         /\ NewProgram(f, s).includes = <<>> /\ NewProgram(f, s).defs = <<>>
         /\ \A kind \in Kinds : DOMAIN NewProgram(f, s).scope[kind] = {}
<1>1. <<>> = [j \in 1..0 |-> <<>>[j]]
  OBVIOUS
<1>2. IsSequence(<<>>)
  BY <1>1, FunctionIsSequence
<1>3. IsProgram(NewProgram(f, s))
  BY <1>2 DEF IsProgram, NewProgram, EmptyScope, Kinds
<1> QED BY <1>3, NewProgramFacts

LEMMA CoreInit ==
  ASSUME Init
  PROVE  CoreInv
<1>1. /\ project \in Projects /\ request \in [audit : BOOLEAN, recurse : BOOLEAN]
      /\ request.audit => ~ request.recurse
      /\ phase = "parse" /\ status = "running" /\ program_to_scope = <<>>
      /\ side = IF request.audit THEN "old" ELSE "new"
  BY DEF Init
<1>2. project.root["new"] \in Files /\ project.root["old"] \in Files
  BY <1>1, IncludesAssumption DEF IsProject, Sides
<1>3. PICK a, b : a = NewProgram(project.root["new"], "new") /\ b = NewProgram(project.root["old"], "old")
  OBVIOUS
<1>4. /\ IsSequence(programs) /\ Progs = 1..Roots /\ Len(programs) = Roots
      /\ programs[1] = a /\ (request.audit => programs[2] = b)
  <2>1. CASE request.audit
    <3>1. programs = <<a, b>>
      BY <1>3, <2>1 DEF Init
    <3>2. programs = [i \in 1..2 |-> programs[i]] /\ DOMAIN programs = 1..2 /\ programs[1] = a /\ programs[2] = b
      BY <3>1
    <3>3. IsSequence(programs) /\ Len(programs) = 2
      BY <3>2, FunctionIsSequence
    <3> QED BY <2>1, <3>2, <3>3 DEF Progs, Roots
  <2>2. CASE ~ request.audit
    <3>1. programs = <<a>>
      BY <1>3, <2>2 DEF Init
    <3>2. programs = [i \in 1..1 |-> programs[i]] /\ DOMAIN programs = 1..1 /\ programs[1] = a
      BY <3>1
    <3>3. IsSequence(programs) /\ Len(programs) = 1
      BY <3>2, FunctionIsSequence
    <3> QED BY <2>2, <3>2, <3>3 DEF Progs, Roots
  <2> QED BY <2>1, <2>2
<1>5. Roots \in {1, 2} /\ (Roots = 2 <=> request.audit)
  BY DEF Roots
<1>6. Progs \in SUBSET {1, 2} /\ Roots \in Progs
  BY <1>4, <1>5
<1>7. ASSUME NEW p \in Progs PROVE IsProgram(programs[p]) /\ Fresh(p)
  <2>1. programs[p] = a \/ programs[p] = b
    BY <1>4, <1>5, <1>6
  <2>2. /\ IsProgram(a) /\ a.includes = <<>> /\ a.defs = <<>> /\ \A kind \in Kinds : DOMAIN a.scope[kind] = {}
    BY <1>2, <1>3, NewProgramIsFresh
  <2>3. /\ IsProgram(b) /\ b.includes = <<>> /\ b.defs = <<>> /\ \A kind \in Kinds : DOMAIN b.scope[kind] = {}
    BY <1>2, <1>3, NewProgramIsFresh
  <2> QED BY <2>1, <2>2, <2>3 DEF Fresh
<1>8. Path(1) = project.root["new"] /\ (request.audit => Path(2) = project.root["old"])
  BY <1>2, <1>3, <1>4, NewProgramIsFresh DEF Path
<1>9. PICK f : f = ParseFrame(Roots, NULL)
  OBVIOUS
<1>10. f \in Frame /\ f.prog = Roots /\ f.parent = NULL /\ f.pc = "begin" /\ f.next = 1
  BY <1>5, <1>9 DEF ParseFrame, Frame
<1>11. stack = <<f>>
  BY <1>4, <1>9 DEF Init
<1>12. stack \in Seq(Frame) /\ stack # <<>> /\ Len(stack) = 1 /\ DOMAIN stack = {1} /\ stack[1] = f /\ Top = f
  BY <1>10, <1>11 DEF Top
<1>13. Known = {}
  BY <1>1 DEF Known
<1>14. ShapeInv
  BY <1>1, <1>4, <1>6, <1>7, <1>8, <1>10, <1>12, <1>13 DEF ShapeInv, Sides
<1>15. TreeInv
  BY <1>7 DEF TreeInv, Fresh
<1>16. RootProg = Roots
  BY <1>1, <1>5 DEF RootProg
<1>17. StackInv
  BY <1>10, <1>12, <1>16 DEF StackInv, Parent
<1>18. FreshInv
  BY <1>1, <1>4, <1>5, <1>6, <1>7, <1>10, <1>12 DEF FreshInv, ShapeInv
<1>19. KnownInv
  BY <1>1, <1>10, <1>12, <1>13 DEF KnownInv, IsClosed
<1>20. ChainInv
  <2>1. Path(Roots) = project.root[side]
    BY <1>1, <1>5, <1>8
  <2>2. {project.root[side]} \in SUBSET Files
    BY <1>1, <1>2
  <2>3. Path(Roots) \in Reached(side)
    BY <2>1, <2>2, <1>14, SeenFacts, ReachFacts DEF Reached
  <2> QED BY <1>10, <1>12, <2>3 DEF ChainInv
<1> QED BY <1>14, <1>15, <1>17, <1>18, <1>19, <1>20 DEF CoreInv

LEMMA CoreNext ==
  ASSUME CoreInv, [Next]_vars
  PROVE  CoreInv'
BY ShapeNext, TreeNext, StackNext, FreshNext, KnownNext, ChainNext DEF CoreInv

LEMMA CoreHolds == Spec => []CoreInv
<1>1. Init => CoreInv
  BY CoreInit
<1>2. CoreInv /\ [Next]_vars => CoreInv'
  BY CoreNext
<1> QED BY <1>1, <1>2, PTL DEF Spec

(****************************************************************************)
(* Only files that include each other exhaust the stack.                     *)
(****************************************************************************)
OverflowInv ==
  /\ phase = "parse" => status # "done"
  /\ phase # "parse" => side = "new"
  /\ Cardinality(Files) <= MaxDepth /\ status = "overflow" => Cyclic

LEMMA OverflowIsCyclic ==
  ASSUME CoreInv, Overflow, Cardinality(Files) <= MaxDepth
  PROVE  Cyclic
<1>1. /\ phase = "parse" /\ stack # <<>> /\ Len(stack) = MaxDepth
      /\ Top.next \in DOMAIN programs[Top.prog].includes
  BY DEF Overflow, At
<1>2. PICK n : n = Len(stack) /\ n \in Nat \ {0} /\ DOMAIN stack = 1..n
  BY <1>1, TopFacts DEF CoreInv
<1>3. PICK P, c : P = Top.prog /\ P \in Progs /\ c = programs[P].includes[Top.next] /\ c \in Progs
  BY <1>1, TopFacts DEF CoreInv, TreeInv
\* The files on the stack, and the one that no call is left for.
<1> DEFINE call(k) == IF k = 0 THEN Path(c) ELSE Path(stack[k].prog)
<1>4. ASSUME NEW k \in 0..n PROVE call(k) \in Files
  <2>1. k = 0 \/ k \in DOMAIN stack
    BY <1>2
  <2> QED BY <1>3, <2>1 DEF CoreInv, ShapeInv, IsProgram, Path
<1>5. Path(c) \in IncludedBy(Path(P))
  <2>1. Scanned(P) /\ Path(c) = Seen[Path(P)][Top.next]
    BY <1>1, <1>3 DEF CoreInv, TreeInv
  <2>2. Path(P) \in Files
    BY <1>3 DEF CoreInv, ShapeInv, IsProgram, Path
  <2> QED BY <1>1, <1>3, <2>1, <2>2, SeenFacts DEF CoreInv, Scanned
<1>6. ASSUME NEW j \in 0..n, NEW k \in 1..n, j < k
      PROVE  call(j) \in Reach(Seen, IncludedBy(call(k)))
  <2>1. k # 0 /\ k \in DOMAIN stack /\ 1 \in DOMAIN stack
    BY <1>2, <1>6
  <2>2. IncludedBy(call(k)) \in SUBSET Files /\ call(k) \in Files
    BY <1>4, SeenFacts DEF CoreInv
  <2>3. CASE j = 0
    <3>1. CASE k = 1
      <4>1. call(k) = Path(P)
        BY <1>3, <3>1 DEF Top
      <4> QED BY <1>5, <2>2, <2>3, <4>1, SeenFacts, ReachFacts DEF CoreInv
    <3>2. CASE k # 1
      <4>1. 1 < k
        BY <3>2
      <4>2. Path(stack[1].prog) \in Reach(Seen, IncludedBy(Path(stack[k].prog)))
        BY <1>1, <2>1, <4>1 DEF CoreInv, ChainInv
      <4>3. Path(P) \in Reach(Seen, IncludedBy(call(k)))
        BY <1>3, <2>1, <4>2 DEF Top
      <4>4. IsClosed(Seen, Reach(Seen, IncludedBy(call(k))))
        BY <2>2, SeenFacts, ReachFacts DEF CoreInv
      <4> HIDE DEF call
      <4>5. Path(c) \in Reach(Seen, IncludedBy(call(k)))
        BY <1>5, <4>3, <4>4 DEF IsClosed, IncludedBy
      <4> QED BY <2>3, <4>5 DEF call
    <3> QED BY <3>1, <3>2
  <2>4. CASE j # 0
    <3>1. j \in DOMAIN stack
      BY <1>2, <2>4
    <3> QED BY <1>1, <1>6, <2>1, <2>4, <3>1 DEF CoreInv, ChainInv
  <2> QED BY <2>3, <2>4
<1>7. PICK f : f = [k \in 0..n |-> call(k)]
  OBVIOUS
<1>8. f \in [0..n -> Files]
  BY <1>4, <1>7
<1>9. IsFiniteSet(0..n) /\ Cardinality(0..n) = n + 1
  BY <1>2, FS_Interval
<1>10. IsFiniteSet(Files) /\ Cardinality(Files) \in Nat
  BY IncludesAssumption, FS_CardinalityType
<1>11. Cardinality(Files) < Cardinality(0..n)
  BY <1>1, <1>2, <1>9, <1>10
<1>12. PICK x \in 0..n, y \in 0..n : x # y /\ f[x] = f[y]
  BY <1>8, <1>9, <1>10, <1>11, FS_PigeonHole
<1>13. PICK j \in 0..n, k \in 1..n : j < k /\ call(j) = call(k)
  <2>1. call(x) = call(y)
    BY <1>7, <1>12
  <2> HIDE DEF call
  <2>2. (x < y /\ y \in 1..n) \/ (y < x /\ x \in 1..n)
    BY <1>2, <1>12
  <2> QED BY <2>1, <2>2
<1>14. call(k) \in Reach(Seen, IncludedBy(call(k)))
  <2>1. call(j) \in Reach(Seen, IncludedBy(call(k)))
    BY <1>6, <1>13
  <2> HIDE DEF call
  <2> QED BY <1>13, <2>1
<1>15. call(k) \in Reached(side)
  <2>1. k \in DOMAIN stack /\ k # 0
    BY <1>2
  <2> QED BY <1>1, <2>1 DEF CoreInv, ChainInv
<1>16. IsCyclic(side)
  <2> HIDE DEF call
  <2> QED BY <1>14, <1>15 DEF IsCyclic
<1> QED BY <1>16 DEF Cyclic, CoreInv, ShapeInv, Sides

LEMMA OverflowNext ==
  ASSUME CoreInv, OverflowInv, [Next]_vars
  PROVE  OverflowInv'
<1>1. UNCHANGED <<project, request>> /\ Cyclic' = Cyclic
  BY ZenonT(40), Rigid DEF Cyclic, IsCyclic, Reached, Reach, IncludedBy, IsClosed
<1>2. phase' = "parse" => status' # "done"
  BY Zenon DEF Next, vars, SkipRecursion, ScanIncludes, Recurse, Overflow,
         SaveScope, DefineType, DefineConst, Defined, Refused, Return, ReturnToAudit, ReturnToMain,
         SkipGenerated, Popped, End, At, OverflowInv,
         Generate, GenerateInclude, GenerateProgram
<1>3. phase' # "parse" => side' = "new"
  BY Zenon DEF Next, vars, SkipRecursion, ScanIncludes, Recurse, Overflow,
         SaveScope, DefineType, DefineConst, Defined, Refused, Return, ReturnToAudit, ReturnToMain,
         SkipGenerated, Popped, End, At, OverflowInv,
         Generate, GenerateInclude, GenerateProgram, CoreInv, ShapeInv
<1>4. ASSUME Cardinality(Files) <= MaxDepth, status' = "overflow" PROVE Cyclic
  <2>1. status = "overflow" \/ Overflow
    BY Zenon, <1>4 DEF Next, vars, SkipRecursion, ScanIncludes, Recurse, Overflow,
         SaveScope, DefineType, DefineConst, Defined, Refused, Return, ReturnToAudit, ReturnToMain,
         SkipGenerated, Popped, End, At, Generate, GenerateInclude, GenerateProgram
  <2> QED BY <1>4, <2>1, OverflowIsCyclic DEF OverflowInv
<1> QED BY <1>1, <1>2, <1>3, <1>4 DEF OverflowInv

\* If the stack has room for a call for each file, then the driver exhausts it only over
\* files that include each other: a file is known once its includes are, so a chain of
\* calls without a cycle has each file once.
THEOREM OnlyCyclesExhaustTheStack ==
  Spec => [](Cardinality(Files) <= MaxDepth => OnlyCyclesOverflow)
<1>1. Init => OverflowInv
  BY DEF Init, OverflowInv
<1>2. CoreInv /\ OverflowInv /\ [Next]_vars => OverflowInv'
  BY OverflowNext
<1>3. OverflowInv => (Cardinality(Files) <= MaxDepth => OnlyCyclesOverflow)
  BY DEF OnlyCyclesOverflow, OverflowInv
<1> QED BY <1>1, <1>2, <1>3, CoreHolds, PTL DEF Spec

(****************************************************************************)
(* What names are bound to.                                                  *)
(****************************************************************************)
Means(p, kind, q, o) ==
  /\ IsPlace(kind, q, o)
  /\ IF q[1] = NULL THEN o[1] = p
     ELSE /\ IsImport(Path(p), q, o)
          /\ programs[p].includes # <<>> =>
               \E i \in DOMAIN programs[p].includes : o[1] = programs[p].includes[i]
ScopesMean ==
  \A p \in Progs, kind \in Kinds : \A q \in DOMAIN programs[p].scope[kind] :
    Means(p, kind, q, programs[p].scope[kind][q])
SavedMeans(f, kind, q, o) == q[1] # NULL /\ IsPlace(kind, q, o) /\ IsImport(f, q, o)
SavedMean ==
  \A f \in Known, kind \in Kinds : \A q \in DOMAIN program_to_scope[f][kind] :
    SavedMeans(f, kind, q, program_to_scope[f][kind][q])
RefMeans(p, j, kind, q, o) ==
  IF o = NULL THEN kind = "types"
  ELSE /\ IsPlace(kind, q, o)
       /\ IF q[1] = NULL THEN o[1] = p /\ o[2] < j ELSE IsImport(Path(p), q, o)
DefMeans(p, j, defn) ==
  /\ defn.name = Defs(p)[j].name /\ defn.kind = Defs(p)[j].kind
  /\ DOMAIN defn.refs = Defs(p)[j].refs
  /\ \A q \in DOMAIN defn.refs : RefMeans(p, j, KindsOf(defn), q, defn.refs[q])
DefsMean ==
  \A p \in Progs :
    /\ DOMAIN programs[p].defs \subseteq DOMAIN Defs(p)
    /\ \A j \in DOMAIN programs[p].defs : DefMeans(p, j, programs[p].defs[j])
NamesInv == ScopesMean /\ SavedMean /\ DefsMean

\* The definition that is parsed comes after those of its program.
LEMMA DefinedFacts ==
  ASSUME CoreInv, NEW kind \in Kinds, Defines(kind)
  PROVE  /\ Top.next \in Nat \ {0} /\ Top.prog \in Progs
         /\ DOMAIN programs[Top.prog].defs = 1..Top.next - 1
         /\ DOMAIN programs'[Top.prog].defs = 1..Top.next
         /\ \A j \in 1..Top.next - 1 : programs'[Top.prog].defs[j] = programs[Top.prog].defs[j]
         /\ programs'[Top.prog].defs[Top.next].name = Current.name
         /\ programs'[Top.prog].defs[Top.next].kind = KindOf(kind)
         /\ programs'[Top.prog].defs[Top.next].refs = Bound(kind)
<1>1. Top.pc = "types" /\ stack # <<>> /\ phase = "parse" /\ Current.kind = KindOf(kind)
  BY DefineFacts DEF CoreInv, Defines
<1>2. Top \in Frame /\ Top.prog \in Progs
  BY <1>1, TopFacts DEF CoreInv
<1>3. PICK P, n, defs, d : /\ P = Top.prog /\ n = Top.next /\ defs = programs[P].defs
                           /\ d = [name |-> Current.name, kind |-> Current.kind, refs |-> Bound(kind)]
  OBVIOUS
<1>4. n \in Nat \ {0} /\ P \in Progs
  BY <1>2, <1>3 DEF Frame
<1>5. IsSequence(defs) /\ Len(defs) = n - 1
  BY <1>1, <1>3, <1>4 DEF CoreInv, ShapeInv, IsProgram, FreshInv
<1>6. programs'[P].defs = Append(defs, d)
  BY <1>3, DefineFacts DEF CoreInv
<1>7. /\ IsSequence(Append(defs, d)) /\ Len(Append(defs, d)) = n
      /\ \A j \in 1..n - 1 : Append(defs, d)[j] = defs[j]
      /\ Append(defs, d)[n] = d
  <2>1. /\ IsSequence(Append(defs, d)) /\ Len(Append(defs, d)) = Len(defs) + 1
        /\ \A j \in 1..Len(defs) : Append(defs, d)[j] = defs[j]
        /\ Append(defs, d)[Len(defs) + 1] = d
    BY <1>5, AppendIsSequence
  <2>2. Len(defs) + 1 = n
    BY <1>4, <1>5
  <2> QED BY <1>5, <2>1, <2>2
<1>8. DOMAIN defs = 1..n - 1 /\ DOMAIN programs'[P].defs = 1..n
  BY <1>5, <1>6, <1>7 DEF IsSequence
<1>9. programs'[P].defs[n] = d /\ \A j \in 1..n - 1 : programs'[P].defs[j] = defs[j]
  BY <1>6, <1>7
<1>10. d.name = Current.name /\ d.kind = KindOf(kind) /\ d.refs = Bound(kind)
  BY <1>1, <1>3
<1> QED BY <1>3, <1>4, <1>8, <1>9, <1>10

\* No definition is taken back.
LEMMA DefsStay ==
  ASSUME CoreInv, [Next]_vars, NEW p \in Progs
  PROVE  /\ DOMAIN programs[p].defs \subseteq DOMAIN programs'[p].defs
         /\ \A j \in DOMAIN programs[p].defs : programs'[p].defs[j] = programs[p].defs[j]
<1>1. ShapeInv
  BY DEF CoreInv
<1>2. CASE SkipRecursion
  BY <1>1, <1>2, SkipFacts
<1>3. CASE ScanIncludes
  <2>1. programs'[p].defs = programs[p].defs
    BY <1>1, <1>3, ScanFacts
  <2> QED BY <2>1
<1>4. ASSUME NEW kind \in Kinds, Defines(kind)
      PROVE  /\ DOMAIN programs[p].defs \subseteq DOMAIN programs'[p].defs
             /\ \A j \in DOMAIN programs[p].defs : programs'[p].defs[j] = programs[p].defs[j]
  <2>1. CASE p = Top.prog
    <3>1. Top.next \in Nat
      BY <1>4, DefinedFacts
    <3>2. 1..Top.next - 1 \subseteq 1..Top.next
      BY <3>1
    <3> QED BY <1>4, <2>1, <3>2, DefinedFacts
  <2>2. CASE p # Top.prog
    BY <1>1, <1>4, <2>2, DefineFacts
  <2> QED BY <2>1, <2>2
<1>5. CASE UNCHANGED programs
  BY <1>5
<1> QED BY <1>1, <1>2, <1>3, <1>4, <1>5, Steps DEF Kinds, Recurse, SaveScope, Return, AuditGoesOn, Leaves, Stays

LEMMA PlaceStays ==
  ASSUME CoreInv, [Next]_vars, NEW kind, NEW q, NEW o, IsPlace(kind, q, o)
  PROVE  IsPlace(kind, q, o)' /\ Path(o[1])' = Path(o[1])
<1>1. PICK p, j : p = o[1] /\ j = o[2]
  OBVIOUS
<1>2. p \in Progs /\ j \in DOMAIN programs[p].defs
  BY <1>1 DEF IsPlace
<1>3. p \in Progs' /\ programs'[p].path = programs[p].path
  BY <1>2, PathFacts DEF CoreInv
<1>4. j \in DOMAIN programs'[p].defs /\ programs'[p].defs[j] = programs[p].defs[j]
  BY <1>2, DefsStay
<1> QED BY <1>1, <1>3, <1>4 DEF IsPlace, Path

LEMMA ImportStays ==
  ASSUME CoreInv, [Next]_vars, NEW f, NEW kind, NEW q, NEW o, IsPlace(kind, q, o), IsImport(f, q, o)
  PROVE  IsImport(f, q, o)'
<1>1. Path(o[1])' = Path(o[1])
  BY PlaceStays
<1>2. Seen' = Seen /\ project' = project
  BY Rigid
<1> QED BY <1>1, <1>2 DEF IsImport, IncludedBy, BaseName

LEMMA MeansStays ==
  ASSUME CoreInv, [Next]_vars, NEW p \in Progs, programs'[p].includes = programs[p].includes,
         NEW kind, NEW q, NEW o, Means(p, kind, q, o)
  PROVE  Means(p, kind, q, o)'
<1>1. IsPlace(kind, q, o) /\ IsPlace(kind, q, o)'
  BY PlaceStays DEF Means
<1>2. CASE q[1] = NULL
  BY <1>1, <1>2 DEF Means
<1>3. CASE q[1] # NULL
  <2>1. PICK f : f = Path(p)
    OBVIOUS
  <2>2. Path(p)' = f
    BY <2>1, PathFacts DEF CoreInv, Path
  <2>3. IsImport(f, q, o)'
    BY <1>1, <1>3, <2>1, ImportStays DEF Means
  <2>4. IsImport(Path(p), q, o)'
    BY <2>2, <2>3 DEF IsImport
  <2> QED BY <1>1, <1>3, <2>4 DEF Means
<1> QED BY <1>2, <1>3

LEMMA SavedMeansStays ==
  ASSUME CoreInv, [Next]_vars, NEW f, NEW kind, NEW q, NEW o, SavedMeans(f, kind, q, o)
  PROVE  SavedMeans(f, kind, q, o)'
BY PlaceStays, ImportStays DEF SavedMeans

LEMMA DefMeansStays ==
  ASSUME CoreInv, [Next]_vars, NEW p \in Progs, NEW j, NEW defn, DefMeans(p, j, defn)
  PROVE  DefMeans(p, j, defn)'
<1>1. Defs(p)' = Defs(p)
  BY Rigid, PathFacts DEF Defs, Path, CoreInv
<1>2. ASSUME NEW q, NEW o, NEW kind, RefMeans(p, j, kind, q, o) PROVE RefMeans(p, j, kind, q, o)'
  <2>1. CASE o = NULL
    BY <1>2, <2>1 DEF RefMeans
  <2>2. CASE o # NULL
    <3>1. IsPlace(kind, q, o) /\ IsPlace(kind, q, o)'
      BY <1>2, <2>2, PlaceStays DEF RefMeans
    <3>2. CASE q[1] = NULL
      BY <1>2, <2>2, <3>1, <3>2 DEF RefMeans
    <3>3. CASE q[1] # NULL
      <4>1. PICK f : f = Path(p)
        OBVIOUS
      <4>2. Path(p)' = f
        BY <4>1, PathFacts DEF CoreInv, Path
      <4>3. IsImport(f, q, o)'
        BY <1>2, <2>2, <3>1, <3>3, <4>1, ImportStays DEF RefMeans
      <4>4. IsImport(Path(p), q, o)'
        BY <4>2, <4>3 DEF IsImport
      <4> QED BY <2>2, <3>1, <3>3, <4>4 DEF RefMeans
    <3> QED BY <3>2, <3>3
  <2> QED BY <2>1, <2>2
<1>3. KindsOf(defn)' = KindsOf(defn)
  BY DEF KindsOf
<1>4. \A q \in DOMAIN defn.refs : RefMeans(p, j, KindsOf(defn), q, defn.refs[q])'
  <2>1. PICK kind : kind = KindsOf(defn)
    OBVIOUS
  <2>2. ASSUME NEW q \in DOMAIN defn.refs PROVE RefMeans(p, j, kind, q, defn.refs[q])'
    <3>1. RefMeans(p, j, kind, q, defn.refs[q])
      BY <2>1, <2>2 DEF DefMeans
    <3> QED BY <1>2, <3>1
  <2> QED BY <1>3, <2>1, <2>2
<1> QED BY <1>1, <1>4 DEF DefMeans

\* The place of the definition that is parsed.
LEMMA CurrentIsPlace ==
  ASSUME CoreInv, NEW kind \in Kinds, Defines(kind), NEW x, NEW o,
         x[2] = Current.name, x = <<x[1], x[2]>>, o = <<Top.prog, Top.next>>
  PROVE  IsPlace(kind, x, o)' /\ o[1] = Top.prog /\ o[2] = Top.next
<1>1. PICK P, n : P = Top.prog /\ n = Top.next
  OBVIOUS
<1>2. P \in Progs /\ n \in Nat \ {0} /\ o = <<P, n>> /\ P \in Progs'
  BY <1>1, DefinedFacts, DefineFacts DEF CoreInv
<1>3. P \in Nat /\ o[1] = P /\ o[2] = n
  BY <1>2 DEF CoreInv, ShapeInv, IsSequence, Progs
<1>4. /\ n \in DOMAIN programs'[P].defs /\ programs'[P].defs[n].name = Current.name
      /\ programs'[P].defs[n].kind = KindOf(kind)
  BY <1>1, <1>2, DefinedFacts
<1>5. o \in Nat \X Nat
  BY <1>2, <1>3
<1> QED BY <1>1, <1>2, <1>3, <1>4, <1>5 DEF IsPlace

LEMMA ScopesMeanNext ==
  ASSUME CoreInv, NamesInv, [Next]_vars
  PROVE  ScopesMean'
<1>0. ShapeInv /\ TreeInv /\ ScopesMean
  BY DEF CoreInv, NamesInv
\* What was there stays there.
<1>1. ASSUME NEW p \in Progs, programs'[p].includes = programs[p].includes,
             NEW kind \in Kinds, programs'[p].scope[kind] = programs[p].scope[kind],
             NEW q \in DOMAIN programs'[p].scope[kind]
      PROVE  Means(p, kind, q, programs[p].scope[kind][q])'
  <2>1. PICK o : o = programs[p].scope[kind][q]
    OBVIOUS
  <2>2. Means(p, kind, q, o)
    BY <1>0, <1>1, <2>1 DEF ScopesMean
  <2>3. Means(p, kind, q, o)'
    BY <1>1, <2>2, MeansStays
  <2> QED BY <1>1, <2>1, <2>3
<1>2. CASE SkipRecursion
  <2>1. /\ Top.pc = "begin" /\ phase = "parse" /\ stack # <<>> /\ Path(Top.prog) \in Known /\ Progs' = Progs
        /\ \A p \in Progs : /\ programs'[p].includes = programs[p].includes
                            /\ p # Top.prog => programs'[p].scope = programs[p].scope
        /\ programs'[Top.prog].scope = program_to_scope[Path(Top.prog)]
    BY <1>0, <1>2, SkipFacts, TopFacts
  <2>2. programs[Top.prog].includes = <<>>
    BY <2>1 DEF CoreInv, FreshInv, Fresh
  <2>3. ASSUME NEW p \in Progs, NEW kind \in Kinds, NEW q \in DOMAIN programs'[p].scope[kind]
        PROVE  Means(p, kind, q, programs[p].scope[kind][q])'
    <3>1. CASE p # Top.prog
      BY <1>1, <2>1, <2>3, <3>1
    <3>2. CASE p = Top.prog
      <4>1. PICK f, o : f = Path(p) /\ o = program_to_scope[f][kind][q]
        OBVIOUS
      <4>2. SavedMeans(f, kind, q, o)
        BY <2>1, <2>3, <3>2, <4>1 DEF NamesInv, SavedMean
      <4>3. SavedMeans(f, kind, q, o)'
        BY <4>2, SavedMeansStays
      <4>4. Path(p)' = f
        BY <1>0, <4>1, PathFacts DEF Path
      <4>5. IsImport(Path(p), q, o)'
        BY <4>3, <4>4 DEF SavedMeans, IsImport
      <4>6. programs'[p].includes = <<>>
        BY <2>1, <2>2, <3>2
      <4>7. Means(p, kind, q, o)'
        BY <4>3, <4>5, <4>6 DEF Means, SavedMeans
      <4> QED BY <2>1, <3>2, <4>1, <4>7
    <3> QED BY <3>1, <3>2
  <2> QED BY <2>1, <2>3 DEF ScopesMean
<1>3. CASE ScanIncludes
  <2>1. /\ Top.pc = "begin" /\ phase = "parse" /\ stack # <<>> /\ Top.prog \in Progs
        /\ \A p \in Progs' : p \in Progs \/ \E i \in DOMAIN Found : p = Made(i)
        /\ \A p \in Progs : p # Top.prog => programs'[p] = programs[p]
        /\ programs'[Top.prog].scope = programs[Top.prog].scope
    BY <1>0, <1>3, ScanFacts, TopFacts
  <2>2. \A kind \in Kinds : DOMAIN programs[Top.prog].scope[kind] = {}
    BY <2>1 DEF CoreInv, FreshInv, Fresh
  <2>3. ASSUME NEW i \in DOMAIN Found, NEW kind \in Kinds, NEW c, c = Made(i)
        PROVE DOMAIN programs'[c].scope[kind] = {}
    BY <1>0, <1>3, <2>3, ScanFacts, NewProgramFacts
  <2>4. ASSUME NEW p \in Progs', NEW kind \in Kinds, NEW q \in DOMAIN programs'[p].scope[kind]
        PROVE  Means(p, kind, q, programs[p].scope[kind][q])'
    <3>1. p \in Progs /\ p # Top.prog
      BY <2>1, <2>2, <2>3, <2>4
    <3>2. programs'[p] = programs[p]
      BY <2>1, <3>1
    <3> QED BY <1>1, <2>4, <3>1, <3>2
  <2> QED BY <2>4 DEF ScopesMean
<1>4. ASSUME NEW kind \in Kinds, Defines(kind) PROVE ScopesMean'
  <2>1. /\ Progs' = Progs /\ stack # <<>> /\ phase = "parse"
        /\ \A p \in Progs :
              /\ programs'[p].includes = programs[p].includes
              /\ \A k \in Kinds :
                   programs'[p].scope[k] = 
                     IF k # kind THEN programs[p].scope[k]
                     ELSE IF p = Top.prog THEN WithCurrent(programs[p].scope[k], NULL)
                     ELSE IF p = Top.parent THEN WithCurrent(programs[p].scope[k], Prefix)
                     ELSE programs[p].scope[k]
    BY ZenonT(40), <1>0, <1>4, DefineFacts
  <2>2. ASSUME NEW p \in Progs, NEW prefix, programs'[p].scope[kind] = WithCurrent(programs[p].scope[kind], prefix),
               NEW q \in DOMAIN programs'[p].scope[kind], 
               ASSUME NEW x, NEW o, x = <<prefix, Current.name>>, o = <<Top.prog, Top.next>>
               PROVE  Means(p, kind, x, o)'
        PROVE  Means(p, kind, q, programs[p].scope[kind][q])'
    <3>1. PICK names, x, o : /\ names = programs[p].scope[kind]
                             /\ x = <<prefix, Current.name>> /\ o = <<Top.prog, Top.next>>
      OBVIOUS
    <3>2. programs'[p].scope[kind] = With(names, x, o)
      BY <2>2, <3>1 DEF WithCurrent
    <3>3. CASE q = x
      <4>1. programs'[p].scope[kind][q] = o
        BY <3>2, <3>3 DEF With
      <4> QED BY <2>2, <3>1, <3>3, <4>1
    <3>4. CASE q # x
      <4>1. q \in DOMAIN names /\ programs'[p].scope[kind][q] = names[q]
        BY <2>2, <3>2, <3>4 DEF With
      <4>2. PICK n : n = names[q]
        OBVIOUS
      <4>3. Means(p, kind, q, n)
        BY <1>0, <3>1, <4>1, <4>2 DEF ScopesMean
      <4>4. Means(p, kind, q, n)'
        BY <2>1, <4>3, MeansStays
      <4> QED BY <4>1, <4>2, <4>4
    <3> QED BY <3>3, <3>4
  <2>3. ASSUME NEW P, P = Top.prog, NEW x, NEW o, x = <<NULL, Current.name>>, o = <<Top.prog, Top.next>>
        PROVE  Means(P, kind, x, o)'
    <3>1. x[1] = NULL /\ x[2] = Current.name /\ x = <<x[1], x[2]>>
      BY <2>3
    <3>2. IsPlace(kind, x, o)' /\ o[1] = P
      BY <1>4, <2>3, <3>1, CurrentIsPlace
    <3> QED BY <3>1, <3>2 DEF Means
  <2>4. ASSUME Top.parent \in Progs, NEW x, NEW o, x = <<Prefix, Current.name>>, o = <<Top.prog, Top.next>>,
               NEW p, p = Top.parent
        PROVE  Means(p, kind, x, o)'
    <3>1. PICK P, b : P = Top.prog /\ b = Prefix
      OBVIOUS
    <3>2. x[1] = b /\ x[2] = Current.name /\ x = <<x[1], x[2]>>
      BY <2>4, <3>1
    <3>3. IsPlace(kind, x, o)' /\ o[1] = P
      BY <1>4, <2>4, <3>1, <3>2, CurrentIsPlace
    <3>4. NULL \notin Progs
      BY IncludesAssumption DEF Progs, CoreInv, ShapeInv, IsSequence
    <3>5. PICK i \in DOMAIN programs[p].includes : P = programs[p].includes[i]
      <4>1. Len(stack) # 1
        BY <2>1, <2>4, <3>4, ParentFacts DEF CoreInv
      <4> QED BY <2>1, <2>4, <3>1, <4>1, ParentFacts DEF CoreInv
    <3>6. PICK f, g : f = Path(p) /\ g = Path(P)
      OBVIOUS
    <3>7. g \in IncludedBy(f)
      <4>1. Scanned(p) /\ g = Seen[f][i] /\ f \in Files
        BY <1>0, <2>4, <3>5, <3>6 DEF TreeInv, ShapeInv, IsProgram, Path
      <4> QED BY <1>0, <3>5, <3>6, <4>1, SeenFacts DEF Scanned
    <3>8. b = BaseName(g)
      BY <3>1, <3>6 DEF Prefix
    <3>9. Path(p)' = f /\ Path(P)' = g
      <4>1. P \in Progs
        BY <1>4, <3>1, DefinedFacts
      <4> QED BY <1>0, <2>4, <3>6, <4>1, PathFacts DEF Path
    <3>10. IsImport(Path(p), x, o)'
      <4>1. IncludedBy(f)' = IncludedBy(f) /\ BaseName(g)' = BaseName(g)
        BY Rigid DEF IncludedBy, BaseName
      <4> QED BY <3>2, <3>3, <3>7, <3>8, <3>9, <4>1 DEF IsImport
    <3>11. b # NULL
      <4>1. g \in Files
        BY <1>0, <1>4, <3>1, <3>6, DefinedFacts DEF ShapeInv, IsProgram, Path
      <4> QED BY <1>0, <3>8, <4>1, ProjectFacts
    <3> QED BY <2>1, <2>4, <3>2, <3>3, <3>5, <3>10, <3>11 DEF Means
  <2>5. ASSUME NEW p \in Progs, NEW k \in Kinds, NEW q \in DOMAIN programs'[p].scope[k]
        PROVE  Means(p, k, q, programs[p].scope[k][q])'
    <3>1. CASE programs'[p].scope[k] = programs[p].scope[k]
      BY <1>1, <2>1, <2>5, <3>1
    <3>2. CASE k = kind /\ p = Top.prog
      <4>1. programs'[p].scope[kind] = WithCurrent(programs[p].scope[kind], NULL)
        BY <2>1, <3>2
      <4>2. ASSUME NEW x, NEW o, x = <<NULL, Current.name>>, o = <<Top.prog, Top.next>>
            PROVE  Means(p, kind, x, o)'
        BY <2>3, <3>2, <4>2
      <4> QED BY <2>2, <2>5, <3>2, <4>1, <4>2
    <3>3. CASE k = kind /\ p # Top.prog /\ p = Top.parent
      <4>1. programs'[p].scope[kind] = WithCurrent(programs[p].scope[kind], Prefix)
        BY <2>1, <3>3
      <4>2. ASSUME NEW x, NEW o, x = <<Prefix, Current.name>>, o = <<Top.prog, Top.next>>
            PROVE  Means(p, kind, x, o)'
        BY <2>4, <2>5, <3>3, <4>2
      <4>3. PICK prefix : prefix = Prefix
        OBVIOUS
      <4> QED BY <2>2, <2>5, <3>3, <4>1, <4>2, <4>3
    <3>4. \/ programs'[p].scope[k] = programs[p].scope[k]
          \/ k = kind /\ p = Top.prog
          \/ k = kind /\ p # Top.prog /\ p = Top.parent
      BY <2>1
    <3> QED BY <3>1, <3>2, <3>3, <3>4
  <2> QED BY <2>1, <2>5 DEF ScopesMean
<1>5. CASE UNCHANGED programs
  <2>1. ASSUME NEW p \in Progs, NEW kind \in Kinds, NEW q \in DOMAIN programs[p].scope[kind]
        PROVE  Means(p, kind, q, programs[p].scope[kind][q])'
    BY <1>1, <1>5, <2>1
  <2> QED BY <1>5, <2>1 DEF ScopesMean, Progs
<1> QED BY <1>0, <1>2, <1>3, <1>4, <1>5, Steps DEF Kinds, Recurse, SaveScope, Return, AuditGoesOn, Leaves, Stays

LEMMA SavedMeanNext ==
  ASSUME CoreInv, NamesInv, [Next]_vars
  PROVE  SavedMean'
<1>0. ShapeInv /\ SavedMean /\ ScopesMean
  BY DEF CoreInv, NamesInv
<1>1. ASSUME NEW f \in Known, NEW kind \in Kinds, program_to_scope'[f] = program_to_scope[f],
             NEW q \in DOMAIN program_to_scope'[f][kind]
      PROVE  SavedMeans(f, kind, q, program_to_scope[f][kind][q])'
  <2>1. PICK o : o = program_to_scope[f][kind][q]
    OBVIOUS
  <2>2. SavedMeans(f, kind, q, o)
    BY <1>0, <1>1, <2>1 DEF SavedMean
  <2>3. SavedMeans(f, kind, q, o)'
    BY <2>2, SavedMeansStays
  <2> QED BY <1>1, <2>1, <2>3
<1>2. CASE SaveScope
  <2>1. /\ Known' = Known \cup {Path(Top.prog)} /\ Top.pc = "includes" /\ phase = "parse" /\ stack # <<>>
        /\ program_to_scope'[Path(Top.prog)] = programs[Top.prog].scope
        /\ \A f \in Known : f # Path(Top.prog) => program_to_scope'[f] = program_to_scope[f]
    BY <1>0, <1>2, SaveFacts
  <2>2. PICK P, f : P = Top.prog /\ f = Path(P) /\ P \in Progs
    BY <1>0, <2>1, TopFacts
  <2>3. ASSUME NEW kind \in Kinds, NEW q \in DOMAIN programs[P].scope[kind]
        PROVE  SavedMeans(f, kind, q, programs[P].scope[kind][q])
    <3>1. q[1] # NULL
      BY <1>0, <2>1, <2>2, <2>3, TopFacts DEF CoreInv, FreshInv, Top
    <3>2. Means(P, kind, q, programs[P].scope[kind][q])
      BY <1>0, <2>2, <2>3 DEF ScopesMean
    <3> QED BY <2>2, <3>1, <3>2 DEF Means, SavedMeans
  <2>4. ASSUME NEW g \in Known', NEW kind \in Kinds, NEW q \in DOMAIN program_to_scope'[g][kind]
        PROVE  SavedMeans(g, kind, q, program_to_scope[g][kind][q])'
    <3>1. CASE g = f
      <4>1. program_to_scope'[g] = programs[P].scope
        BY <2>1, <2>2, <3>1
      <4>2. PICK o : o = programs[P].scope[kind][q]
        OBVIOUS
      <4>3. SavedMeans(g, kind, q, o)
        BY <2>3, <2>4, <3>1, <4>1, <4>2
      <4>4. SavedMeans(g, kind, q, o)'
        BY <4>3, SavedMeansStays
      <4> QED BY <4>1, <4>2, <4>4
    <3>2. CASE g # f
      BY <1>1, <2>1, <2>2, <2>4, <3>2
    <3> QED BY <3>1, <3>2
  <2> QED BY <2>4 DEF SavedMean
<1>3. CASE UNCHANGED program_to_scope
  BY <1>1, <1>3 DEF SavedMean, Known
<1> QED BY <1>0, <1>2, <1>3, Steps, SkipFacts, ScanFacts DEF Kinds, Defines, Defined, Recurse, Return,
            AuditGoesOn, Leaves, Stays

LEMMA DefsMeanNext ==
  ASSUME CoreInv, NamesInv, [Next]_vars
  PROVE  DefsMean'
<1>0. ShapeInv /\ ScopesMean /\ DefsMean
  BY DEF CoreInv, NamesInv
<1>1. \A p \in Progs : Defs(p)' = Defs(p)
  BY <1>0, Rigid, PathFacts DEF Defs, Path
<1>2. ASSUME NEW p \in Progs, programs'[p].defs = programs[p].defs
      PROVE  /\ DOMAIN programs'[p].defs \subseteq DOMAIN Defs(p)'
             /\ \A j \in DOMAIN programs'[p].defs : DefMeans(p, j, programs[p].defs[j])'
  <2>1. ASSUME NEW j \in DOMAIN programs'[p].defs PROVE DefMeans(p, j, programs[p].defs[j])'
    <3>1. PICK d : d = programs[p].defs[j]
      OBVIOUS
    <3>2. DefMeans(p, j, d)
      BY <1>0, <1>2, <2>1, <3>1 DEF DefsMean
    <3>3. DefMeans(p, j, d)'
      BY <3>2, DefMeansStays
    <3> QED BY <1>2, <3>1, <3>3
  <2> QED BY <1>0, <1>1, <1>2, <2>1 DEF DefsMean
<1>3. CASE SkipRecursion
  <2>1. Progs' = Progs /\ \A p \in Progs : programs'[p].defs = programs[p].defs
    BY <1>0, <1>3, SkipFacts
  <2> QED BY <1>2, <2>1 DEF DefsMean
<1>4. CASE ScanIncludes
  <2>1. /\ \A p \in Progs' : p \in Progs \/ \E i \in DOMAIN Found : p = Made(i)
        /\ \A p \in Progs : programs'[p].defs = programs[p].defs
    BY <1>0, <1>4, ScanFacts
  <2>2. ASSUME NEW i \in DOMAIN Found, NEW c, c = Made(i) PROVE programs'[c].defs = <<>>
    BY <1>0, <1>4, <2>2, ScanFacts, NewProgramFacts
  <2>3. ASSUME NEW p \in Progs'
        PROVE  /\ DOMAIN programs'[p].defs \subseteq DOMAIN Defs(p)'
               /\ \A j \in DOMAIN programs'[p].defs : DefMeans(p, j, programs[p].defs[j])'
    <3>1. CASE p \in Progs
      BY <1>2, <2>1, <3>1
    <3>2. CASE p \notin Progs
      <4>1. programs'[p].defs = <<>>
        BY <2>1, <2>2, <2>3, <3>2
      <4> QED BY <4>1
    <3> QED BY <3>1, <3>2
  <2> QED BY <2>3 DEF DefsMean
<1>5. ASSUME NEW kind \in Kinds, Defines(kind) PROVE DefsMean'
  <2>1. Progs' = Progs /\ \A p \in Progs : p # Top.prog => programs'[p].defs = programs[p].defs
    BY <1>0, <1>5, DefineFacts
  <2>2. PICK P, n, defn, here :
          P = Top.prog /\ n = Top.next /\ defn = programs'[P].defs[n] /\ here = Defs(P)
    OBVIOUS
  <2>3. /\ P \in Progs /\ n \in Nat \ {0} /\ DOMAIN programs[P].defs = 1..n - 1
        /\ DOMAIN programs'[P].defs = 1..n
        /\ \A j \in 1..n - 1 : programs'[P].defs[j] = programs[P].defs[j]
        /\ defn.name = Current.name /\ defn.kind = KindOf(kind) /\ defn.refs = Bound(kind)
    BY <1>5, <2>2, DefinedFacts
  <2>4. n \in DOMAIN here /\ Current = here[n] /\ Current.kind = KindOf(kind)
    BY <1>0, <1>5, <2>2, DefineFacts DEF Defines, Current
  <2>5. Defs(P)' = here
    BY <1>1, <2>2, <2>3
  <2>6. KindsOf(defn) = kind
    BY <2>3 DEF KindsOf, KindOf, Kinds
  <2>7. /\ DOMAIN defn.refs = Current.refs
        /\ \A q \in DOMAIN defn.refs : defn.refs[q] = Lookup(programs[P].scope[kind], q)
    BY <2>2, <2>3 DEF Bound
  <2>8. ASSUME NEW q \in DOMAIN defn.refs, NEW o, o = defn.refs[q] PROVE RefMeans(P, n, kind, q, o)'
    <3>1. CASE o = NULL
      <4>1. kind = "types"
        <5>1. kind = "consts" => \A r \in Current.refs : Bound("consts")[r] # NULL
          BY <1>5 DEF Defines, Accepts
        <5> QED BY <2>3, <2>7, <2>8, <3>1, <5>1 DEF Kinds
      <4> QED BY <3>1, <4>1 DEF RefMeans
    <3>2. CASE o # NULL
      <4>1. q \in DOMAIN programs[P].scope[kind] /\ o = programs[P].scope[kind][q]
        BY <2>7, <2>8, <3>2 DEF Lookup
      <4>2. Means(P, kind, q, o)
        BY <1>0, <2>3, <4>1 DEF ScopesMean
      <4>3. IsPlace(kind, q, o) /\ IsPlace(kind, q, o)'
        BY <4>2, PlaceStays DEF Means
      <4>4. CASE q[1] = NULL
        <5>1. o[1] = P
          BY <4>2, <4>4 DEF Means
        <5>2. o[2] \in 1..n - 1
          BY <2>3, <4>3, <5>1 DEF IsPlace
        <5>3. o[2] < n
          BY <2>3, <5>2
        <5> QED BY <3>2, <4>3, <4>4, <5>1, <5>3 DEF RefMeans
      <4>5. CASE q[1] # NULL
        <5>1. PICK f : f = Path(P) /\ IsImport(f, q, o)
          BY <4>2, <4>5 DEF Means
        <5>2. IsImport(f, q, o)'
          BY <4>3, <5>1, ImportStays
        <5>3. Path(P)' = f
          BY <1>0, <2>3, <5>1, PathFacts DEF Path
        <5>4. IsImport(Path(P), q, o)'
          BY <5>2, <5>3 DEF IsImport
        <5> QED BY <3>2, <4>3, <4>5, <5>4 DEF RefMeans
      <4> QED BY <4>4, <4>5
    <3> QED BY <3>1, <3>2
  <2>9. DefMeans(P, n, defn)'
    <3>1. PICK k : k = KindsOf(defn)
      OBVIOUS
    <3>2. KindsOf(defn)' = k
      BY <3>1 DEF KindsOf
    <3>3. \A q \in DOMAIN defn.refs : RefMeans(P, n, KindsOf(defn), q, defn.refs[q])'
      BY <2>6, <2>8, <3>1, <3>2
    <3>4. defn.name = here[n].name /\ defn.kind = here[n].kind /\ DOMAIN defn.refs = here[n].refs
      BY <2>3, <2>4, <2>7
    <3> QED BY <2>5, <3>3, <3>4 DEF DefMeans
  <2>10. ASSUME NEW j \in 1..n PROVE DefMeans(P, j, programs[P].defs[j])'
    <3>1. CASE j = n
      BY <2>2, <2>9, <3>1
    <3>2. CASE j # n
      <4>1. j \in 1..n - 1
        BY <2>3, <3>2
      <4>2. PICK d : d = programs[P].defs[j]
        OBVIOUS
      <4>3. DefMeans(P, j, d)
        BY <1>0, <2>3, <4>1, <4>2 DEF DefsMean
      <4>4. DefMeans(P, j, d)'
        BY <2>3, <4>3, DefMeansStays
      <4> QED BY <2>3, <4>1, <4>2, <4>4
    <3> QED BY <3>1, <3>2
  <2>11. 1..n \subseteq DOMAIN Defs(P)'
    <3>1. DOMAIN programs[P].defs \subseteq DOMAIN here
      BY <1>0, <2>2, <2>3 DEF DefsMean
    <3>2. \A j \in 1..n : j = n \/ j \in 1..n - 1
      BY <2>3
    <3> QED BY <2>3, <2>4, <2>5, <3>1, <3>2
  <2>12. ASSUME NEW p \in Progs
         PROVE  /\ DOMAIN programs'[p].defs \subseteq DOMAIN Defs(p)'
                /\ \A j \in DOMAIN programs'[p].defs : DefMeans(p, j, programs[p].defs[j])'
    <3>1. CASE p = P
      BY <2>3, <2>10, <2>11, <3>1
    <3>2. CASE p # P
      BY <1>2, <2>1, <2>2, <3>2
    <3> QED BY <3>1, <3>2
  <2> QED BY <2>1, <2>12 DEF DefsMean
<1>6. CASE UNCHANGED programs
  BY <1>2, <1>6 DEF DefsMean, Progs
<1> QED BY <1>0, <1>3, <1>4, <1>5, <1>6, Steps DEF Kinds, Recurse, SaveScope, Return, AuditGoesOn, Leaves, Stays

LEMMA NamesInit ==
  ASSUME Init
  PROVE  NamesInv
<1>1. ASSUME NEW p \in Progs
      PROVE  programs[p].defs = <<>> /\ \A kind \in Kinds : DOMAIN programs[p].scope[kind] = {}
  <2>1. \E f : \E s : programs[p] = NewProgram(f, s)
    <3>1. CASE request.audit
      <4>1. programs = <<NewProgram(project.root["new"], "new"), NewProgram(project.root["old"], "old")>>
        BY <3>1 DEF Init
      <4>2. p \in {1, 2}
        BY <4>1 DEF Progs
      <4> QED BY <4>1, <4>2
    <3>2. CASE ~ request.audit
      <4>1. programs = <<NewProgram(project.root["new"], "new")>>
        BY <3>2 DEF Init
      <4>2. p = 1
        BY <4>1 DEF Progs
      <4> QED BY <4>1, <4>2
    <3> QED BY <3>1, <3>2
  <2> QED BY <2>1, NewProgramFacts
<1>2. Known = {}
  BY DEF Init, Known
<1>3. ScopesMean
  BY <1>1 DEF ScopesMean
<1>4. SavedMean
  BY <1>2 DEF SavedMean
<1>5. DefsMean
  BY <1>1 DEF DefsMean
<1> QED BY <1>3, <1>4, <1>5 DEF NamesInv

LEMMA NamesNext ==
  ASSUME CoreInv, NamesInv, [Next]_vars
  PROVE  NamesInv'
BY ScopesMeanNext, SavedMeanNext, DefsMeanNext DEF NamesInv

LEMMA NamesHold == Spec => []NamesInv
<1>1. Init => NamesInv
  BY NamesInit
<1>2. CoreInv /\ NamesInv /\ [Next]_vars => NamesInv'
  BY NamesNext
<1> QED BY <1>1, <1>2, CoreHolds, PTL DEF Spec

\* Where a name q of a definition of p was found: at o.
RefDenotes(p, q, o) ==
  /\ Denotes(Path(p), q, Path(o[1]))
  /\ q[1] = NULL => o[1] = p
  /\ project.defs[Path(o[1])][o[2]].name = q[2]

\* A reference that was bound was bound to such a place.
LEMMA BoundNameDenotes ==
  ASSUME DefsMean, NEW p \in Progs, NEW i \in DOMAIN programs[p].defs, NEW defn,
         defn = programs[p].defs[i], NEW q \in DOMAIN defn.refs, NEW o, o = defn.refs[q],
         o # NULL
  PROVE  RefDenotes(p, q, o)
<1>1. DefMeans(p, i, defn)
  BY DEF DefsMean
<1>2. PICK kind : RefMeans(p, i, kind, q, o)
  BY <1>1 DEF DefMeans
<1>3. IsPlace(kind, q, o) /\ IF q[1] = NULL THEN o[1] = p ELSE IsImport(Path(p), q, o)
  BY <1>2, Zenon DEF RefMeans
<1>4. PICK r, j : /\ r = o[1] /\ j = o[2] /\ r \in Progs /\ j \in DOMAIN programs[r].defs
                  /\ programs[r].defs[j].name = q[2]
  BY <1>3, Zenon DEF IsPlace
<1>5. DefMeans(r, j, programs[r].defs[j])
  BY <1>4, Zenon DEF DefsMean
<1>6. Defs(r)[j].name = q[2]
  BY <1>4, <1>5, Zenon DEF DefMeans
<1>7. project.defs[Path(o[1])][o[2]].name = q[2]
  BY <1>4, <1>6, Zenon DEF Defs
<1>8. Denotes(Path(p), q, Path(o[1])) /\ (q[1] = NULL => o[1] = p)
  BY <1>3, Zenon DEF Denotes, IsImport
<1> QED BY <1>7, <1>8, Zenon DEF RefDenotes

\* What a name of a definition was bound to is in the same file, or in one that the file
\* includes and that has the name's prefix, though scopes are copied from program to
\* program and filled in by the parse of what they include.
THEOREM NamesDenoteWhatIsIncluded == Spec => []NamesDenoteIncludes
<1>1. NamesInv => NamesDenoteIncludes
  <2> SUFFICES ASSUME NamesInv, NEW p \in Progs, NEW i \in DOMAIN programs[p].defs,
                      NEW q \in DOMAIN programs[p].defs[i].refs,
                      programs[p].defs[i].refs[q] # NULL
               PROVE  RefDenotes(p, q, programs[p].defs[i].refs[q])
    BY Zenon DEF NamesDenoteIncludes, Progs, RefDenotes
  <2>1. PICK defn, o : defn = programs[p].defs[i] /\ o = defn.refs[q]
    OBVIOUS
  <2>2. DefsMean /\ q \in DOMAIN defn.refs /\ o # NULL
    BY <2>1 DEF NamesInv
  <2>3. RefDenotes(p, q, o)
    BY <2>1, <2>2, BoundNameDenotes, Zenon
  <2> QED BY <2>1, <2>3, Zenon
<1> QED BY <1>1, NamesHold, PTL

\* In an audit the names of the new file denote what -Inew finds, unless the old file
\* has had the file scanned.
THEOREM NewNamesAreFromTheNewPath == Spec => []AuditSearchesNew
<1>1. ASSUME CoreInv, NamesInv, NEW p \in Progs, ~ (request.audit /\ Path(p) \in OldFiles),
             NEW kind \in Kinds, NEW q \in DOMAIN programs[p].scope[kind],
             NEW o, o = programs[p].scope[kind][q]
      PROVE  IF q[1] = NULL THEN Path(o[1]) = Path(p)
             ELSE /\ Path(o[1]) \in Range(project.includes["new"][Path(p)])
                  /\ q[1] = BaseName(Path(o[1]))
  <2>1. Means(p, kind, q, o)
    BY <1>1 DEF NamesInv, ScopesMean
  <2>2. Path(p) \in Files
    BY <1>1 DEF CoreInv, ShapeInv, IsProgram, Path
  <2>3. Seen[Path(p)] = project.includes["new"][Path(p)]
    BY <1>1, <2>2 DEF Seen
  <2> QED BY <2>1, <2>3 DEF Means, IsImport, IncludedBy
<1>2. CoreInv /\ NamesInv => AuditSearchesNew
  BY <1>1 DEF AuditSearchesNew, FoundWithNew, Progs, Kinds
<1> QED BY <1>2, CoreHolds, NamesHold, PTL

(****************************************************************************)
(* How the driver ends: it refuses a project only with a cause, takes none   *)
(* that has one, all programs of a file have the same scope in the end, and  *)
(* everything is generated once.                                             *)
(* Names are found where they are looked for, since a scope is complete: it  *)
(* has all that has been defined, and the saved scope of a file has every    *)
(* definition of the files that it includes.                                 *)
(****************************************************************************)

DefsOf(p, kind) == {j \in DOMAIN programs[p].defs : programs[p].defs[j].kind = KindOf(kind)}
Imports(p, c) == \E i \in DOMAIN programs[p].includes : c = programs[p].includes[i]

\* Scopes have all that has been defined.
HoldsOwn ==
  \A p \in Progs, kind \in Kinds : \A j \in DefsOf(p, kind) :
    <<NULL, programs[p].defs[j].name>> \in DOMAIN programs[p].scope[kind]
HoldsImports ==
  \A p \in Progs, c \in Progs, kind \in Kinds :
    Imports(p, c) =>
      \A j \in DefsOf(c, kind) :
        <<BaseName(programs[c].path), programs[c].defs[j].name>> \in DOMAIN programs[p].scope[kind]
SavedHolds ==
  \A f \in Known, kind \in Kinds : \A g \in IncludedBy(f) : \A j \in Places(KindOf(kind), g) :
    <<BaseName(g), project.defs[g][j].name>> \in DOMAIN program_to_scope[f][kind]

\* What has been defined was new.
OwnOnce ==
  \A p \in Progs, kind \in Kinds : \A i, j \in DefsOf(p, kind) :
    programs[p].defs[i].name = programs[p].defs[j].name => i = j
ConstsOnce ==
  \A p \in Progs, c \in Progs, d \in Progs :
    /\ Imports(p, c) /\ Imports(p, d) /\ c # d
    /\ BaseName(programs[c].path) = BaseName(programs[d].path)
    => \A i \in DefsOf(c, "consts"), j \in DefsOf(d, "consts") :
         programs[c].defs[i].name # programs[d].defs[j].name
TypesOnce ==
  \A p \in Progs, c \in Progs :
    Imports(p, c) /\ project.namespace[programs[p].path] = project.namespace[programs[c].path] =>
      \A i \in DefsOf(p, "types"), j \in DefsOf(c, "types") :
        programs[p].defs[i].name # programs[c].defs[j].name

\* No call is left for the program or for what it includes; the last of its definitions
\* may be missing yet.
Settled(p) ==
  phase = "parse" =>
    /\ side = "old" => p # 1
    /\ \A k \in DOMAIN stack : stack[k].pc # "types" => p # stack[k].prog /\ p \notin ToCall(k)
SameImports(names, saved) ==
  \A x \in DOMAIN names \cup DOMAIN saved :
    x[1] # NULL => x \in DOMAIN names /\ x \in DOMAIN saved /\ names[x] = saved[x]
IsAsSaved(p) ==
  /\ programs[p].path \in Known
  /\ \A kind \in Kinds : SameImports(programs[p].scope[kind], program_to_scope[programs[p].path][kind])
IsComplete(p) == DOMAIN programs[p].defs = DOMAIN Defs(p)
IsSettled(p) == IsAsSaved(p) /\ ((phase = "parse" /\ p = Top.prog) \/ IsComplete(p))
SettledInv == \A p \in Progs : Settled(p) => IsSettled(p)
FirstInv == \A f \in Known : \E p \in Progs : programs[p].path = f /\ Scanned(p) /\ Settled(p)

\* What is generated has been reached, and what has been generated has no dangling name.
GenerateInv ==
  /\ phase = "generate" => \A k \in DOMAIN stack : Path(stack[k].prog) \in Reached("new")
  /\ \A f \in generated_files : ~ HasDanglingName("type", f)

OutcomeInv ==
  /\ HoldsOwn /\ HoldsImports /\ SavedHolds
  /\ OwnOnce /\ ConstsOnce /\ TypesOnce
  /\ SettledInv /\ FirstInv /\ GenerateInv

(****************************************************************************)
(* What a step adds to definitions, includes, scopes and known files.        *)
(****************************************************************************)
LEMMA DefsGrow ==
  ASSUME CoreInv, [Next]_vars, NEW p \in Progs', NEW kind \in Kinds, NEW j, (j \in DefsOf(p, kind))'
  PROVE  \/ p \in Progs /\ j \in DefsOf(p, kind) /\ programs'[p].defs[j] = programs[p].defs[j]
         \/ Defines(kind) /\ p = Top.prog /\ j = Top.next
<1>0. ShapeInv /\ TreeInv
  BY DEF CoreInv
<1>1. j \in DOMAIN programs'[p].defs /\ programs'[p].defs[j].kind = KindOf(kind)
  BY DEF DefsOf
<1>2. CASE p \in Progs /\ programs'[p].defs = programs[p].defs
  BY <1>1, <1>2 DEF DefsOf
<1>3. CASE SkipRecursion
  BY <1>0, <1>2, <1>3, SkipFacts
<1>4. CASE ScanIncludes
  <2>1. CASE p \in Progs
    BY <1>0, <1>2, <1>4, <2>1, ScanFacts
  <2>2. CASE p \notin Progs
    <3>1. PICK i, c : i \in DOMAIN Found /\ c = Made(i) /\ p = c
      BY <1>0, <1>4, <2>2, ScanFacts
    <3>2. programs'[p].defs = <<>>
      BY <1>0, <1>4, <3>1, ScanFacts, NewProgramFacts
    <3> QED BY <1>1, <3>2
  <2> QED BY <2>1, <2>2
<1>5. ASSUME NEW k \in Kinds, Defines(k)
      PROVE  \/ p \in Progs /\ j \in DefsOf(p, kind) /\ programs'[p].defs[j] = programs[p].defs[j]
             \/ Defines(kind) /\ p = Top.prog /\ j = Top.next
  <2>1. Progs' = Progs /\ (p # Top.prog => programs'[p].defs = programs[p].defs)
    BY <1>0, <1>5, DefineFacts
  <2>2. CASE p # Top.prog
    BY <1>2, <2>1, <2>2
  <2>3. CASE p = Top.prog
    <3>1. /\ Top.next \in Nat \ {0}
          /\ DOMAIN programs[p].defs = 1..Top.next - 1
          /\ DOMAIN programs'[p].defs = 1..Top.next
          /\ \A i \in 1..Top.next - 1 : programs'[p].defs[i] = programs[p].defs[i]
          /\ programs'[p].defs[Top.next].kind = KindOf(k)
      BY <1>5, <2>3, DefinedFacts
    <3>2. CASE j = Top.next
      <4>1. KindOf(k) = KindOf(kind)
        BY <1>1, <3>1, <3>2
      <4>2. k = kind
        BY <4>1 DEF KindOf, Kinds
      <4> QED BY <1>5, <2>3, <3>2, <4>2
    <3>3. CASE j # Top.next
      <4>1. j \in 1..Top.next - 1
        BY <1>1, <3>1, <3>3
      <4> QED BY <1>1, <2>1, <3>1, <4>1 DEF DefsOf
    <3> QED BY <3>2, <3>3
  <2> QED BY <2>2, <2>3
<1>6. CASE UNCHANGED programs
  BY <1>2, <1>6 DEF Progs
<1> QED BY <1>0, <1>3, <1>4, <1>5, <1>6, Steps DEF Kinds, Recurse, SaveScope, Return, AuditGoesOn, Leaves, Stays

LEMMA ImportsGrow ==
  ASSUME CoreInv, [Next]_vars, NEW p \in Progs', NEW c, Imports(p, c)'
  PROVE  \/ p \in Progs /\ c \in Progs /\ Imports(p, c)
         \/ /\ p \in Progs /\ c \in Progs' /\ c \notin Progs
            /\ programs'[p].defs = <<>> /\ programs'[c].defs = <<>>
            /\ \A kind \in Kinds : DOMAIN programs'[c].scope[kind] = {}
<1>0. ShapeInv /\ TreeInv
  BY DEF CoreInv
<1>1. PICK i \in DOMAIN programs'[p].includes : c = programs'[p].includes[i]
  BY DEF Imports
<1>2. CASE p \in Progs /\ programs'[p].includes = programs[p].includes
  BY <1>0, <1>1, <1>2 DEF Imports, TreeInv
<1>3. CASE ScanIncludes
  <2>1. Top.pc = "begin" /\ phase = "parse" /\ stack # <<>> /\ Top.prog \in Progs
    BY <1>0, <1>3, ScanFacts, TopFacts
  <2>2. CASE p = Top.prog
    <3>1. PICK d : d = Made(i)
      OBVIOUS
    <3>2. i \in DOMAIN Found /\ c = d
      BY <1>0, <1>1, <1>3, <2>2, <3>1, ScanFacts
    <3>3. c \in Progs' /\ c \notin Progs /\ programs'[c] = NewProgram(Found[i], side)
      BY <1>0, <1>3, <3>1, <3>2, ScanFacts
    <3>4. programs'[c].defs = <<>> /\ \A kind \in Kinds : DOMAIN programs'[c].scope[kind] = {}
      BY <3>3, NewProgramFacts
    <3>5. programs'[p].defs = programs[p].defs
      BY <1>0, <1>3, <2>2, ScanFacts
    <3>6. programs[p].defs = <<>>
      BY <2>1, <2>2 DEF CoreInv, FreshInv, Fresh
    <3> QED BY <2>1, <2>2, <3>3, <3>4, <3>5, <3>6
  <2>3. CASE p \in Progs /\ p # Top.prog
    BY <1>0, <1>2, <1>3, <2>3, ScanFacts
  <2>4. CASE p \notin Progs
    <3>1. PICK k, d : k \in DOMAIN Found /\ d = Made(k) /\ p = d
      BY <1>0, <1>3, <2>4, ScanFacts
    <3>2. programs'[p].includes = <<>>
      BY <1>0, <1>3, <3>1, ScanFacts, NewProgramFacts
    <3> QED BY <1>1, <3>2
  <2> QED BY <2>2, <2>3, <2>4
<1>4. CASE SkipRecursion
  BY <1>0, <1>2, <1>4, SkipFacts
<1>5. ASSUME NEW k \in Kinds, Defines(k) PROVE p \in Progs /\ programs'[p].includes = programs[p].includes
  BY <1>0, <1>5, DefineFacts
<1>6. CASE UNCHANGED programs
  BY <1>2, <1>6 DEF Progs
<1> QED BY <1>0, <1>2, <1>3, <1>4, <1>5, <1>6, Steps DEF Kinds, Recurse, SaveScope, Return, AuditGoesOn, Leaves, Stays

LEMMA DefinedScope ==
  ASSUME ShapeInv, NEW kind \in Kinds, Defines(kind), NEW p \in Progs, NEW names, names = programs[p].scope[kind]
  PROVE  /\ p = Top.prog => programs'[p].scope[kind] = WithCurrent(names, NULL)
         /\ p # Top.prog /\ p = Top.parent => programs'[p].scope[kind] = WithCurrent(names, Prefix)
         /\ p # Top.prog /\ p # Top.parent => programs'[p].scope[kind] = names
         /\ \A k \in Kinds : k # kind => programs'[p].scope[k] = programs[p].scope[k]
<1>1. \A k \in Kinds :
        programs'[p].scope[k] = 
          IF k # kind THEN programs[p].scope[k]
          ELSE IF p = Top.prog THEN WithCurrent(programs[p].scope[k], NULL)
          ELSE IF p = Top.parent THEN WithCurrent(programs[p].scope[k], Prefix)
          ELSE programs[p].scope[k]
  BY Zenon, DefineFacts
<1> QED BY <1>1

LEMMA ScopesGrow ==
  ASSUME CoreInv, [Next]_vars, NEW p \in Progs, NEW kind \in Kinds, NEW x \in DOMAIN programs[p].scope[kind]
  PROVE  x \in DOMAIN programs'[p].scope[kind]
<1>0. ShapeInv /\ TreeInv
  BY DEF CoreInv
<1>1. CASE SkipRecursion
  <2>1. Top.pc = "begin" /\ phase = "parse" /\ stack # <<>>
    BY <1>0, <1>1, SkipFacts
  <2>2. p # Top.prog
    BY <2>1 DEF CoreInv, FreshInv, Fresh
  <2> QED BY <1>0, <1>1, <2>2, SkipFacts
<1>2. CASE ScanIncludes
  <2>1. programs'[p].scope = programs[p].scope
    BY <1>0, <1>2, ScanFacts
  <2> QED BY <2>1
<1>3. ASSUME NEW k \in Kinds, Defines(k) PROVE x \in DOMAIN programs'[p].scope[kind]
  <2>1. PICK names : names = programs[p].scope[kind]
    OBVIOUS
  <2>2. ASSUME NEW prefix PROVE x \in DOMAIN WithCurrent(names, prefix)
    BY <2>1 DEF WithCurrent, With
  <2>3. \/ programs'[p].scope[kind] = names
        \/ programs'[p].scope[kind] = WithCurrent(names, NULL)
        \/ programs'[p].scope[kind] = WithCurrent(names, Prefix)
    <3>1. CASE kind = k
      BY <1>0, <1>3, <2>1, <3>1, DefinedScope
    <3>2. CASE kind # k
      BY <1>0, <1>3, <2>1, <3>2, DefinedScope
    <3> QED BY <3>1, <3>2
  <2>4. x \in DOMAIN WithCurrent(names, Prefix)
    <3>1. PICK prefix : prefix = Prefix
      OBVIOUS
    <3> QED BY <2>2, <3>1
  <2> QED BY <2>1, <2>2, <2>3, <2>4
<1>4. CASE UNCHANGED programs
  BY <1>4
<1> QED BY <1>0, <1>1, <1>2, <1>3, <1>4, Steps DEF Kinds, Recurse, SaveScope, Return, AuditGoesOn, Leaves, Stays

LEMMA KnownGrows ==
  ASSUME CoreInv, [Next]_vars, NEW f \in Known'
  PROVE  \/ f \in Known /\ program_to_scope'[f] = program_to_scope[f]
         \/ /\ SaveScope /\ f = Path(Top.prog)
            /\ program_to_scope'[f] = programs[Top.prog].scope
<1>0. ShapeInv
  BY DEF CoreInv
<1>1. CASE SaveScope
  BY <1>0, <1>1, SaveFacts
<1>2. CASE UNCHANGED program_to_scope
  BY <1>2 DEF Known
<1>3. ASSUME NEW k \in Kinds, Defines(k) PROVE UNCHANGED program_to_scope
  BY <1>0, <1>3, DefineFacts
<1> QED BY <1>0, <1>1, <1>2, <1>3, Steps, SkipFacts, ScanFacts, ReturnFacts DEF Kinds, Recurse, AuditGoesOn, Leaves, Stays

LEMMA KnownStays ==
  ASSUME CoreInv, [Next]_vars, NEW f \in Known
  PROVE  f \in Known' /\ program_to_scope'[f] = program_to_scope[f]
<1>0. ShapeInv
  BY DEF CoreInv
<1>1. CASE SaveScope
  <2>1. Top.pc = "includes" /\ phase = "parse" /\ stack # <<>> /\ 1 \in DOMAIN stack
    BY <1>0, <1>1, SaveFacts, TopFacts
  <2>2. Path(Top.prog) \notin Known
    BY <2>1 DEF CoreInv, KnownInv, Top
  <2> QED BY <1>0, <1>1, <2>2, SaveFacts
<1>2. CASE UNCHANGED program_to_scope
  BY <1>2 DEF Known
<1>3. ASSUME NEW k \in Kinds, Defines(k) PROVE UNCHANGED program_to_scope
  BY <1>0, <1>3, DefineFacts
<1> QED BY <1>0, <1>1, <1>2, <1>3, Steps, SkipFacts, ScanFacts, ReturnFacts DEF Kinds, Recurse, AuditGoesOn, Leaves, Stays

\* A definition gets into the scope of its program and into that of the one that includes
\* it, which has none of its own yet.
LEMMA DefinedNames ==
  ASSUME CoreInv, NEW kind \in Kinds, Defines(kind), NEW p \in Progs
  PROVE  /\ p = Top.prog => <<NULL, Current.name>> \in DOMAIN programs'[p].scope[kind]
         /\ Imports(p, Top.prog) =>
              /\ p = Top.parent /\ p # Top.prog /\ programs[p].defs = <<>> /\ Top.parent # NULL
              /\ Path(p) \in Reached(side)
              /\ <<Prefix, Current.name>> \in DOMAIN programs'[p].scope[kind]
<1>0. ShapeInv /\ TreeInv /\ StackInv /\ phase = "parse" /\ stack # <<>>
  BY DefineFacts DEF CoreInv
<1>1. PICK names, prefix : names = programs[p].scope[kind] /\ prefix = Prefix
  OBVIOUS
<1>2. \A x : <<x, Current.name>> \in DOMAIN WithCurrent(names, x)
  BY DEF WithCurrent, With
<1>3. ASSUME Imports(p, Top.prog)
      PROVE  /\ p = Top.parent /\ p # Top.prog /\ programs[p].defs = <<>> /\ Top.parent # NULL
             /\ Path(p) \in Reached(side)
  <2>1. PICK i \in DOMAIN programs[p].includes : Top.prog = programs[p].includes[i]
    BY <1>3 DEF Imports
  <2>2. Top.prog > Roots
    BY <1>0, <2>1 DEF TreeInv
  <2>3. Len(stack) # 1
    <3>1. SUFFICES ASSUME Len(stack) = 1 PROVE FALSE
      OBVIOUS
    <3>2. Top.prog = RootProg
      BY <1>0, <3>1 DEF StackInv, Top
    <3>3. RootProg <= Roots
      BY <1>0 DEF RootProg, Roots, ShapeInv
    <3> QED BY <2>2, <3>2, <3>3 DEF RootProg, Roots
  <2>4. PICK q, j : /\ 2 \in DOMAIN stack /\ q = Top.parent /\ q = stack[2].prog /\ stack[2].pc = "includes"
                    /\ q \in Progs /\ q # Top.prog /\ j \in DOMAIN programs[q].includes
                    /\ Top.prog = programs[q].includes[j]
    BY <1>0, <2>3, ParentFacts
  <2>5. p = q
    <3>1. programs[p].includes[i] = programs[q].includes[j]
      BY <2>1, <2>4
    <3> QED BY <1>0, <2>1, <2>4, <3>1, TreeIsTree DEF IsTree
  <2>6. programs[q].defs = <<>> /\ Path(q) \in Reached(side)
    BY <1>0, <2>4 DEF CoreInv, FreshInv, ChainInv
  <2>7. NULL \notin Progs
    BY <1>0, IncludesAssumption DEF Progs, ShapeInv, IsSequence
  <2> QED BY <2>4, <2>5, <2>6, <2>7
<1>4. CASE p = Top.prog
  <2>1. programs'[p].scope[kind] = WithCurrent(names, NULL)
    BY <1>0, <1>1, <1>4, DefinedScope
  <2> QED BY <1>2, <1>3, <1>4, <2>1
<1>5. CASE p # Top.prog /\ p = Top.parent
  <2>1. programs'[p].scope[kind] = WithCurrent(names, prefix)
    BY <1>0, <1>1, <1>5, DefinedScope
  <2>2. <<prefix, Current.name>> \in DOMAIN programs'[p].scope[kind]
    BY <1>2, <2>1
  <2> QED BY <1>1, <1>3, <1>5, <2>2
<1> QED BY <1>3, <1>4, <1>5

(****************************************************************************)
(* Scopes have all that has been defined.                                    *)
(****************************************************************************)
LEMMA HoldsOwnNext ==
  ASSUME CoreInv, HoldsOwn, [Next]_vars
  PROVE  HoldsOwn'
<1>1. ASSUME NEW p \in Progs', NEW kind \in Kinds, NEW j, (j \in DefsOf(p, kind))'
      PROVE  <<NULL, programs'[p].defs[j].name>> \in DOMAIN programs'[p].scope[kind]
  <2>1. CASE p \in Progs /\ j \in DefsOf(p, kind) /\ programs'[p].defs[j] = programs[p].defs[j]
    <3>1. PICK x : x = <<NULL, programs[p].defs[j].name>> /\ x \in DOMAIN programs[p].scope[kind]
      BY <1>1, <2>1 DEF HoldsOwn
    <3>2. x \in DOMAIN programs'[p].scope[kind]
      BY <1>1, <2>1, <3>1, ScopesGrow
    <3> QED BY <2>1, <3>1, <3>2
  <2>2. CASE Defines(kind) /\ p = Top.prog /\ j = Top.next
    <3>1. p \in Progs /\ programs'[p].defs[j].name = Current.name
      BY <1>1, <2>2, DefinedFacts
    <3> QED BY <1>1, <2>2, <3>1, DefinedNames
  <2> QED BY <1>1, <2>1, <2>2, DefsGrow
<1> QED BY <1>1 DEF HoldsOwn, DefsOf

HoldsOf(p, c, kind, j) ==
  <<project.base[programs[c].path], programs[c].defs[j].name>> \in DOMAIN programs[p].scope[kind]

LEMMA HoldsImportsNext ==
  ASSUME CoreInv, HoldsImports, [Next]_vars
  PROVE  HoldsImports'
<1>0. ShapeInv
  BY DEF CoreInv
<1>1. ASSUME NEW p \in Progs', NEW c \in Progs', Imports(p, c)', NEW kind \in Kinds, NEW j, (j \in DefsOf(c, kind))'
      PROVE  HoldsOf(p, c, kind, j)'
  <2>1. p \in Progs /\ c \in Progs /\ Imports(p, c)
    BY <1>1, ImportsGrow DEF DefsOf
  <2>2. programs'[c].path = programs[c].path /\ project' = project
    BY <1>0, <2>1, PathFacts, Rigid
  <2>3. CASE j \in DefsOf(c, kind) /\ programs'[c].defs[j] = programs[c].defs[j]
    <3>1. PICK x : x = <<project.base[programs[c].path], programs[c].defs[j].name>>
      OBVIOUS
    <3>2. x \in DOMAIN programs[p].scope[kind]
      BY <2>1, <2>3, <3>1 DEF HoldsImports, BaseName
    <3>3. x \in DOMAIN programs'[p].scope[kind]
      BY <2>1, <3>2, ScopesGrow
    <3> QED BY <2>2, <2>3, <3>1, <3>3 DEF HoldsOf
  <2>4. CASE Defines(kind) /\ c = Top.prog /\ j = Top.next
    <3>1. programs'[c].defs[j].name = Current.name
      BY <2>4, DefinedFacts
    <3>2. PICK x : x = <<Prefix, Current.name>>
      OBVIOUS
    <3>3. x \in DOMAIN programs'[p].scope[kind]
      BY <2>1, <2>4, <3>2, DefinedNames
    <3>4. Prefix = project.base[programs[c].path]
      BY <2>4 DEF Prefix, BaseName, Path
    <3> QED BY <2>2, <3>1, <3>2, <3>3, <3>4 DEF HoldsOf
  <2> QED BY <1>1, <2>1, <2>3, <2>4, DefsGrow
<1> QED BY <1>1 DEF HoldsImports, HoldsOf, BaseName, DefsOf

LEMMA ImportsFacts ==
  ASSUME CoreInv, NEW p \in Progs, NEW c, Imports(p, c)
  PROVE  /\ c \in Progs /\ c > p /\ c > Roots /\ Scanned(p)
         /\ programs[p].path \in Files /\ programs[c].path \in IncludedBy(programs[p].path)
         /\ \A q \in Progs : Imports(q, c) => q = p
<1>0. ShapeInv /\ TreeInv
  BY DEF CoreInv
<1>1. PICK i \in DOMAIN programs[p].includes : c = programs[p].includes[i]
  BY DEF Imports
<1>2. /\ c \in Progs /\ c > p /\ c > Roots /\ Scanned(p)
      /\ programs[c].path = Seen[programs[p].path][i] /\ programs[p].path \in Files
  BY <1>0, <1>1 DEF TreeInv, Path, ShapeInv, IsProgram
<1>3. i \in DOMAIN Seen[programs[p].path]
  BY <1>1, <1>2 DEF Scanned, Path
<1>4. programs[c].path \in IncludedBy(programs[p].path)
  BY <1>0, <1>2, <1>3, SeenFacts
<1>5. ASSUME NEW q \in Progs, Imports(q, c) PROVE q = p
  <2>1. PICK j \in DOMAIN programs[q].includes : c = programs[q].includes[j]
    BY <1>5 DEF Imports
  <2>2. programs[p].includes[i] = programs[q].includes[j]
    BY <1>1, <2>1
  <2> QED BY <1>0, <1>1, <2>1, <2>2, TreeIsTree DEF IsTree
<1> QED BY <1>2, <1>4, <1>5

(****************************************************************************)
(* Which programs are settled.                                               *)
(****************************************************************************)
Pending(p, k) == stack[k].pc # "types" /\ (p = stack[k].prog \/ p \in ToCall(k))
NonePending(p) == phase = "parse" => (side = "old" => p # 1) /\ \A k \in DOMAIN stack : ~ Pending(p, k)

LEMMA SettledIsNonePending ==
  ASSUME NEW p
  PROVE  Settled(p) <=> NonePending(p)
BY DEF Settled, NonePending, Pending

LEMMA ToCallStays ==
  ASSUME NEW k, NEW m, stack'[m].prog = stack[k].prog, stack'[m].next = stack[k].next,
         NEW p, p = stack[k].prog, programs'[p].includes = programs[p].includes
  PROVE  ToCall(m)' = ToCall(k)
BY DEF ToCall

LEMMA NothingToCall ==
  ASSUME NEW k, NEW p, p = stack[k].prog, programs[p].includes = <<>>
  PROVE  ToCall(k) = {}
BY DEF ToCall

LEMMA LowerPrograms ==
  ASSUME ShapeInv, StackInv, phase = "parse", NEW k \in DOMAIN stack, NEW j \in DOMAIN stack, j < k
  PROVE  stack[j].prog \in Progs /\ stack[k].prog \in Progs /\ stack[j].prog # stack[k].prog
<1>1. stack[j].prog > stack[k].prog
  BY DEF StackInv
<1>2. stack[j].prog \in Progs /\ stack[k].prog \in Progs
  BY DEF ShapeInv
<1>3. Progs \subseteq Int
  BY DEF ShapeInv, IsSequence, Progs
<1>4. PICK a, b : a = stack[j].prog /\ b = stack[k].prog
  OBVIOUS
<1>5. a > b /\ a \in Int /\ b \in Int
  BY <1>1, <1>2, <1>3, <1>4
<1>6. a # b
  BY <1>5
<1> QED BY <1>2, <1>4, <1>6

\* A call on top of the stack is none that another one waits for.
LEMMA TopIsNotPending ==
  ASSUME CoreInv, phase = "parse"
  PROVE  /\ \A k \in DOMAIN stack : k # 1 => ~ Pending(Top.prog, k)
         /\ side = "old" => Top.prog # 1
<1>0. ShapeInv /\ TreeInv /\ StackInv /\ stack # <<>>
  BY DEF CoreInv, StackInv
<1>1. Len(stack) \in Nat \ {0} /\ 1 \in DOMAIN stack /\ DOMAIN stack = 1..Len(stack)
  BY <1>0, TopFacts
<1>2. ASSUME NEW k \in DOMAIN stack, k # 1 PROVE ~ Pending(Top.prog, k)
  <2>1. 1 < k
    BY <1>1, <1>2
  <2>4. stack[1].prog # stack[k].prog
    BY <1>0, <1>1, <2>1, LowerPrograms
  <2>5. stack[1].prog \notin ToCall(k)
    BY <1>0, <1>1, CalledAreNotToCall
  <2> QED BY <2>4, <2>5 DEF Pending, Top
<1>3. side = "old" => Top.prog # 1
  BY <1>0, <1>1, NewFileIsNotCalled DEF Top
<1> QED BY <1>2, <1>3

\* The calls below the top are as they were.
LEMMA LowerCallsStay ==
  ASSUME CoreInv, [Next]_vars, SameCalls, NEW k \in DOMAIN stack, k # 1, NEW p,
         \A q \in Progs : q # Top.prog => programs'[q].includes = programs[q].includes
  PROVE  Pending(p, k)' <=> Pending(p, k)
<1>0. ShapeInv /\ StackInv /\ phase = "parse" /\ 1 \in DOMAIN stack /\ DOMAIN stack = 1..Len(stack)
  BY DEF CoreInv, SameCalls, Parsing
<1>1. PICK q : q = stack[k].prog
  OBVIOUS
<1>2. q \in Progs /\ q # Top.prog
  <2>1. 1 < k
    BY <1>0
  <2> QED BY <1>0, <1>1, <2>1, LowerPrograms DEF Top
<1>3. stack'[k] = stack[k] /\ programs'[q].includes = programs[q].includes
  BY <1>2 DEF SameCalls
<1>4. ToCall(k)' = ToCall(k)
  BY <1>1, <1>3, ToCallStays
<1> QED BY <1>3, <1>4 DEF Pending

\* The top has nothing left to call, and goes on with its definitions.
LEMMA TopSettles ==
  ASSUME CoreInv, [Next]_vars, SameCalls, NEW p \in Progs, stack'[1].pc = "types",
         \A q \in Progs : q # Top.prog => programs'[q].includes = programs[q].includes,
         Top.pc = "types" \/ ToCall(1) = {}
  PROVE  Settled(p)' <=> Settled(p) \/ p = Top.prog
<1>0. /\ phase = "parse" /\ phase' = phase /\ side' = side
      /\ DOMAIN stack' = DOMAIN stack
  BY DEF SameCalls, Parsing
<1>1. \A k \in DOMAIN stack : k # 1 => (Pending(p, k)' <=> Pending(p, k))
  BY LowerCallsStay
<1>2. ~ Pending(p, 1)'
  BY DEF Pending
<1>3. Pending(p, 1) => p = Top.prog
  BY DEF Pending, Top
<1>4. NonePending(p)' <=> (side = "old" => p # 1) /\ \A k \in DOMAIN stack : ~ Pending(p, k)'
  BY <1>0 DEF NonePending
<1>5. NonePending(p)' <=> NonePending(p) \/ p = Top.prog
  <2>1. CASE p = Top.prog
    BY <1>0, <1>1, <1>2, <1>4, <2>1, TopIsNotPending
  <2>2. CASE p # Top.prog
    BY <1>0, <1>1, <1>2, <1>3, <1>4, <2>2 DEF NonePending
  <2> QED BY <2>1, <2>2
<1>6. Settled(p)' <=> NonePending(p)'
  BY DEF Settled, NonePending, Pending
<1> QED BY <1>5, <1>6, SettledIsNonePending

Settles == SkipRecursion \/ SaveScope

LEMMA SettledSteps ==
  ASSUME CoreInv, [Next]_vars, NEW p \in Progs'
  PROVE  Settled(p)' <=> p \in Progs /\ (Settled(p) \/ (Settles /\ p = Top.prog))
<1>0. ShapeInv /\ TreeInv /\ StackInv /\ FreshInv
  BY DEF CoreInv
<1>1. Settled(p)' <=> NonePending(p)'
  BY DEF Settled, NonePending, Pending
<1>2. Settled(p) <=> NonePending(p)
  BY SettledIsNonePending
<1>3. SkipRecursion \/ ScanIncludes \/ SaveScope \/ Defines("types") \/ Defines("consts") => SameCalls
  BY <1>0, CallsFacts
<1>4. CASE SkipRecursion
  <2>1. /\ Progs' = Progs /\ SameCalls /\ stack'[1].pc = "types" /\ stack # <<>> /\ phase = "parse" /\ Top.pc = "begin"
        /\ \A q \in Progs : programs'[q].includes = programs[q].includes
    BY <1>0, <1>3, <1>4, SkipFacts
  <2>2. programs[Top.prog].includes = <<>>
    BY <1>0, <2>1 DEF FreshInv, Fresh
  <2>3. ToCall(1) = {}
    BY <2>2, NothingToCall DEF Top
  <2> QED BY <1>4, <2>1, <2>3, TopSettles DEF Settles
<1>5. CASE SaveScope
  <2>1. /\ UNCHANGED programs /\ SameCalls /\ stack'[1].pc = "types" /\ stack # <<>> /\ phase = "parse"
        /\ Top.next \notin DOMAIN programs[Top.prog].includes
    BY <1>0, <1>3, <1>5, SaveFacts
  <2>2. PICK P, n : P = Top.prog /\ n = Top.next /\ P \in Progs /\ n \in Nat \ {0}
    BY <1>0, <2>1, TopFacts DEF Frame
  <2>3. IsSequence(programs[P].includes)
    BY <1>0, <2>2 DEF ShapeInv, IsProgram
  <2>4. PICK m : m = Len(programs[P].includes) /\ m \in Nat /\ DOMAIN programs[P].includes = 1..m
    BY <2>3 DEF IsSequence
  <2>5. n > m
    BY <2>1, <2>2, <2>4
  <2>6. {j \in DOMAIN programs[P].includes : j >= n} = {}
    BY <2>2, <2>4, <2>5
  <2>7. ToCall(1) = {}
    BY <2>2, <2>6 DEF ToCall, Top
  <2>8. Progs' = Progs
    BY <2>1 DEF Progs
  <2> QED BY <1>5, <2>1, <2>7, <2>8, TopSettles DEF Settles
<1>6. ASSUME NEW kind \in Kinds, Defines(kind)
      PROVE  Settled(p)' <=> p \in Progs /\ (Settled(p) \/ (Settles /\ p = Top.prog))
  <2>1. /\ Progs' = Progs /\ stack'[1].pc = "types" /\ Top.pc = "types" /\ phase = "parse"
        /\ \A q \in Progs : programs'[q].includes = programs[q].includes
    BY <1>0, <1>6, DefineFacts
  <2>2. SameCalls
    BY <1>3, <1>6 DEF Kinds
  <2>3. Settled(p)' <=> Settled(p) \/ p = Top.prog
    BY <2>1, <2>2, TopSettles
  <2>4. p = Top.prog => NonePending(p)
    <3>1. ~ Pending(p, 1)
      BY <2>1 DEF Pending, Top
    <3> QED BY <2>1, <3>1, TopIsNotPending DEF NonePending
  <2> QED BY <1>2, <2>1, <2>3, <2>4
<1>7. CASE ScanIncludes
  <2>1. /\ SameCalls /\ stack'[1].pc = "includes" /\ stack'[1].prog = Top.prog /\ Top.next = 1 /\ stack'[1].next = Top.next
        /\ stack # <<>> /\ phase = "parse" /\ Top.pc = "begin"
        /\ phase' = phase /\ side' = side /\ DOMAIN stack' = DOMAIN stack /\ 1 \in DOMAIN stack
    BY SMTT(40), <1>0, <1>3, <1>7, ScanFacts DEF FreshInv, SameCalls, Parsing
  <2>2. ~ Settles
    BY <2>1, <1>7 DEF Settles, SkipRecursion, SaveScope, ScanIncludes, At
  <2>3. PICK P : P = Top.prog /\ P = stack[1].prog /\ P = stack'[1].prog /\ P \in Progs
    BY <1>0, <2>1, TopFacts DEF Top
  <2>4. CASE p \in Progs
    <3>1. \A q \in Progs : q # Top.prog => programs'[q].includes = programs[q].includes
      BY <1>0, <1>7, ScanFacts
    <3>2. \A k \in DOMAIN stack : k # 1 => (Pending(p, k)' <=> Pending(p, k))
      BY <2>1, <3>1, LowerCallsStay
    <3>3. p \notin ToCall(1)'
      <4>1. /\ DOMAIN programs'[P].includes = DOMAIN Found
            /\ \A i \in DOMAIN Found : programs'[P].includes[i] = Made(i) /\ Made(i) \notin Progs
        BY <1>0, <1>7, <2>3, ScanFacts
      <4>2. \A i \in DOMAIN programs'[P].includes : programs'[P].includes[i] \notin Progs
        BY <4>1
      <4> QED BY <2>3, <2>4, <4>2 DEF ToCall
    <3>4. p \notin ToCall(1)
      <4>1. programs[P].includes = <<>>
        BY <1>0, <2>1, <2>3 DEF FreshInv, Fresh
      <4> QED BY <2>3, <4>1, NothingToCall
    <3>5. Pending(p, 1)' <=> Pending(p, 1)
      BY <2>1, <2>3, <3>3, <3>4 DEF Pending, Top
    <3> QED BY <1>1, <1>2, <2>1, <2>2, <2>4, <3>2, <3>5 DEF NonePending
  <2>5. CASE p \notin Progs
    <3>1. PICK i, c : i \in DOMAIN Found /\ c = Made(i) /\ p = c
      BY <1>0, <1>7, <2>5, ScanFacts
    <3>2. /\ i \in DOMAIN programs'[P].includes /\ p = programs'[P].includes[i]
          /\ i \in Nat /\ i >= 1
      BY <1>0, <1>7, <2>3, <3>1, ScanFacts
    <3>3. p \in ToCall(1)'
      BY <2>1, <2>3, <3>2 DEF ToCall
    <3> QED BY <1>1, <2>1, <2>5, <3>3 DEF NonePending, Pending
  <2> QED BY <2>4, <2>5
<1>8. CASE Recurse
  <2>1. PICK c, P, n : c = programs[Top.prog].includes[Top.next] /\ P = Top.prog /\ n = Top.next
    OBVIOUS
  <2>2. OneMoreCall(c)
    BY <1>0, <1>8, <2>1, CallsFacts
  <2>3. /\ UNCHANGED <<side, programs, phase>> /\ phase = "parse" /\ Top.pc = "includes" /\ stack # <<>>
        /\ c \in Progs /\ n \in DOMAIN programs[P].includes
    BY <1>0, <1>8, <2>1, RecurseFacts
  <2>4. Progs' = Progs /\ ~ Settles
    BY <1>8, <2>3 DEF Progs, Settles, SkipRecursion, SaveScope, Recurse, At
  <2>5. /\ P \in Progs /\ n \in Nat \ {0} /\ 1 \in DOMAIN stack /\ stack[1].prog = P /\ stack[1].next = n
        /\ stack[1].pc = "includes"
    BY <1>0, <2>1, <2>3, TopFacts DEF Frame, Top
  <2>6. IsSequence(programs[P].includes)
    BY <1>0, <2>5 DEF ShapeInv, IsProgram
  <2>7. c \in ToCall(1)
    BY <2>1, <2>3, <2>5 DEF ToCall
  <2>8. programs[c].includes = <<>>
    BY <1>0, <2>3, <2>5, <2>7 DEF FreshInv, Fresh
  <2>9. stack'[1].prog = c /\ stack'[1].pc = "begin"
    BY <2>2 DEF OneMoreCall, ParseFrame
  <2>10. Pending(p, 1)' <=> p = c
    <3>1. ToCall(1)' = {}
      BY <2>3, <2>8, <2>9 DEF ToCall
    <3> QED BY <2>9, <3>1 DEF Pending
  <2>11. DOMAIN stack' = 1..Len(stack) + 1 /\ DOMAIN stack = 1..Len(stack) /\ Len(stack) \in Nat \ {0}
    BY <2>2 DEF OneMoreCall, Parsing
  <2>12. /\ 2 \in DOMAIN stack' /\ 1 \in DOMAIN stack'
         /\ stack'[2].prog = P /\ stack'[2].pc = "includes" /\ stack'[2].next = n + 1
    <3>1. 2 \in DOMAIN stack' /\ 1 \in DOMAIN stack'
      BY <2>11
    <3>2. stack'[2].prog = stack[1].prog /\ stack'[2].pc = stack[1].pc /\ stack'[2].next = stack[1].next + 1
      BY <2>2, <3>1 DEF OneMoreCall
    <3> QED BY <2>5, <3>1, <3>2
  <2>13. Pending(p, 1) <=> p = c \/ Pending(p, 2)'
    <3>1. PICK m : m = Len(programs[P].includes) /\ m \in Nat /\ DOMAIN programs[P].includes = 1..m
      BY <2>6 DEF IsSequence
    <3>2. {j \in 1..m : j >= n} = {n} \cup {j \in 1..m : j >= n + 1}
      BY <2>3, <2>5, <3>1
    <3>3. ToCall(1) = {programs[P].includes[i] : i \in {j \in 1..m : j >= n}}
      BY <2>5, <3>1 DEF ToCall
    <3>4. ToCall(2)' = {programs[P].includes[i] : i \in {j \in 1..m : j >= n + 1}}
      BY <2>3, <2>12, <3>1 DEF ToCall
    <3>5. p \in ToCall(1) <=> p = c \/ p \in ToCall(2)'
      BY <2>1, <3>2, <3>3, <3>4
    <3> QED BY <2>5, <2>12, <3>5 DEF Pending
  <2>14. ASSUME NEW k \in DOMAIN stack', k # 1, k # 2 PROVE k - 1 \in DOMAIN stack /\ (Pending(p, k)' <=> Pending(p, k - 1))
    <3>1. k - 1 \in DOMAIN stack /\ stack'[k].prog = stack[k - 1].prog /\ stack'[k].pc = stack[k - 1].pc /\ stack'[k].next = stack[k - 1].next
      BY <2>2, <2>14 DEF OneMoreCall
    <3>2. ToCall(k)' = ToCall(k - 1)
      BY <2>3, <3>1, ToCallStays
    <3> QED BY <3>1, <3>2 DEF Pending
  <2>15. ASSUME NEW k \in DOMAIN stack, k # 1 PROVE \E m \in DOMAIN stack' : m # 1 /\ m # 2 /\ m - 1 = k
    <3>1. k + 1 \in DOMAIN stack' /\ k + 1 # 1 /\ k + 1 # 2 /\ (k + 1) - 1 = k
      BY <2>11, <2>15
    <3> QED BY <3>1
  <2>16. (\A k \in DOMAIN stack' : ~ Pending(p, k)') <=> \A k \in DOMAIN stack : ~ Pending(p, k)
    <3>1. ASSUME \A k \in DOMAIN stack' : ~ Pending(p, k)', NEW k \in DOMAIN stack PROVE ~ Pending(p, k)
      BY <2>10, <2>12, <2>13, <2>14, <2>15, <3>1
    <3>2. ASSUME \A k \in DOMAIN stack : ~ Pending(p, k), NEW k \in DOMAIN stack' PROVE ~ Pending(p, k)'
      BY <2>5, <2>10, <2>12, <2>13, <2>14, <3>2
    <3> QED BY <3>1, <3>2
  <2> QED BY <1>1, <1>2, <2>3, <2>4, <2>16 DEF NonePending
<1>9. CASE Return
  <2>1. OneCallLess /\ UNCHANGED <<side, programs, phase>> /\ phase = "parse" /\ Top.pc = "types"
    BY <1>0, <1>9, ReturnFacts, CallsFacts
  <2>2. Progs' = Progs /\ ~ Settles
    BY <1>9, <2>1 DEF Progs, Settles, SkipRecursion, SaveScope, Return, At
  <2>3. ~ Pending(p, 1)
    BY <2>1 DEF Pending, Top
  <2>4. ASSUME NEW k \in DOMAIN stack' PROVE k + 1 \in DOMAIN stack /\ (Pending(p, k)' <=> Pending(p, k + 1))
    <3>1. k + 1 \in DOMAIN stack /\ stack'[k] = stack[k + 1]
      BY <2>1, <2>4 DEF OneCallLess
    <3>2. ToCall(k)' = ToCall(k + 1)
      BY <2>1, <3>1, ToCallStays
    <3> QED BY <3>1, <3>2 DEF Pending
  <2>5. ASSUME NEW k \in DOMAIN stack, k # 1 PROVE k - 1 \in DOMAIN stack' /\ (k - 1) + 1 = k
    <3>1. DOMAIN stack' = 1..Len(stack) - 1 /\ DOMAIN stack = 1..Len(stack) /\ Len(stack) \in Nat
      BY <2>1 DEF OneCallLess, Parsing
    <3> QED BY <2>5, <3>1
  <2>6. (\A k \in DOMAIN stack' : ~ Pending(p, k)') <=> \A k \in DOMAIN stack : ~ Pending(p, k)
    <3>1. ASSUME \A k \in DOMAIN stack' : ~ Pending(p, k)', NEW k \in DOMAIN stack PROVE ~ Pending(p, k)
      <4>1. CASE k # 1
        <5>1. PICK m \in DOMAIN stack' : m + 1 = k
          BY <2>5, <4>1
        <5> QED BY <2>4, <3>1, <5>1
      <4> QED BY <2>3, <4>1
    <3> QED BY <2>4, <3>1
  <2> QED BY <1>1, <1>2, <2>1, <2>2, <2>6 DEF NonePending
<1>10. CASE AuditGoesOn
  <2>1. /\ phase = "parse" /\ side = "old" /\ side' = "new" /\ UNCHANGED <<programs, phase>> /\ Top.pc = "types"
        /\ stack # <<>> /\ Len(stack) = 1 /\ stack' = <<ParseFrame(1, NULL)>>
    BY <1>10 DEF AuditGoesOn, Finished, At
  <2>2. Progs' = Progs /\ ~ Settles
    BY <2>1 DEF Progs, Settles, SkipRecursion, SaveScope, At
  <2>3. NonePending(p) <=> p # 1
    <3>1. DOMAIN stack = {1}
      BY <1>0, <2>1, TopFacts
    <3>2. ~ Pending(p, 1)
      BY <2>1 DEF Pending, Top
    <3> QED BY <2>1, <3>1, <3>2 DEF NonePending
  <2>4. NonePending(p)' <=> p # 1
    <3>1. DOMAIN stack' = {1} /\ stack'[1].prog = 1 /\ stack'[1].pc = "begin"
      BY <2>1 DEF ParseFrame
    <3>2. programs[1].includes = <<>>
      BY <1>0, <2>1 DEF FreshInv, Fresh
    <3>3. ToCall(1)' = {}
      BY <2>1, <3>1, <3>2 DEF ToCall
    <3>4. Pending(p, 1)' <=> p = 1
      BY <3>1, <3>3 DEF Pending
    <3> QED BY <2>1, <3>1, <3>4 DEF NonePending
  <2> QED BY <1>1, <1>2, <2>2, <2>3, <2>4
<1>11. CASE Leaves
  <2>1. phase' # "parse" /\ UNCHANGED programs /\ Progs' = Progs
    BY <1>11 DEF Leaves, Progs
  <2>2. Settled(p)'
    BY <2>1 DEF Settled
  <2>3. CASE phase # "parse"
    BY <2>1, <2>2, <2>3 DEF Settled
  <2>4. CASE phase = "parse"
    <3>1. Top.pc = "types" /\ stack # <<>> /\ Len(stack) = 1 /\ side = "new"
      BY <1>11, <2>4 DEF Leaves, Finished, At
    <3>2. DOMAIN stack = {1}
      BY <1>0, <3>1, TopFacts
    <3>3. ~ Pending(p, 1)
      BY <3>1 DEF Pending, Top
    <3>4. NonePending(p)
      BY <3>1, <3>2, <3>3 DEF NonePending
    <3> QED BY <1>2, <2>1, <2>2, <3>4
  <2> QED BY <2>3, <2>4
<1>12. CASE Stays
  <2>1. UNCHANGED <<side, programs, stack, phase>> /\ UNCHANGED program_to_scope
    BY <1>12 DEF Stays
  <2>2. Settled(p)' <=> Settled(p)
    BY <2>1 DEF Settled, ToCall
  <2>3. ~ Settles
    <3>1. ~ SkipRecursion
      <4>1. SUFFICES ASSUME SkipRecursion PROVE FALSE
        OBVIOUS
      <4>2. Top.pc = "begin" /\ stack'[1].pc = "types"
        BY <1>0, <4>1, SkipFacts
      <4> QED BY <2>1, <4>2 DEF Top
    <3>2. ~ SaveScope
      <4>1. SUFFICES ASSUME SaveScope PROVE FALSE
        OBVIOUS
      <4>2. Top.pc = "includes" /\ stack'[1].pc = "types"
        BY <1>0, <4>1, SaveFacts
      <4> QED BY <2>1, <4>2 DEF Top
    <3> QED BY <3>1, <3>2 DEF Settles
  <2>4. Progs' = Progs
    BY <2>1 DEF Progs
  <2> QED BY <2>2, <2>3, <2>4
<1> QED BY <1>0, <1>4, <1>5, <1>6, <1>7, <1>8, <1>9, <1>10, <1>11, <1>12, Steps DEF Kinds

(****************************************************************************)
(* The scope of a settled program stays as it was saved.                     *)
(****************************************************************************)
LEMMA SettledIsNotPending ==
  ASSUME CoreInv, phase = "parse", NEW p, Settled(p)
  PROVE  /\ Top.pc # "types" => p # Top.prog
         /\ Top.parent # NULL => p # Top.parent
<1>0. ShapeInv /\ StackInv /\ stack # <<>>
  BY DEF CoreInv, StackInv
<1>1. 1 \in DOMAIN stack
  BY <1>0, TopFacts
<1>2. Top.pc # "types" => p # Top.prog
  BY <1>1 DEF Settled, Top
<1>3. ASSUME Top.parent # NULL PROVE p # Top.parent
  <2>1. 2 \in DOMAIN stack /\ Top.parent = stack[2].prog /\ stack[2].pc = "includes"
    BY <1>0, <1>3, ParentFacts
  <2> QED BY <2>1 DEF Settled
<1> QED BY <1>2, <1>3

LEMMA ImportsStay ==
  ASSUME CoreInv, [Next]_vars, NEW p \in Progs, Settled(p), NEW kind \in Kinds, NEW saved,
         SameImports(programs[p].scope[kind], saved)
  PROVE  SameImports(programs'[p].scope[kind], saved)
<1>0. ShapeInv
  BY DEF CoreInv
<1>1. CASE SkipRecursion
  <2>1. Top.pc = "begin" /\ phase = "parse"
    BY <1>0, <1>1, SkipFacts
  <2>2. p # Top.prog
    BY <2>1, SettledIsNotPending
  <2>3. programs'[p].scope = programs[p].scope
    BY <1>0, <1>1, <2>2, SkipFacts
  <2> QED BY <2>3
<1>2. CASE ScanIncludes
  <2>1. programs'[p].scope = programs[p].scope
    BY <1>0, <1>2, ScanFacts
  <2> QED BY <2>1
<1>3. ASSUME NEW k \in Kinds, Defines(k) PROVE SameImports(programs'[p].scope[kind], saved)
  <2>1. phase = "parse"
    BY <1>0, <1>3, DefineFacts
  <2>2. NULL \notin Progs
    BY <1>0, IncludesAssumption DEF Progs, ShapeInv, IsSequence
  <2>3. p # Top.parent
    BY <2>1, <2>2, SettledIsNotPending
  <2>4. PICK names : names = programs[p].scope[kind]
    OBVIOUS
  <2>5. CASE programs'[p].scope[kind] = names
    BY <2>4, <2>5
  <2>6. CASE k = kind /\ p = Top.prog
    <3>1. PICK x, o : x = <<NULL, Current.name>> /\ o = <<Top.prog, Top.next>>
      OBVIOUS
    <3>2. programs'[p].scope[kind] = With(names, x, o)
      BY <1>0, <1>3, <2>4, <2>6, <3>1, DefinedScope DEF WithCurrent
    <3>3. x[1] = NULL
      BY <3>1
    <3>4. /\ DOMAIN With(names, x, o) = DOMAIN names \cup {x}
          /\ \A y \in DOMAIN names : y # x => With(names, x, o)[y] = names[y]
      BY DEF With
    <3>5. SameImports(With(names, x, o), saved)
      BY <2>4, <3>3, <3>4 DEF SameImports
    <3> QED BY <3>2, <3>5
  <2>7. k # kind => programs'[p].scope[kind] = names
    BY <1>0, <1>3, <2>4, DefinedScope
  <2>8. k = kind /\ p # Top.prog => programs'[p].scope[kind] = names
    BY <1>0, <1>3, <2>3, <2>4, DefinedScope
  <2> QED BY <2>5, <2>6, <2>7, <2>8
<1>4. CASE UNCHANGED programs
  BY <1>4
<1> QED BY <1>0, <1>1, <1>2, <1>3, <1>4, Steps DEF Kinds, Recurse, SaveScope, Return, AuditGoesOn, Leaves, Stays

LEMMA FinishedIsComplete ==
  ASSUME CoreInv, NamesInv, Finished
  PROVE  IsComplete(Top.prog)
<1>0. ShapeInv /\ FreshInv /\ DefsMean /\ phase = "parse" /\ stack # <<>> /\ Top.pc = "types"
  BY DEF CoreInv, NamesInv, Finished, At
<1>1. PICK P, n : P = Top.prog /\ n = Top.next /\ P \in Progs /\ n \in Nat \ {0}
  BY <1>0, TopFacts DEF Frame
<1>2. DOMAIN programs[P].defs = 1..n - 1
  BY <1>0, <1>1 DEF FreshInv, ShapeInv, IsProgram, IsSequence
<1>3. PICK m : m \in Nat /\ DOMAIN Defs(P) = 1..m
  <2>1. programs[P].path \in Files
    BY <1>0, <1>1 DEF ShapeInv, IsProgram
  <2>2. IsSequence(Defs(P))
    BY <1>0, <2>1, ProjectFacts DEF Defs, Path
  <2> QED BY <2>2 DEF IsSequence
<1>4. 1..n - 1 \subseteq 1..m
  BY <1>0, <1>1, <1>2, <1>3 DEF DefsMean
<1>5. n \notin 1..m
  BY <1>1, <1>3 DEF Finished
<1>6. 1..n - 1 = 1..m
  BY <1>1, <1>3, <1>4, <1>5
<1> QED BY <1>1, <1>2, <1>3, <1>6 DEF IsComplete

LEMMA CompleteStays ==
  ASSUME CoreInv, NamesInv, [Next]_vars, NEW p \in Progs, IsComplete(p)
  PROVE  IsComplete(p)'
<1>1. Defs(p)' = Defs(p) /\ p \in Progs'
  BY PathFacts, Rigid DEF CoreInv, Defs, Path
<1>2. DOMAIN programs'[p].defs \subseteq DOMAIN Defs(p)'
  <2>1. DefsMean'
    BY DefsMeanNext
  <2> QED BY <1>1, <2>1 DEF DefsMean
<1>3. DOMAIN programs[p].defs \subseteq DOMAIN programs'[p].defs
  BY DefsStay
<1> QED BY <1>1, <1>2, <1>3 DEF IsComplete

LEMMA SettledNext ==
  ASSUME CoreInv, NamesInv, SettledInv, [Next]_vars
  PROVE  SettledInv'
<1>0. ShapeInv
  BY DEF CoreInv
<1>1. ASSUME NEW p \in Progs', Settled(p)' PROVE IsAsSaved(p)' /\ ((phase = "parse" /\ p = Top.prog)' \/ IsComplete(p)')
  <2>1. p \in Progs /\ (Settled(p) \/ (Settles /\ p = Top.prog))
    BY <1>1, SettledSteps
  <2>2. PICK f : f = programs[p].path
    OBVIOUS
  <2>3. programs'[p].path = f
    BY <1>0, <2>1, <2>2, PathFacts
  <2>4. CASE Settled(p)
    <3>1. IsSettled(p) /\ f \in Known
      BY <2>1, <2>2, <2>4 DEF SettledInv, IsSettled, IsAsSaved
    <3>2. f \in Known' /\ program_to_scope'[f] = program_to_scope[f]
      BY <3>1, KnownStays
    <3>3. ASSUME NEW kind \in Kinds PROVE SameImports(programs'[p].scope[kind], program_to_scope'[f][kind])
      <4>1. PICK saved : saved = program_to_scope[f][kind]
        OBVIOUS
      <4>2. SameImports(programs[p].scope[kind], saved)
        BY <2>2, <3>1, <4>1 DEF IsSettled, IsAsSaved
      <4>3. SameImports(programs'[p].scope[kind], saved)
        BY <2>1, <2>4, <4>2, ImportsStay
      <4> QED BY <3>2, <4>1, <4>3
    <3>4. IsAsSaved(p)'
      BY <2>3, <3>2, <3>3 DEF IsAsSaved, SameImports
    <3>5. CASE IsComplete(p)
      BY <2>1, <3>4, <3>5, CompleteStays
    <3>6. CASE phase = "parse" /\ p = Top.prog
      <4>1. Top.pc = "types"
        BY <2>4, <3>6, SettledIsNotPending
      <4>2. CASE Finished
        <5>1. IsComplete(p)
          BY <3>6, <4>2, FinishedIsComplete
        <5> QED BY <2>1, <3>4, <5>1, CompleteStays
      <4>3. ASSUME NEW kind \in Kinds, Defines(kind) PROVE (phase = "parse" /\ p = Top.prog)'
        BY <1>0, <3>6, <4>3, DefineFacts DEF Top
      <4>4. CASE Stays
        BY <3>4, <3>6, <4>4 DEF Stays, Top
      <4>5. Finished \/ Defines("types") \/ Defines("consts") \/ Stays
        BY <1>0, <3>6, <4>1, Steps DEF SkipRecursion, ScanIncludes, Recurse, SaveScope, Return, AuditGoesOn, Leaves, Finished, At
      <4>6. "types" \in Kinds /\ "consts" \in Kinds
        BY DEF Kinds
      <4>7. (phase = "parse" /\ p = Top.prog)' \/ IsComplete(p)'
        BY <3>4, <4>2, <4>3, <4>4, <4>5, <4>6
      <4> QED BY <3>4, <4>7
    <3> QED BY <3>1, <3>5, <3>6 DEF IsSettled
  <2>5. CASE Settles /\ p = Top.prog
    <3>1. (phase = "parse" /\ p = Top.prog)'
      BY <1>0, <2>5, SkipFacts, SaveFacts DEF Settles, Top
    <3>2. f \in Known' /\ programs'[p].scope = program_to_scope'[f]
      <4>1. f = Path(Top.prog)
        BY <2>2, <2>5 DEF Path
      <4>2. CASE SkipRecursion
        <5>1. f \in Known /\ programs'[p].scope = program_to_scope[f]
          BY <1>0, <2>1, <2>5, <4>1, <4>2, SkipFacts
        <5> QED BY <5>1, KnownStays
      <4>3. CASE SaveScope
        BY <1>0, <2>5, <4>1, <4>3, SaveFacts
      <4> QED BY <2>5, <4>2, <4>3 DEF Settles
    <3>3. IsAsSaved(p)'
      BY <2>3, <3>2 DEF IsAsSaved, SameImports
    <3> QED BY <3>1, <3>3
  <2> QED BY <2>1, <2>4, <2>5
<1> QED BY <1>1 DEF SettledInv, IsSettled

\* A program that was scanned before it settled is not scanned any more.
LEMMA SettledStays ==
  ASSUME CoreInv, [Next]_vars, NEW p \in Progs, Settled(p) \/ (Settles /\ p = Top.prog)
  PROVE  /\ p \in Progs' /\ programs'[p].path = programs[p].path
         /\ Settled(p)' /\ Scanned(p)' = Scanned(p)
<1>0. ShapeInv
  BY DEF CoreInv
<1>1. p \in Progs' /\ programs'[p].path = programs[p].path
  BY <1>0, PathFacts
<1>2. Settled(p)'
  BY <1>1, SettledSteps
<1>3. Seen' = Seen
  BY Rigid
<1>4. programs'[p].includes = programs[p].includes
  <2>1. CASE ScanIncludes
    <3>1. Top.pc = "begin" /\ phase = "parse"
      BY SMTT(40), <1>0, <2>1, ScanFacts
    <3>2. ~ Settles
      BY Zenon, <2>1, <3>1 DEF Settles, SkipRecursion, SaveScope, ScanIncludes, At
    <3>3. p # Top.prog
      BY <3>1, <3>2, SettledIsNotPending
    <3> QED BY <1>0, <2>1, <3>3, ScanFacts
  <2>2. CASE UNCHANGED programs
    BY <2>2
  <2>3. ASSUME NEW k \in Kinds, Defines(k) PROVE programs'[p].includes = programs[p].includes
    BY <1>0, <2>3, DefineFacts
  <2> QED BY <1>0, <2>1, <2>2, <2>3, SkipFacts, Steps DEF Kinds, Recurse, SaveScope, Return, AuditGoesOn, Leaves, Stays
<1>5. Scanned(p)' = Scanned(p)
  <2>1. PICK f, domain : f = programs[p].path /\ domain = DOMAIN Seen[f]
    OBVIOUS
  <2>2. programs'[p].path = f /\ DOMAIN Seen'[f] = domain
    BY <1>1, <1>3, <2>1
  <2>3. Scanned(p) = (DOMAIN programs[p].includes = domain)
    BY <2>1 DEF Scanned, Path
  <2>4. Scanned(p)' = (DOMAIN programs'[p].includes = domain)
    BY <2>2 DEF Scanned, Path
  <2> QED BY <1>4, <2>3, <2>4
<1> QED BY <1>1, <1>2, <1>5

LEMMA FirstNext ==
  ASSUME CoreInv, FirstInv, [Next]_vars
  PROVE  FirstInv'
<1>0. ShapeInv
  BY DEF CoreInv
<1>1. ASSUME NEW p \in Progs, Scanned(p), Settled(p) \/ (Settles /\ p = Top.prog)
      PROVE  p \in Progs' /\ programs'[p].path = programs[p].path /\ Scanned(p)' /\ Settled(p)'
  BY <1>1, SettledStays
<1>2. ASSUME NEW f \in Known' PROVE \E p \in Progs : programs[p].path = f /\ Scanned(p) /\ (Settled(p) \/ (Settles /\ p = Top.prog))
  <2>1. CASE f \in Known
    BY <2>1 DEF FirstInv
  <2>2. CASE SaveScope /\ f = Path(Top.prog)
    <3>1. Top.pc = "includes" /\ phase = "parse" /\ stack # <<>>
      BY <1>0, <2>2, SaveFacts
    <3>2. Top.prog \in Progs /\ 1 \in DOMAIN stack
      BY <1>0, <3>1, TopFacts
    <3>3. Scanned(Top.prog)
      BY <3>1, <3>2 DEF CoreInv, KnownInv, Top
    <3> QED BY <2>2, <3>2, <3>3 DEF Settles, Path
  <2> QED BY <1>2, <2>1, <2>2, KnownGrows
<1>3. ASSUME NEW f \in Known' PROVE (\E p \in Progs : programs[p].path = f /\ Scanned(p) /\ Settled(p))'
  <2>1. PICK p \in Progs : programs[p].path = f /\ Scanned(p) /\ (Settled(p) \/ (Settles /\ p = Top.prog))
    BY <1>2, <1>3
  <2> QED BY <1>1, <2>1
<1> QED BY <1>3 DEF FirstInv

(****************************************************************************)
(* The saved scope of a file has the definitions of those it includes.       *)
(****************************************************************************)
LEMMA ScannedFacts ==
  ASSUME CoreInv, NEW p \in Progs, Scanned(p), NEW f, f = programs[p].path
  PROVE  /\ \A i \in DOMAIN Seen[f] :
              \E c \in Progs : c = programs[p].includes[i] /\ Imports(p, c) /\ programs[c].path = Seen[f][i]
         /\ \A i, j \in DOMAIN Seen[f] : i # j => programs[p].includes[i] # programs[p].includes[j]
         /\ \A g \in IncludedBy(f) : \E c \in Progs : Imports(p, c) /\ programs[c].path = g
<1>0. TreeInv /\ IsTree
  BY TreeIsTree DEF CoreInv
<1>1. DOMAIN programs[p].includes = DOMAIN Seen[f]
  BY DEF Scanned, Path
<1>2. ASSUME NEW i \in DOMAIN Seen[f]
      PROVE  \E c \in Progs : c = programs[p].includes[i] /\ Imports(p, c) /\ programs[c].path = Seen[f][i]
  <2>1. PICK c : c = programs[p].includes[i]
    OBVIOUS
  <2>2. c \in Progs /\ programs[c].path = Seen[f][i]
    BY <1>0, <1>1, <1>2, <2>1 DEF IsTree, IsChild
  <2> QED BY <1>1, <2>1, <2>2 DEF Imports
<1>3. ASSUME NEW i \in DOMAIN Seen[f], NEW j \in DOMAIN Seen[f], i # j
      PROVE  programs[p].includes[i] # programs[p].includes[j]
  BY <1>0, <1>1, <1>3 DEF IsTree
<1>4. ASSUME NEW g \in IncludedBy(f) PROVE \E i \in DOMAIN Seen[f] : g = Seen[f][i]
  BY <1>4 DEF IncludedBy, Range
<1> QED BY <1>2, <1>3, <1>4

\* A definition is as it is on disk.
LEMMA DefFacts ==
  ASSUME CoreInv, NamesInv, NEW p \in Progs, NEW kind \in Kinds, NEW f, f = programs[p].path
  PROVE  /\ \A j \in DefsOf(p, kind) : j \in Places(KindOf(kind), f) /\ programs[p].defs[j].name = project.defs[f][j].name
         /\ IsComplete(p) =>
              \A j \in Places(KindOf(kind), f) : j \in DefsOf(p, kind) /\ programs[p].defs[j].name = project.defs[f][j].name
<1>1. DefsMean /\ Defs(p) = project.defs[f]
  BY DEF NamesInv, Defs, Path
<1>2. DOMAIN programs[p].defs \subseteq DOMAIN project.defs[f]
  BY <1>1 DEF DefsMean
<1>3. \A j \in DOMAIN programs[p].defs :
        programs[p].defs[j].name = project.defs[f][j].name /\ programs[p].defs[j].kind = project.defs[f][j].kind
  BY <1>1 DEF DefsMean, DefMeans
<1> QED BY <1>1, <1>2, <1>3 DEF DefsOf, Places, IsComplete

LEMMA SavingFacts ==
  ASSUME CoreInv, SaveScope
  PROVE  /\ phase = "parse" /\ Top.prog \in Progs /\ Scanned(Top.prog)
         /\ \A c \in Progs : Imports(Top.prog, c) => c # Top.prog /\ Settled(c)
<1>0. ShapeInv /\ TreeInv /\ StackInv
  BY DEF CoreInv
<1>1. /\ stack # <<>> /\ phase = "parse" /\ Top.pc = "includes"
      /\ Top.next \notin DOMAIN programs[Top.prog].includes
  BY <1>0, SaveFacts
<1>2. PICK P, n : P = Top.prog /\ n = Top.next /\ P \in Progs /\ n \in Nat \ {0}
  BY <1>0, <1>1, TopFacts DEF Frame
<1>3. 1 \in DOMAIN stack /\ DOMAIN stack = 1..Len(stack) /\ Scanned(P) /\ Progs \subseteq Int
  BY <1>0, <1>1, <1>2, TopFacts DEF CoreInv, KnownInv, Top
<1>4. ToCall(1) = {}
  <2>1. PICK m : m \in Nat /\ DOMAIN programs[P].includes = 1..m
    BY <1>0, <1>2 DEF ShapeInv, IsProgram, IsSequence
  <2>2. n > m
    BY <1>1, <1>2, <2>1
  <2>3. {j \in DOMAIN programs[P].includes : j >= n} = {}
    BY <1>2, <2>1, <2>2
  <2> QED BY <1>2, <2>3 DEF ToCall, Top
<1>5. ASSUME NEW c \in Progs, Imports(P, c) PROVE c # P /\ Settled(c)
  <2>1. c > P /\ c > Roots /\ \A q \in Progs : Imports(q, c) => q = P
    BY <1>2, <1>5, ImportsFacts
  <2>2. c # 1 /\ c # P
    BY <1>2, <1>3, <2>1 DEF Roots
  <2>3. ASSUME NEW k \in DOMAIN stack PROVE c # stack[k].prog /\ c \notin ToCall(k)
    <3>1. CASE k = 1
      BY <1>2, <1>4, <2>2, <3>1 DEF Top
    <3>2. CASE k # 1
      <4>1. 1 < k
        BY <1>3, <3>2
      <4>2. PICK q : q = stack[k].prog /\ q \in Progs
        BY <1>0 DEF ShapeInv
      <4>3. P > q
        BY <1>0, <1>1, <1>2, <1>3, <4>1, <4>2 DEF StackInv, Top
      <4>4. c # q /\ q # P
        BY <1>2, <1>3, <2>1, <4>2, <4>3
      <4>5. c \in ToCall(k) => Imports(q, c)
        BY <4>2 DEF ToCall, Imports
      <4> QED BY <2>1, <4>2, <4>4, <4>5
    <3> QED BY <3>1, <3>2
  <2> QED BY <2>2, <2>3 DEF Settled
<1> QED BY <1>1, <1>2, <1>3, <1>5

SavedOf(f, kind, g, j) == <<project.base[g], project.defs[g][j].name>> \in DOMAIN program_to_scope[f][kind]

LEMMA SavedHoldsNext ==
  ASSUME CoreInv, NamesInv, HoldsImports, SettledInv, SavedHolds, [Next]_vars
  PROVE  SavedHolds'
<1>0. ShapeInv
  BY DEF CoreInv
<1>1. project' = project /\ (\A f : IncludedBy(f)' = IncludedBy(f)) /\ \A kind, g : Places(kind, g)' = Places(kind, g)
  BY Rigid DEF IncludedBy, Places
<1>2. ASSUME NEW f \in Known', NEW kind \in Kinds, NEW g \in IncludedBy(f), NEW j \in Places(KindOf(kind), g)
      PROVE  SavedOf(f, kind, g, j)'
  <2>1. PICK x : x = <<project.base[g], project.defs[g][j].name>>
    OBVIOUS
  <2>2. CASE f \in Known /\ program_to_scope'[f] = program_to_scope[f]
    <3>1. x \in DOMAIN program_to_scope[f][kind]
      BY <1>2, <2>1, <2>2 DEF SavedHolds, BaseName
    <3> QED BY <1>1, <2>1, <2>2, <3>1 DEF SavedOf
  <2>3. CASE SaveScope /\ f = Path(Top.prog) /\ program_to_scope'[f] = programs[Top.prog].scope
    <3>1. PICK P : P = Top.prog /\ P \in Progs /\ Scanned(P) /\ f = programs[P].path /\ phase = "parse"
      BY <2>3, SavingFacts DEF Path
    <3>2. PICK c \in Progs : Imports(P, c) /\ programs[c].path = g
      BY <1>2, <3>1, ScannedFacts
    <3>3. c # P /\ Settled(c)
      BY <2>3, <3>1, <3>2, SavingFacts
    <3>4. IsComplete(c)
      BY <3>1, <3>2, <3>3 DEF SettledInv, IsSettled
    <3>5. j \in DefsOf(c, kind) /\ programs[c].defs[j].name = project.defs[g][j].name
      BY <1>2, <3>2, <3>4, DefFacts
    <3>6. x \in DOMAIN programs[P].scope[kind]
      BY <2>1, <3>1, <3>2, <3>5 DEF HoldsImports, BaseName
    <3> QED BY <1>1, <2>1, <2>3, <3>1, <3>6 DEF SavedOf
  <2> QED BY <1>2, <2>2, <2>3, KnownGrows
<1> QED BY <1>1, <1>2 DEF SavedHolds, SavedOf, BaseName

(****************************************************************************)
(* What has been defined was new.                                            *)
(****************************************************************************)
LEMMA DefinedIsNew ==
  ASSUME CoreInv, HoldsOwn, NEW kind \in Kinds, Defines(kind), NEW j \in DefsOf(Top.prog, kind)
  PROVE  programs[Top.prog].defs[j].name # Current.name
<1>1. Top.prog \in Progs
  BY DefinedFacts
<1>2. CASE kind = "types"
  <2>1. IsUniqueTypename
    BY <1>2 DEF Defines, Accepts
  <2>2. ~ SameTypename(Top.prog)
    BY <2>1 DEF IsUniqueTypename
  <2> QED BY <1>2, <2>2 DEF SameTypename, DefsOf, KindOf
<1>3. CASE kind = "consts"
  <2>1. <<NULL, Current.name>> \notin DOMAIN programs[Top.prog].scope[kind]
    BY <1>3 DEF Defines, Accepts, IsNewConstant
  <2> QED BY <1>1, <2>1 DEF HoldsOwn
<1> QED BY <1>2, <1>3 DEF Kinds

LEMMA OwnOnceNext ==
  ASSUME CoreInv, HoldsOwn, OwnOnce, [Next]_vars
  PROVE  OwnOnce'
<1>1. ASSUME NEW p \in Progs', NEW kind \in Kinds, NEW i, (i \in DefsOf(p, kind))', NEW j, (j \in DefsOf(p, kind))',
             programs'[p].defs[i].name = programs'[p].defs[j].name
      PROVE  i = j
  <2> DEFINE old(n) == p \in Progs /\ n \in DefsOf(p, kind) /\ programs'[p].defs[n] = programs[p].defs[n]
             new(n) == Defines(kind) /\ p = Top.prog /\ n = Top.next
  <2>1. old(i) \/ new(i)
    BY <1>1, DefsGrow
  <2>2. old(j) \/ new(j)
    BY <1>1, DefsGrow
  <2>3. ASSUME NEW n, new(n) PROVE programs'[p].defs[n].name = Current.name
    BY <1>1, <2>3, DefinedFacts
  <2>4. ASSUME NEW n, NEW m, new(n), old(m) PROVE programs'[p].defs[m].name # programs'[p].defs[n].name
    <3>1. programs[p].defs[m].name # Current.name
      BY <1>1, <2>4, DefinedIsNew
    <3> QED BY <2>3, <2>4, <3>1
  <2>5. CASE old(i) /\ old(j)
    BY <1>1, <2>5 DEF OwnOnce
  <2>6. new(i) /\ new(j) => i = j
    OBVIOUS
  <2> HIDE DEF old, new
  <2> QED BY <1>1, <2>1, <2>2, <2>4, <2>5, <2>6
<1>2. ASSUME NEW p \in Progs', NEW kind \in Kinds, NEW i \in DefsOf(p, kind)', NEW j \in DefsOf(p, kind)',
             programs'[p].defs[i].name = programs'[p].defs[j].name
      PROVE  i = j
  BY <1>1, <1>2
<1> QED BY <1>2 DEF OwnOnce, DefsOf

BasesDiffer(c, d) == project.base[programs[c].path] # project.base[programs[d].path]

LEMMA ConstsOnceNext ==
  ASSUME CoreInv, HoldsImports, ConstsOnce, [Next]_vars
  PROVE  ConstsOnce'
<1>0. ShapeInv
  BY DEF CoreInv
<1>1. ASSUME NEW p \in Progs, NEW c \in Progs, NEW d \in Progs, Imports(p, c), Imports(p, d), c # d,
             Defines("consts"), c = Top.prog, NEW j \in DefsOf(d, "consts"), programs[d].defs[j].name = Current.name
      PROVE  BasesDiffer(c, d)
  <2>1. p = Top.parent /\ Top.parent # NULL
    BY <1>1, DefinedNames DEF Kinds
  <2>2. <<Prefix, Current.name>> \notin DOMAIN programs[p].scope["consts"]
    BY <1>1, <2>1 DEF Defines, Accepts, IsNewConstant
  <2>3. "consts" \in Kinds
    BY DEF Kinds
  <2>4. <<BaseName(programs[d].path), Current.name>> \in DOMAIN programs[p].scope["consts"]
    BY <1>1, <2>3 DEF HoldsImports
  <2>5. Prefix = BaseName(programs[c].path)
    BY <1>1 DEF Prefix, Path
  <2> QED BY <2>2, <2>4, <2>5 DEF BasesDiffer, BaseName
<1>2. ASSUME NEW p \in Progs', NEW c \in Progs', NEW d \in Progs', Imports(p, c)', Imports(p, d)', c # d,
             ~ BasesDiffer(c, d)',
             NEW i, (i \in DefsOf(c, "consts"))', NEW j, (j \in DefsOf(d, "consts"))'
      PROVE  programs'[c].defs[i].name # programs'[d].defs[j].name
  <2>0. "consts" \in Kinds
    BY DEF Kinds
  <2>1. p \in Progs /\ c \in Progs /\ d \in Progs /\ Imports(p, c) /\ Imports(p, d)
    BY <1>2, ImportsGrow DEF DefsOf
  <2>2. ~ BasesDiffer(c, d)
    BY <1>0, <1>2, <2>1, PathFacts, Rigid DEF BasesDiffer
  <2> DEFINE old(e, n) == n \in DefsOf(e, "consts") /\ programs'[e].defs[n] = programs[e].defs[n]
             new(e, n) == Defines("consts") /\ e = Top.prog /\ n = Top.next
  <2>3. old(c, i) \/ new(c, i)
    BY <1>2, <2>0, DefsGrow
  <2>4. old(d, j) \/ new(d, j)
    BY <1>2, <2>0, DefsGrow
  <2>5. ASSUME NEW e, NEW n, new(e, n) PROVE programs'[e].defs[n].name = Current.name
    BY <2>0, <2>5, DefinedFacts
  <2>6. CASE old(c, i) /\ old(d, j)
    <3>1. BaseName(programs[c].path) = BaseName(programs[d].path)
      BY <2>2 DEF BasesDiffer, BaseName
    <3> QED BY <1>2, <2>1, <2>6, <3>1 DEF ConstsOnce
  <2>7. CASE new(c, i) /\ old(d, j)
    <3>1. programs[d].defs[j].name # Current.name
      BY <1>1, <1>2, <2>1, <2>2, <2>7
    <3> QED BY <2>5, <2>7, <3>1
  <2>8. CASE old(c, i) /\ new(d, j)
    <3>1. ~ BasesDiffer(d, c)
      BY <2>2 DEF BasesDiffer
    <3>2. programs[c].defs[i].name # Current.name
      BY <1>1, <1>2, <2>1, <2>8, <3>1
    <3> QED BY <2>5, <2>8, <3>2
  <2>9. ~ (new(c, i) /\ new(d, j))
    BY <1>2
  <2> HIDE DEF old, new
  <2> QED BY <2>3, <2>4, <2>6, <2>7, <2>8, <2>9
<1>3. ASSUME NEW p \in Progs', NEW c \in Progs', NEW d \in Progs', Imports(p, c)', Imports(p, d)', c # d,
             ~ BasesDiffer(c, d)',
             NEW i \in DefsOf(c, "consts")', NEW j \in DefsOf(d, "consts")'
      PROVE  programs'[c].defs[i].name # programs'[d].defs[j].name
  BY <1>2, <1>3
<1> QED BY <1>3 DEF ConstsOnce, DefsOf, BasesDiffer, BaseName

SpacesDiffer(p, c) == project.namespace[programs[p].path] # project.namespace[programs[c].path]

LEMMA TypesOnceNext ==
  ASSUME CoreInv, TypesOnce, [Next]_vars
  PROVE  TypesOnce'
<1>0. ShapeInv
  BY DEF CoreInv
<1>1. ASSUME NEW p \in Progs', NEW c \in Progs', Imports(p, c)', ~ SpacesDiffer(p, c)',
             NEW i, (i \in DefsOf(p, "types"))', NEW j, (j \in DefsOf(c, "types"))'
      PROVE  programs'[p].defs[i].name # programs'[c].defs[j].name
  <2>0. "types" \in Kinds
    BY DEF Kinds
  <2>1. p \in Progs /\ c \in Progs /\ Imports(p, c)
    BY <1>1, ImportsGrow DEF DefsOf
  <2>2. ~ SpacesDiffer(p, c)
    BY <1>0, <1>1, <2>1, PathFacts, Rigid DEF SpacesDiffer
  <2> DEFINE old(e, n) == n \in DefsOf(e, "types") /\ programs'[e].defs[n] = programs[e].defs[n]
             new(e, n) == Defines("types") /\ e = Top.prog /\ n = Top.next
  <2>3. old(p, i) \/ new(p, i)
    BY <1>1, <2>0, DefsGrow
  <2>4. old(c, j) \/ new(c, j)
    BY <1>1, <2>0, DefsGrow
  <2>5. ASSUME NEW e, NEW n, new(e, n) PROVE programs'[e].defs[n].name = Current.name
    BY <2>0, <2>5, DefinedFacts
  <2>6. CASE old(p, i) /\ old(c, j)
    BY <1>1, <2>1, <2>2, <2>6 DEF TypesOnce, SpacesDiffer
  <2>7. CASE new(p, i) /\ old(c, j)
    <3>1. IsUniqueTypename
      BY <2>7 DEF Defines, Accepts
    <3>2. c \in Range(programs[Top.prog].includes)
      BY <2>1, <2>7 DEF Imports, Range
    <3>3. ~ SameTypename(c)
      BY <3>1, <3>2 DEF IsUniqueTypename
    <3>4. project.namespace[Path(c)] = project.namespace[Path(Top.prog)]
      BY <2>2, <2>7 DEF SpacesDiffer, Path
    <3>5. programs[c].defs[j].name # Current.name
      BY <2>7, <3>3, <3>4 DEF SameTypename, DefsOf, KindOf
    <3> QED BY <2>5, <2>7, <3>5
  <2>8. CASE new(c, j)
    <3>1. p # Top.prog /\ programs[p].defs = <<>>
      BY <2>0, <2>1, <2>8, DefinedNames
    <3> QED BY <2>3, <3>1 DEF DefsOf
  <2> HIDE DEF old, new
  <2> QED BY <2>3, <2>4, <2>6, <2>7, <2>8
<1>2. ASSUME NEW p \in Progs', NEW c \in Progs', Imports(p, c)', ~ SpacesDiffer(p, c)',
             NEW i \in DefsOf(p, "types")', NEW j \in DefsOf(c, "types")'
      PROVE  programs'[p].defs[i].name # programs'[c].defs[j].name
  BY <1>1, <1>2
<1> QED BY <1>2 DEF TypesOnce, DefsOf, SpacesDiffer

(****************************************************************************)
(* What is generated.                                                        *)
(****************************************************************************)
\* A program that is settled knows what its file knows.
LEMMA NameIsInScope ==
  ASSUME CoreInv, NamesInv, HoldsOwn, SavedHolds, SettledInv,
         NEW p \in Progs, Settled(p), NEW f, f = programs[p].path, NEW kind \in Kinds,
         NEW q, q = <<q[1], q[2]>>, NEW g \in Files, NEW j \in Places(KindOf(kind), g), Denotes(f, q, g),
         q[2] = project.defs[g][j].name, g = f => j \in DOMAIN programs[p].defs
  PROVE  q \in DOMAIN programs[p].scope[kind]
<1>0. ShapeInv
  BY DEF CoreInv
<1>1. CASE q[1] = NULL
  <2>1. g = f /\ j \in DOMAIN programs[p].defs
    BY <1>1 DEF Denotes
  <2>2. DefMeans(p, j, programs[p].defs[j])
    BY <2>1 DEF NamesInv, DefsMean
  <2>3. programs[p].defs[j].name = project.defs[f][j].name /\ programs[p].defs[j].kind = project.defs[f][j].kind
    BY <2>2 DEF DefMeans, Defs, Path
  <2>4. j \in DefsOf(p, kind)
    BY <2>1, <2>3 DEF DefsOf, Places
  <2>5. <<NULL, programs[p].defs[j].name>> \in DOMAIN programs[p].scope[kind]
    BY <2>4 DEF HoldsOwn
  <2> QED BY <1>1, <2>1, <2>3, <2>5
<1>2. CASE q[1] # NULL
  <2>1. g \in IncludedBy(f) /\ q[1] = BaseName(g)
    BY <1>2 DEF Denotes
  <2>2. f \in Known /\ SameImports(programs[p].scope[kind], program_to_scope[f][kind])
    BY DEF SettledInv, IsSettled, IsAsSaved
  <2>3. q \in DOMAIN program_to_scope[f][kind]
    BY <2>1, <2>2 DEF SavedHolds
  <2> QED BY <1>2, <2>2, <2>3 DEF SameImports
<1> QED BY <1>1, <1>2

\* A reference that is not in scope when all definitions are there is dangling.
LEMMA UnresolvedIsDangling ==
  ASSUME CoreInv, NamesInv, HoldsOwn, SavedHolds, SettledInv, phase = "generate", NEW p \in Progs,
         ~ IsResolved(p)
  PROVE  HasDanglingName("type", programs[p].path)
<1>0. ShapeInv /\ DefsMean
  BY DEF CoreInv, NamesInv
<1>1. PICK i \in DOMAIN programs[p].defs :
        /\ programs[p].defs[i].kind = "type"
        /\ \E q \in DOMAIN programs[p].defs[i].refs : q \notin DOMAIN programs[p].scope["types"]
  BY DEF IsResolved
<1>2. PICK q \in DOMAIN programs[p].defs[i].refs : q \notin DOMAIN programs[p].scope["types"]
  BY <1>1
<1>3. PICK f : f = programs[p].path /\ f \in Files
  BY <1>0 DEF ShapeInv, IsProgram
<1>4. Settled(p) /\ DOMAIN programs[p].defs = DOMAIN project.defs[f]
  BY <1>3 DEF SettledInv, IsSettled, Settled, IsComplete, Defs, Path
<1>5. /\ i \in DOMAIN project.defs[f] /\ project.defs[f][i].kind = "type"
      /\ q \in project.defs[f][i].refs
  BY <1>0, <1>1, <1>2, <1>3 DEF DefsMean, DefMeans, Defs, Path
<1>6. q = <<q[1], q[2]>>
  BY <1>0, <1>3, <1>5, IncludesAssumption DEF ShapeInv, IsProject, Definition
<1>7. ASSUME NEW g \in Files, NEW j \in Places("type", g), Denotes(f, q, g), q[2] = project.defs[g][j].name
      PROVE  FALSE
  <2>1. "types" \in Kinds /\ KindOf("types") = "type"
    BY DEF Kinds, KindOf
  <2>2. g = f => j \in DOMAIN programs[p].defs
    BY <1>4, <1>7 DEF Places
  <2>3. q \in DOMAIN programs[p].scope["types"]
    BY <1>3, <1>4, <1>6, <1>7, <2>1, <2>2, NameIsInScope
  <2> QED BY <1>2, <2>3
<1>8. i \in Places("type", f)
  BY <1>5 DEF Places
<1> QED BY <1>3, <1>5, <1>7, <1>8 DEF HasDanglingName

\* What a name is bound to is a definition that it denotes.
LEMMA PlaceIsDenoted ==
  ASSUME CoreInv, NamesInv, NEW p \in Progs, NEW f, f = programs[p].path, NEW kind \in Kinds,
         NEW q, NEW o, IsPlace(kind, q, o), IF q[1] = NULL THEN o[1] = p ELSE IsImport(f, q, o),
         NEW g, g = programs[o[1]].path
  PROVE  /\ g \in Files /\ o[2] \in Places(KindOf(kind), g)
         /\ Denotes(f, q, g) /\ q[2] = project.defs[g][o[2]].name
<1>1. PICK r, j : r = o[1] /\ j = o[2]
  OBVIOUS
<1>2. r \in Progs /\ j \in DefsOf(r, kind) /\ programs[r].defs[j].name = q[2] /\ g = programs[r].path
  BY <1>1 DEF IsPlace, DefsOf
<1>3. g \in Files
  BY <1>2 DEF CoreInv, ShapeInv, IsProgram
<1>4. j \in Places(KindOf(kind), g) /\ q[2] = project.defs[g][j].name
  BY <1>2, DefFacts
<1>5. Denotes(f, q, g)
  BY <1>1, <1>2 DEF Denotes, IsImport, Path
<1> QED BY <1>1, <1>3, <1>4, <1>5

LEMMA ResolvedIsNotDangling ==
  ASSUME CoreInv, NamesInv, SettledInv, phase = "generate", NEW p \in Progs, IsResolved(p)
  PROVE  ~ HasDanglingName("type", programs[p].path)
<1>0. ShapeInv /\ DefsMean /\ ScopesMean /\ "types" \in Kinds /\ KindOf("types") = "type"
  BY DEF CoreInv, NamesInv, Kinds, KindOf
<1>1. PICK f : f = programs[p].path
  OBVIOUS
<1>2. IsComplete(p)
  BY DEF SettledInv, IsSettled, Settled
<1>3. ASSUME NEW i \in Places("type", f), NEW q \in project.defs[f][i].refs
      PROVE  \E g \in Files : \E j \in Places("type", g) : Denotes(f, q, g) /\ q[2] = project.defs[g][j].name
  <2>1. i \in DefsOf(p, "types")
    BY <1>0, <1>1, <1>2, <1>3, DefFacts
  <2>2. i \in DOMAIN programs[p].defs /\ programs[p].defs[i].kind = "type"
    BY <1>0, <2>1 DEF DefsOf
  <2>3. q \in DOMAIN programs[p].defs[i].refs /\ RefMeans(p, i, "types", q, programs[p].defs[i].refs[q])
    <3>1. DefMeans(p, i, programs[p].defs[i])
      BY <1>0, <2>2 DEF DefsMean
    <3> QED BY <1>1, <1>3, <2>2, <3>1 DEF DefMeans, Defs, Path, KindsOf
  <2>4. PICK o : IsPlace("types", q, o) /\ IF q[1] = NULL THEN o[1] = p ELSE IsImport(f, q, o)
    <3>1. CASE programs[p].defs[i].refs[q] # NULL
      BY <1>1, <2>3, <3>1 DEF RefMeans, Path
    <3>2. CASE programs[p].defs[i].refs[q] = NULL
      <4>1. q \in DOMAIN programs[p].scope["types"]
        BY <2>2, <2>3, <3>2 DEF IsResolved
      <4>2. Means(p, "types", q, programs[p].scope["types"][q])
        BY <1>0, <4>1 DEF ScopesMean
      <4> QED BY <1>1, <4>2 DEF Means, Path
    <3> QED BY <3>1, <3>2
  <2>5. PICK g, j : g = programs[o[1]].path /\ j = o[2]
    OBVIOUS
  <2>6. g \in Files /\ j \in Places("type", g) /\ Denotes(f, q, g) /\ q[2] = project.defs[g][j].name
    BY <1>0, <1>1, <2>4, <2>5, PlaceIsDenoted
  <2> QED BY <2>6
<1> QED BY <1>1, <1>3 DEF HasDanglingName

OnlyReached == phase = "generate" => \A k \in DOMAIN stack : programs[stack[k].prog].path \in Reached("new")

LEMMA ReachedFacts ==
  ASSUME ShapeInv, NEW s \in Sides
  PROVE  /\ project.root[s] \in Reached(s)
         /\ \A f \in Reached(s) : IncludedBy(f) \subseteq Reached(s)
<1>1. {project.root[s]} \in SUBSET Files
  BY ProjectFacts DEF Sides
<1>2. {project.root[s]} \subseteq Reached(s) /\ IsClosed(Seen, Reached(s))
  BY <1>1, SeenFacts, ReachFacts DEF Reached
<1> QED BY <1>2 DEF IsClosed, IncludedBy

LEMMA OnlyReachedNext ==
  ASSUME CoreInv, OnlyReached, [Next]_vars
  PROVE  OnlyReached'
<1>0. ShapeInv /\ TreeInv
  BY DEF CoreInv
<1>1. Reached("new")' = Reached("new")
  BY Rigid
<1>2. SUFFICES ASSUME phase' = "generate"
               PROVE  (\A k \in DOMAIN stack : programs[stack[k].prog].path \in Reached("new"))'
  BY DEF OnlyReached
<1>3. CASE ReturnToMain
  <2>1. stack' = <<GenerateFrame(1)>> /\ UNCHANGED programs
    BY <1>3 DEF ReturnToMain
  <2>2. DOMAIN stack' = {1} /\ stack'[1].prog = 1
    BY <2>1 DEF GenerateFrame, ParseFrame
  <2>3. programs[1].path = project.root["new"]
    BY <1>0 DEF ShapeInv, Path
  <2>4. project.root["new"] \in Reached("new")
    BY <1>0, ReachedFacts DEF Sides
  <2> QED BY <1>1, <2>1, <2>2, <2>3, <2>4
<1>4. ASSUME phase = "generate", UNCHANGED programs, \A k \in DOMAIN stack' : \E m \in DOMAIN stack : stack'[k].prog = stack[m].prog
      PROVE  (\A k \in DOMAIN stack : programs[stack[k].prog].path \in Reached("new"))'
  BY <1>1, <1>4 DEF OnlyReached
<1>5. ASSUME stack' = Tail(stack), stack # <<>>, NEW k \in DOMAIN stack'
      PROVE  \E m \in DOMAIN stack : stack'[k].prog = stack[m].prog
  <2>1. stack \in Seq(Frame) /\ Len(stack) \in Nat /\ DOMAIN stack = 1..Len(stack)
    BY <1>0, <1>5, TopFacts DEF ShapeInv
  <2>2. stack' \in Seq(Frame) /\ Len(stack') = Len(stack) - 1 /\ \A m \in 1..Len(stack) - 1 : stack'[m] = stack[m + 1]
    BY <1>5, <2>1, PopFacts
  <2>3. k \in 1..Len(stack) - 1
    BY <1>5, <2>2
  <2>4. k + 1 \in DOMAIN stack /\ stack'[k] = stack[k + 1]
    BY <2>1, <2>2, <2>3
  <2> QED BY <2>4
<1>6. ASSUME NEW pc \in {"includes", "write"}, WithTop([Top EXCEPT !.pc = pc]), stack # <<>>, NEW k \in DOMAIN stack'
      PROVE  \E m \in DOMAIN stack : stack'[k].prog = stack[m].prog
  <2>1. stack \in Seq(Frame) /\ Len(stack) \in Nat /\ DOMAIN stack = 1..Len(stack) /\ Top \in Frame
    BY <1>0, <1>6, TopFacts DEF ShapeInv
  <2>2. PICK t : t = [Top EXCEPT !.pc = pc] /\ t \in Frame /\ t.prog = Top.prog
    <3>1. pc \in {"begin", "includes", "types", "write"}
      OBVIOUS
    <3>2. [Top EXCEPT !.pc = pc] \in Frame /\ [Top EXCEPT !.pc = pc].prog = Top.prog
      BY <2>1, <3>1, FrameAt
    <3> QED BY <3>2
  <2>3. /\ stack' \in Seq(Frame) /\ Len(stack') = Len(stack) /\ stack'[1] = t
        /\ \A m \in 2..Len(stack) : stack'[m] = stack[m]
    BY <1>6, <2>1, <2>2, WithTopFacts
  <2>4. k \in DOMAIN stack
    BY <1>6, <2>1, <2>3
  <2>5. k # 1 => stack'[k] = stack[k]
    BY <2>1, <2>3, <2>4
  <2> QED BY <2>2, <2>3, <2>4, <2>5 DEF Top
<1>7. CASE SkipGenerated
  BY <1>4, <1>5, <1>7 DEF SkipGenerated, At, Popped
<1>8. CASE Generate
  <2>1. PICK pc \in {"includes", "write"} : WithTop([Top EXCEPT !.pc = pc])
    BY <1>8 DEF Generate
  <2> QED BY <1>4, <1>6, <1>8, <2>1 DEF Generate, At
<1>9. CASE GenerateProgram
  BY <1>4, <1>5, <1>9 DEF GenerateProgram, At, Popped, Refused
<1>10. CASE GenerateInclude
  <2>1. phase = "generate" /\ stack # <<>> /\ UNCHANGED programs
    BY <1>10 DEF GenerateInclude, At
  <2>2. PICK P, n : P = Top.prog /\ n = Top.next /\ P \in Progs /\ Top \in Frame /\ 1 \in DOMAIN stack /\ n \in Nat
    BY <1>0, <2>1, TopFacts DEF Frame
  <2>3. CASE n \notin DOMAIN programs[P].includes
    <3>1. WithTop([Top EXCEPT !.pc = "write"])
      BY <1>10, <2>2, <2>3 DEF GenerateInclude
    <3> QED BY <1>4, <1>6, <2>1, <3>1
  <2>4. CASE n \in DOMAIN programs[P].includes
    <3>1. PICK c : c = programs[P].includes[n] /\ Imports(P, c)
      BY <2>4 DEF Imports
    <3>2. PICK t, u : t = GenerateFrame(c) /\ u = [Top EXCEPT !.next = @ + 1]
      OBVIOUS
    <3>3. c \in Progs /\ programs[P].path \in Files /\ programs[c].path \in IncludedBy(programs[P].path)
      BY <2>2, <3>1, ImportsFacts
    <3>4. t \in Frame /\ t.prog = c
      BY <1>0, <3>2, <3>3 DEF GenerateFrame, ParseFrame, Frame, ShapeInv, IsSequence, Progs
    <3>5. u \in Frame /\ u.prog = P
      BY <2>2, <3>2, FrameNext
    <3>6. stack' = <<t, u>> \o Tail(stack)
      BY <1>10, <2>2, <2>4, <3>1, <3>2 DEF GenerateInclude
    <3>7. stack \in Seq(Frame) /\ Len(stack) \in Nat /\ DOMAIN stack = 1..Len(stack)
      BY <1>0, <2>1, TopFacts DEF ShapeInv
    <3>8. /\ stack' \in Seq(Frame) /\ Len(stack') = Len(stack) + 1 /\ stack'[1] = t /\ stack'[2] = u
          /\ \A k \in 3..Len(stack) + 1 : stack'[k] = stack[k - 1]
      BY <2>1, <3>4, <3>5, <3>6, <3>7, PushFacts
    <3>9. programs[P].path \in Reached("new")
      BY <2>1, <2>2 DEF OnlyReached, Top
    <3>10. programs[c].path \in Reached("new")
      BY <1>0, <3>3, <3>9, ReachedFacts DEF Sides
    <3>11. ASSUME NEW k \in DOMAIN stack' PROVE programs[stack'[k].prog].path \in Reached("new")
      <4>1. CASE k = 1
        BY <3>4, <3>8, <3>10, <4>1
      <4>2. CASE k = 2
        BY <3>5, <3>8, <3>9, <4>2
      <4>3. CASE k # 1 /\ k # 2
        <5>1. k \in 3..Len(stack) + 1 /\ k - 1 \in DOMAIN stack
          BY <3>7, <3>8, <3>11, <4>3
        <5>2. stack'[k] = stack[k - 1]
          BY <3>8, <5>1
        <5> QED BY <2>1, <5>1, <5>2 DEF OnlyReached
      <4> QED BY <4>1, <4>2, <4>3
    <3> QED BY <1>1, <2>1, <3>11
  <2> QED BY <2>3, <2>4
<1>11. CASE UNCHANGED vars
  BY SMTT(40), <1>4, <1>2, <1>11 DEF vars
<1>12. ReturnToMain \/ SkipGenerated \/ Generate \/ GenerateInclude \/ GenerateProgram \/ UNCHANGED vars
  BY Zenon, <1>2 DEF Next, SkipRecursion, ScanIncludes, Recurse, Overflow, SaveScope, DefineType, DefineConst,
              Defined, Refused, Return, ReturnToAudit, At, Defining
<1> QED BY <1>3, <1>7, <1>8, <1>9, <1>10, <1>11, <1>12

LEMMA GenerateNext ==
  ASSUME CoreInv, NamesInv, SettledInv, GenerateInv, [Next]_vars
  PROVE  GenerateInv'
<1>1. OnlyReached
  BY DEF GenerateInv, OnlyReached, Path
<1>2. OnlyReached'
  BY <1>1, OnlyReachedNext
<1>3. \A f : HasDanglingName("type", f)' = HasDanglingName("type", f)
  BY Rigid DEF HasDanglingName, Denotes, Places, IncludedBy, BaseName
<1>4. ASSUME NEW f \in generated_files' PROVE ~ HasDanglingName("type", f)
  <2>1. CASE f \in generated_files
    BY <2>1 DEF GenerateInv
  <2>2. CASE f \notin generated_files
    <3>1. GenerateProgram /\ IsResolved(Top.prog) /\ f = Path(Top.prog)
      BY Zenon, <1>4, <2>2 DEF Next, vars, SkipRecursion, ScanIncludes, Recurse, Overflow,
         SaveScope, DefineType, DefineConst, Defined, Refused, Return, ReturnToAudit, ReturnToMain,
         SkipGenerated, Popped, End, Generate, GenerateInclude, GenerateProgram
    <3>2. phase = "generate" /\ stack # <<>>
      BY <3>1 DEF GenerateProgram, At
    <3>3. Top.prog \in Progs
      BY <3>2, TopFacts DEF CoreInv
    <3> QED BY SMTT(40), <3>1, <3>2, <3>3, ResolvedIsNotDangling DEF Path
  <2> QED BY <2>1, <2>2
<1> QED BY <1>2, <1>3, <1>4 DEF GenerateInv, OnlyReached, Path

LEMMA NothingIsSettled ==
  ASSUME Init, NEW p \in Progs
  PROVE  ~ Settled(p)
<1>1. DOMAIN stack = {1} /\ stack[1].prog = Len(programs) /\ stack[1].pc = "begin" /\ phase = "parse"
  BY DEF Init, ParseFrame
<1>2. CASE request.audit
  <2>1. Progs = {1, 2} /\ Len(programs) = 2 /\ side = "old"
    BY <1>2 DEF Init, Progs
  <2> QED BY <1>1, <2>1 DEF Settled
<1>3. CASE ~ request.audit
  <2>1. Progs = {1} /\ Len(programs) = 1
    BY <1>3 DEF Init, Progs
  <2> QED BY <1>1, <2>1 DEF Settled
<1> QED BY <1>2, <1>3

LEMMA OutcomeInit ==
  ASSUME Init
  PROVE  OutcomeInv
<1>1. \A p \in Progs : /\ programs[p].includes = <<>> /\ programs[p].defs = <<>>
                       /\ \A kind \in Kinds : DOMAIN programs[p].scope[kind] = {}
  BY NewProgramFacts DEF Init, Progs
<1>2. (\A p \in Progs, kind \in Kinds : DefsOf(p, kind) = {}) /\ \A p \in Progs : \A c : ~ Imports(p, c)
  BY <1>1 DEF DefsOf, Imports
<1>3. Known = {} /\ generated_files = {} /\ phase = "parse"
  BY DEF Init, Known
<1>5. HoldsOwn /\ HoldsImports /\ OwnOnce
  BY <1>2 DEF HoldsOwn, HoldsImports, OwnOnce
<1>6. ConstsOnce /\ TypesOnce
  BY <1>2 DEF ConstsOnce, TypesOnce
<1>7. SavedHolds /\ FirstInv
  BY <1>3 DEF SavedHolds, FirstInv
<1>8. SettledInv
  BY NothingIsSettled DEF SettledInv
<1> QED BY <1>3, <1>5, <1>6, <1>7, <1>8 DEF OutcomeInv, GenerateInv

LEMMA OutcomeNext ==
  ASSUME CoreInv, NamesInv, OutcomeInv, [Next]_vars
  PROVE  OutcomeInv'
BY HoldsOwnNext, HoldsImportsNext, SavedHoldsNext, OwnOnceNext, ConstsOnceNext, TypesOnceNext,
   SettledNext, FirstNext, GenerateNext DEF OutcomeInv

LEMMA OverflowHolds == Spec => []OverflowInv
<1>1. Init => OverflowInv
  BY DEF Init, OverflowInv
<1>2. CoreInv /\ OverflowInv /\ [Next]_vars => OverflowInv'
  BY OverflowNext
<1> QED BY <1>1, <1>2, CoreHolds, PTL DEF Spec

LEMMA OutcomeHolds == Spec => []OutcomeInv
<1>1. Init => OutcomeInv
  BY OutcomeInit
<1>2. CoreInv /\ NamesInv /\ OutcomeInv /\ [Next]_vars => OutcomeInv'
  BY OutcomeNext
<1> QED BY <1>1, <1>2, CoreHolds, NamesHold, PTL DEF Spec

(****************************************************************************)
(* The programs of a file.                                                   *)
(****************************************************************************)
LEMMA AllAreSettled ==
  ASSUME CoreInv, OutcomeInv, phase # "parse", NEW p \in Progs
  PROVE  Settled(p) /\ IsAsSaved(p) /\ IsComplete(p)
BY DEF OutcomeInv, SettledInv, Settled, IsSettled

\* After parsing, whatever is in the scope of a program is in that of another one of its
\* file, with the same meaning.
LEMMA ScopesAgree ==
  ASSUME CoreInv, NamesInv, OutcomeInv, phase # "parse",
         NEW p \in Progs, NEW r \in Progs, programs[p].path = programs[r].path, NEW kind \in Kinds,
         NEW q \in DOMAIN programs[p].scope[kind]
  PROVE  /\ q \in DOMAIN programs[r].scope[kind]
         /\ Meaning(programs[p].scope[kind])[q] = Meaning(programs[r].scope[kind])[q]
<1>0. HoldsOwn /\ OwnOnce /\ ScopesMean
  BY DEF OutcomeInv, NamesInv
<1>1. PICK f, o : f = programs[p].path /\ o = programs[p].scope[kind][q]
  OBVIOUS
<1>2. Means(p, kind, q, o)
  BY <1>0, <1>1 DEF ScopesMean
<1>3. CASE q[1] # NULL
  <2>1. /\ SameImports(programs[p].scope[kind], program_to_scope[f][kind])
        /\ SameImports(programs[r].scope[kind], program_to_scope[f][kind])
    BY <1>1, AllAreSettled DEF IsAsSaved
  <2>2. q \in DOMAIN programs[r].scope[kind] /\ programs[r].scope[kind][q] = o
    BY SMTT(40), <1>1, <1>3, <2>1 DEF SameImports
  <2> QED BY <1>1, <2>2 DEF Meaning
<1>4. CASE q[1] = NULL
  <2>1. PICK j : j = o[2] /\ o[1] = p /\ j \in DefsOf(p, kind) /\ programs[p].defs[j].name = q[2] /\ q = <<q[1], q[2]>>
    BY SMTT(40), <1>2, <1>4 DEF Means, IsPlace, DefsOf
  <2>2. j \in Places(KindOf(kind), f) /\ q[2] = project.defs[f][j].name
    BY ZenonT(40), <1>1, <2>1, DefFacts
  <2>3. IsComplete(r)
    BY AllAreSettled
  <2>4. j \in DefsOf(r, kind) /\ programs[r].defs[j].name = q[2]
    BY <1>1, <2>2, <2>3, DefFacts
  <2>5. q \in DOMAIN programs[r].scope[kind]
    BY <1>0, <1>4, <2>1, <2>4 DEF HoldsOwn
  <2>6. PICK u : u = programs[r].scope[kind][q]
    OBVIOUS
  <2>7. Means(r, kind, q, u)
    BY <1>0, <2>5, <2>6 DEF ScopesMean
  <2>8. u[1] = r /\ u[2] \in DefsOf(r, kind) /\ programs[r].defs[u[2]].name = q[2]
    BY <1>4, <2>7 DEF Means, IsPlace, DefsOf
  <2>9. u[2] = j
    BY <1>0, <2>4, <2>8 DEF OwnOnce
  <2> QED BY Zenon, <1>1, <2>1, <2>5, <2>6, <2>8, <2>9 DEF Meaning, Path
<1> QED BY <1>3, <1>4

\* The scopes of all programs of a file mean the same in the end, however often it was
\* included (main.cc:913-916): those that were not scanned have the saved imports and the
\* definitions of the file, and no name stands for two of them.
THEOREM ProgramsOfAFileAgree == Spec => []CopiesAgree
<1>1. ASSUME CoreInv, NamesInv, OutcomeInv PROVE CopiesAgree
  <2>1. SUFFICES ASSUME phase # "parse", NEW p \in Progs, NEW r \in Progs, Path(p) = Path(r), NEW kind \in Kinds
                 PROVE  Meaning(programs[p].scope[kind]) = Meaning(programs[r].scope[kind])
    BY DEF CopiesAgree, Kinds, Progs
  <2>2. programs[p].path = programs[r].path
    BY <2>1 DEF Path
  <2>3. \A q \in DOMAIN programs[p].scope[kind] :
          /\ q \in DOMAIN programs[r].scope[kind]
          /\ Meaning(programs[p].scope[kind])[q] = Meaning(programs[r].scope[kind])[q]
    BY <1>1, <2>1, <2>2, ScopesAgree
  <2>4. \A q \in DOMAIN programs[r].scope[kind] : q \in DOMAIN programs[p].scope[kind]
    BY <1>1, <2>1, <2>2, ScopesAgree
  <2>5. PICK names, others : names = programs[p].scope[kind] /\ others = programs[r].scope[kind]
    OBVIOUS
  <2>6. DOMAIN names = DOMAIN others
    BY <2>3, <2>4, <2>5
  <2>7. \A q \in DOMAIN names : Meaning(names)[q] = Meaning(others)[q]
    BY <2>3, <2>5
  <2>8. Meaning(names) = Meaning(others)
    BY <2>6, <2>7 DEF Meaning
  <2> QED BY <2>5, <2>8
<1> QED BY <1>1, CoreHolds, NamesHold, OutcomeHolds, PTL

(****************************************************************************)
(* Why a project is refused.                                                 *)
(****************************************************************************)
\* The definition that is parsed, on disk.
LEMMA CurrentFacts ==
  ASSUME CoreInv, Defining, NEW kind \in Kinds, Current.kind = KindOf(kind), NEW f, f = programs[Top.prog].path
  PROVE  /\ Top.prog \in Progs /\ f \in Files /\ f \in Reached(side) /\ phase = "parse"
         /\ Top.next \in Places(KindOf(kind), f) /\ Current = project.defs[f][Top.next]
         /\ Settled(Top.prog)
         /\ \A j \in Nat \ {0} : j < Top.next => j \in DOMAIN programs[Top.prog].defs
<1>0. ShapeInv /\ FreshInv /\ ChainInv /\ phase = "parse" /\ stack # <<>> /\ Top.pc = "types"
  BY DEF CoreInv, Defining, At
<1>1. PICK P, n : P = Top.prog /\ n = Top.next /\ P \in Progs /\ n \in Nat \ {0} /\ 1 \in DOMAIN stack
  BY <1>0, TopFacts DEF Frame
<1>2. f \in Files
  BY <1>0, <1>1 DEF ShapeInv, IsProgram
<1>3. f \in Reached(side)
  BY <1>0, <1>1 DEF ChainInv, Top, Path
<1>4. n \in Places(KindOf(kind), f) /\ Current = project.defs[f][n]
  BY <1>1 DEF Defining, Current, Defs, Path, Places
<1>5. DOMAIN programs[P].defs = 1..n - 1
  BY <1>0, <1>1 DEF FreshInv, ShapeInv, IsProgram, IsSequence
<1>6. Settled(P)
  <2>1. ~ Pending(P, 1)
    BY <1>0, <1>1 DEF Pending, Top
  <2>2. NonePending(P)
    BY <1>0, <1>1, <2>1, TopIsNotPending DEF NonePending
  <2> QED BY <2>2, SettledIsNonePending
<1>7. \A j \in Nat \ {0} : j < n => j \in DOMAIN programs[P].defs
  BY <1>1, <1>5
<1> QED BY <1>0, <1>1, <1>2, <1>3, <1>4, <1>6, <1>7

LEMMA CurrentIsLater ==
  ASSUME CoreInv, Defining, NEW j \in DOMAIN programs[Top.prog].defs
  PROVE  j # Top.next
<1>0. ShapeInv /\ FreshInv /\ phase = "parse" /\ stack # <<>> /\ Top.pc = "types"
  BY DEF CoreInv, Defining, At
<1>1. PICK P, n : P = Top.prog /\ n = Top.next /\ P \in Progs /\ n \in Nat \ {0}
  BY <1>0, TopFacts DEF Frame
<1>2. DOMAIN programs[P].defs = 1..n - 1
  BY <1>0, <1>1 DEF FreshInv, ShapeInv, IsProgram, IsSequence
<1> QED BY <1>1, <1>2

LEMMA RefusedTypeIsTwice ==
  ASSUME CoreInv, NamesInv, Defining, Current.kind = "type", ~ IsUniqueTypename
  PROVE  \E f \in Reached(side) : HasTypeTwice(f)
<1>0. "types" \in Kinds /\ KindOf("types") = "type"
  BY DEF Kinds, KindOf
<1>1. PICK P, n, f : P = Top.prog /\ n = Top.next /\ f = programs[P].path
  OBVIOUS
<1>2. /\ P \in Progs /\ f \in Files /\ f \in Reached(side) /\ n \in Places("type", f) /\ Current = project.defs[f][n]
  BY <1>0, <1>1, CurrentFacts
<1>3. PICK p \in {P} \cup Range(programs[P].includes) : SameTypename(p)
  BY SMTT(40), <1>1 DEF IsUniqueTypename
<1>4. PICK i \in DOMAIN programs[p].defs :
        /\ programs[p].defs[i].kind = "type" /\ programs[p].defs[i].name = project.defs[f][n].name
        /\ project.namespace[programs[p].path] = project.namespace[f]
  BY Zenon, <1>1, <1>2, <1>3 DEF SameTypename, Path
<1>5. i \in DefsOf(p, "types")
  BY <1>0, <1>4 DEF DefsOf
<1>6. CASE p = P
  <2>1. i \in Places("type", f) /\ project.defs[f][i].name = project.defs[f][n].name
    BY <1>0, <1>1, <1>2, <1>4, <1>5, <1>6, DefFacts
  <2>2. i # n
    BY <1>1, <1>4, <1>6, CurrentIsLater
  <2> QED BY <1>2, <2>1, <2>2 DEF HasTypeTwice, Twice
<1>7. CASE p # P
  <2>1. Imports(P, p)
    BY <1>3, <1>7 DEF Range, Imports
  <2>2. PICK g : p \in Progs /\ g = programs[p].path /\ g \in IncludedBy(f)
    BY <1>1, <1>2, <2>1, ImportsFacts
  <2>3. i \in Places("type", g) /\ project.defs[g][i].name = project.defs[f][n].name
    BY <1>0, <1>4, <1>5, <2>2, DefFacts
  <2>4. project.defs[f][n].name \in Names("type", f) \cap Names("type", g)
    BY <1>2, <2>3 DEF Names
  <2> QED BY <1>2, <1>4, <2>2, <2>4 DEF HasTypeTwice
<1> QED BY <1>6, <1>7

LEMMA RefusedConstIsTwice ==
  ASSUME CoreInv, NamesInv, Defining, Current.kind = "const", ~ IsNewConstant
  PROVE  \E f \in Reached(side) : HasConstTwice(f)
<1>0. "consts" \in Kinds /\ KindOf("consts") = "const" /\ ScopesMean /\ ShapeInv /\ StackInv /\ TreeInv
  BY DEF Kinds, KindOf, NamesInv, CoreInv
<1>1. PICK P, n, f : P = Top.prog /\ n = Top.next /\ f = programs[P].path
  OBVIOUS
<1>2. /\ P \in Progs /\ f \in Files /\ f \in Reached(side) /\ n \in Places("const", f) /\ Current = project.defs[f][n]
      /\ phase = "parse"
  BY SMTT(40), <1>0, <1>1, CurrentFacts
\* A place that has the name.
<1>3. ASSUME NEW p \in Progs, NEW q \in DOMAIN programs[p].scope["consts"], q[2] = Current.name
      PROVE  \E r \in Progs : \E i \in DefsOf(r, "consts") :
               /\ programs[r].defs[i].name = Current.name
               /\ programs[p].scope["consts"][q][1] = r
               /\ Means(p, "consts", q, programs[p].scope["consts"][q])
  <2>1. PICK o : o = programs[p].scope["consts"][q] /\ Means(p, "consts", q, o)
    BY SMTT(40), <1>0, <1>3 DEF ScopesMean
  <2>2. o[1] \in Progs /\ o[2] \in DefsOf(o[1], "consts") /\ programs[o[1]].defs[o[2]].name = Current.name
    BY Zenon, <1>3, <2>1 DEF Means, IsPlace, DefsOf
  <2> QED BY Zenon, <2>1, <2>2
<1>4. ASSUME NEW i \in DefsOf(P, "consts"), programs[P].defs[i].name = Current.name
      PROVE  HasConstTwice(f)
  <2>1. i \in Places("const", f) /\ project.defs[f][i].name = project.defs[f][n].name
    BY <1>0, <1>1, <1>2, <1>4, DefFacts
  <2>2. i # n
    BY <1>1, <1>4, CurrentIsLater DEF DefsOf
  <2> QED BY <1>2, <2>1, <2>2 DEF HasConstTwice, Twice
<1>5. CASE <<NULL, Current.name>> \in DOMAIN programs[P].scope["consts"]
  <2>1. PICK q : q = <<NULL, Current.name>> /\ q[1] = NULL /\ q[2] = Current.name
    <3>1. PICK q : q = <<NULL, Current.name>>
      OBVIOUS
    <3>2. q[1] = NULL /\ q[2] = Current.name
      BY <3>1
    <3> QED BY <3>1, <3>2
  <2>2. PICK r \in Progs : \E i \in DefsOf(r, "consts") :
               /\ programs[r].defs[i].name = Current.name
               /\ programs[P].scope["consts"][q][1] = r
               /\ Means(P, "consts", q, programs[P].scope["consts"][q])
    BY <1>2, <1>3, <1>5, <2>1
  <2>3. r = P
    BY <2>1, <2>2 DEF Means
  <2> QED BY <1>2, <1>4, <2>2, <2>3
<1>6. CASE Top.parent # NULL /\ <<Prefix, Current.name>> \in DOMAIN programs[Top.parent].scope["consts"]
  <2>1. PICK Q, k : /\ Q = Top.parent /\ Q = stack[2].prog /\ 2 \in DOMAIN stack /\ Q \in Progs
                    /\ k \in DOMAIN programs[Q].includes /\ P = programs[Q].includes[k]
    <3>1. stack # <<>>
      BY DEF Defining, At
    <3> QED BY <1>0, <1>1, <1>2, <1>6, <3>1, ParentFacts
  <2>2. PICK e : e = programs[Q].path
    OBVIOUS
  <2>3. e \in Reached(side)
    BY <1>2, <2>1, <2>2 DEF CoreInv, ChainInv, Path
  <2>4. PICK q : q = <<Prefix, Current.name>> /\ q[1] = Prefix /\ q[2] = Current.name
    <3>1. PICK q : q = <<Prefix, Current.name>>
      OBVIOUS
    <3>2. q[1] = Prefix /\ q[2] = Current.name
      BY <3>1
    <3> QED BY <3>1, <3>2
  <2>5. Prefix = project.base[f] /\ Prefix # NULL
    BY <1>0, <1>1, <1>2, ProjectFacts DEF Prefix, Path, BaseName
  <2>6. PICK r \in Progs : \E i \in DefsOf(r, "consts") :
               /\ programs[r].defs[i].name = Current.name
               /\ programs[Q].scope["consts"][q][1] = r
               /\ Means(Q, "consts", q, programs[Q].scope["consts"][q])
    BY <1>3, <1>6, <2>1, <2>4
  <2>7. PICK i \in DefsOf(r, "consts") : programs[r].defs[i].name = Current.name
    BY <2>6
  <2>8. /\ Prefix = project.base[programs[r].path]
        /\ \E m \in DOMAIN programs[Q].includes : r = programs[Q].includes[m]
    <3>1. PICK o : o = programs[Q].scope["consts"][q] /\ o[1] = r /\ Means(Q, "consts", q, o)
      BY <2>6
    <3>2. q[1] # NULL /\ programs[Q].includes # <<>>
      BY <2>1, <2>4, <2>5
    <3> QED BY <2>4, <3>1, <3>2 DEF Means, IsImport, Path, BaseName
  <2>9. PICK m \in DOMAIN programs[Q].includes : r = programs[Q].includes[m]
    BY <2>8
  <2>10. CASE r = P
    BY <1>2, <1>4, <2>7, <2>10
  <2>11. CASE r # P
    <3>1. m # k
      BY <2>1, <2>9, <2>11
    <3>2. Scanned(Q) /\ programs[P].path = Seen[e][k] /\ programs[r].path = Seen[e][m]
      BY <1>0, <2>1, <2>2, <2>9 DEF TreeInv, Path
    <3>3. k \in DOMAIN Seen[e] /\ m \in DOMAIN Seen[e]
      BY <2>1, <2>2, <3>2 DEF Scanned, Path
    <3>4. PICK g : g = programs[r].path
      OBVIOUS
    <3>5. i \in Places("const", g) /\ project.defs[g][i].name = project.defs[f][n].name
      BY <1>0, <1>2, <2>7, <3>4, DefFacts
    <3>6. project.defs[f][n].name \in Names("const", f) \cap Names("const", g)
      BY <1>2, <3>5 DEF Names
    <3>7. BaseName(Seen[e][k]) = BaseName(Seen[e][m]) /\ Names("const", Seen[e][k]) \cap Names("const", Seen[e][m]) # {}
      BY <1>1, <2>5, <2>8, <3>2, <3>4, <3>6 DEF BaseName
    <3>8. HasConstTwice(e)
      BY <3>1, <3>3, <3>7 DEF HasConstTwice
    <3> QED BY <2>3, <3>8
  <2> QED BY <2>10, <2>11
<1> QED BY <1>1, <1>5, <1>6 DEF IsNewConstant

LEMMA RefusedReferenceIsDangling ==
  ASSUME CoreInv, NamesInv, OutcomeInv, Defining, Current.kind = "const",
         NEW q \in Current.refs, Bound("consts")[q] = NULL
  PROVE  \E f \in Reached(side) : HasDanglingName("const", f)
<1>0. "consts" \in Kinds /\ KindOf("consts") = "const" /\ ScopesMean /\ ShapeInv
  BY DEF Kinds, KindOf, NamesInv, CoreInv
<1>1. PICK P, n, f : P = Top.prog /\ n = Top.next /\ f = programs[P].path
  OBVIOUS
<1>2. /\ P \in Progs /\ f \in Files /\ f \in Reached(side) /\ n \in Places("const", f) /\ Current = project.defs[f][n]
      /\ Settled(P) /\ \A j \in Nat \ {0} : j < n => j \in DOMAIN programs[P].defs
  BY <1>0, <1>1, CurrentFacts
<1>3. q \notin DOMAIN programs[P].scope["consts"]
  <2>1. SUFFICES ASSUME q \in DOMAIN programs[P].scope["consts"] PROVE FALSE
    OBVIOUS
  <2>2. PICK o : o = programs[P].scope["consts"][q] /\ Means(P, "consts", q, o)
    BY SMTT(40), <1>0, <1>2, <2>1 DEF ScopesMean
  <2>3. o \in Nat \X Nat /\ o # NULL
    BY Zenon, <2>2, IncludesAssumption DEF Means, IsPlace
  <2>4. Bound("consts")[q] = o
    BY <1>1, <2>1, <2>2 DEF Bound, Lookup
  <2> QED BY <2>3, <2>4
<1>4. q = <<q[1], q[2]>>
  BY <1>0, <1>2, IncludesAssumption DEF ShapeInv, IsProject, Definition, Places
<1>5. ASSUME NEW g \in Files, NEW j \in Places("const", g), Denotes(f, q, g), q[2] = project.defs[g][j].name,
             g = f => j < n
      PROVE  FALSE
  <2>1. j \in Nat \ {0}
    <3>1. IsSequence(project.defs[g]) /\ j \in DOMAIN project.defs[g]
      BY <1>0, <1>5, ProjectFacts DEF Places
    <3>2. PICK m : m = Len(project.defs[g]) /\ m \in Nat /\ j \in 1..m
      BY <3>1 DEF IsSequence
    <3> QED BY <3>2
  <2>2. g = f => j \in DOMAIN programs[P].defs
    BY <1>2, <1>5, <2>1
  <2>3. HoldsOwn /\ SavedHolds /\ SettledInv
    BY DEF OutcomeInv
  <2>4. q \in DOMAIN programs[P].scope["consts"]
    BY <1>0, <1>1, <1>2, <1>4, <1>5, <2>2, <2>3, NameIsInScope
  <2> QED BY <1>3, <2>4
<1>6. q \in project.defs[f][n].refs
  BY <1>2
<1> QED BY <1>2, <1>5, <1>6 DEF HasDanglingName

LEMMA FailureNext ==
  ASSUME CoreInv, NamesInv, OutcomeInv, OverflowInv, FailureHasCause, [Next]_vars
  PROVE  FailureHasCause'
<1>0. ShapeInv
  BY DEF CoreInv
<1>1. (\A s : Reached(s)' = Reached(s)) /\ \A f : Faulty(f)' <=> Faulty(f)
  <2>1. \A s : Reached(s)' = Reached(s)
    BY Rigid
  <2>2. ASSUME NEW f PROVE Faulty(f)' <=> Faulty(f)
    <3>0. Seen' = Seen /\ project' = project
      BY Rigid
    <3>1. HasTypeTwice(f)' <=> HasTypeTwice(f)
      <4>1. Twice("type", f)' <=> Twice("type", f)
        BY <3>0 DEF Twice, Places
      <4>2. (\A g : Names("type", g)' = Names("type", g)) /\ IncludedBy(f)' = IncludedBy(f)
        BY <3>0 DEF Names, Places, IncludedBy
      <4> QED BY <3>0, <4>1, <4>2 DEF HasTypeTwice
    <3>2. HasConstTwice(f)' <=> HasConstTwice(f)
      <4>1. Twice("const", f)' <=> Twice("const", f)
        BY <3>0 DEF Twice, Places
      <4>2. (\A g : Names("const", g)' = Names("const", g)) /\ \A g : BaseName(g)' = BaseName(g)
        BY <3>0 DEF Names, Places, BaseName
      <4> QED BY SMTT(40), <3>0, <4>1, <4>2 DEF HasConstTwice
    <3>3. \A kind : HasDanglingName(kind, f)' = HasDanglingName(kind, f)
      BY Rigid DEF HasDanglingName, Denotes, Places, IncludedBy, BaseName
    <3> QED BY <3>1, <3>2, <3>3 DEF Faulty, CannotParse
  <2> QED BY <2>1, <2>2
<1>2. SUFFICES ASSUME status' = "failure" PROVE \E f \in Reached(side)' : Faulty(f)'
  BY DEF FailureHasCause
<1>3. ASSUME Refused, \E f \in Reached(side) : Faulty(f) PROVE \E f \in Reached(side)' : Faulty(f)'
  <2>1. PICK s : s = side /\ s = side'
    BY <1>3 DEF Refused
  <2>2. PICK f \in Reached(s) : Faulty(f)
    BY <1>3, <2>1
  <2>3. f \in Reached(side)'
    BY <1>1, <2>1, <2>2 DEF Reached
  <2> QED BY <1>1, <2>2, <2>3
<1>4. CASE DefineType /\ ~ IsUniqueTypename
  <2>1. Refused /\ Defining /\ Current.kind = "type"
    BY <1>4 DEF DefineType
  <2>2. \E f \in Reached(side) : Faulty(f)
    BY <1>4, <2>1, RefusedTypeIsTwice DEF Faulty, CannotParse
  <2> QED BY <1>3, <2>1, <2>2
<1>5. CASE DefineConst /\ ~ (IsNewConstant /\ \A q \in Current.refs : Bound("consts")[q] # NULL)
  <2>1. Refused /\ Defining /\ Current.kind = "const"
    BY <1>5 DEF DefineConst
  <2>2. \E f \in Reached(side) : Faulty(f)
    <3>1. CASE ~ IsNewConstant
      BY <2>1, <3>1, RefusedConstIsTwice DEF Faulty, CannotParse
    <3>2. CASE IsNewConstant
      <4>1. PICK q \in Current.refs : Bound("consts")[q] = NULL
        BY <1>5, <3>2
      <4> QED BY <2>1, <4>1, RefusedReferenceIsDangling DEF Faulty, CannotParse
    <3> QED BY <3>1, <3>2
  <2> QED BY <1>3, <2>1, <2>2
<1>6. CASE GenerateProgram /\ ~ IsResolved(Top.prog)
  <2>1. Refused /\ phase = "generate" /\ stack # <<>>
    BY <1>6 DEF GenerateProgram, At
  <2>2. PICK P : P = Top.prog /\ P \in Progs /\ 1 \in DOMAIN stack /\ P = stack[1].prog
    BY <1>0, <2>1, TopFacts DEF Top
  <2>3. HoldsOwn /\ SavedHolds /\ SettledInv /\ GenerateInv /\ side = "new"
    BY <2>1 DEF OutcomeInv, OverflowInv
  <2>4. programs[P].path \in Reached(side)
    BY <2>1, <2>2, <2>3 DEF GenerateInv, Path
  <2>5. HasDanglingName("type", programs[P].path)
    BY <1>6, <2>1, <2>2, <2>3, UnresolvedIsDangling
  <2>6. \E f \in Reached(side) : Faulty(f)
    BY <2>4, <2>5 DEF Faulty
  <2> QED BY <1>3, <2>1, <2>6
<1>7. CASE status = "failure"
  <2>1. UNCHANGED vars
    BY <1>7 DEF Next, SkipRecursion, ScanIncludes, Recurse, Overflow, SaveScope, DefineType, DefineConst, Defining,
                Return, ReturnToAudit, ReturnToMain, SkipGenerated, Generate, GenerateInclude, GenerateProgram, At
  <2>2. PICK s : s = side /\ s = side'
    BY <2>1 DEF vars
  <2>3. PICK f \in Reached(s) : Faulty(f)
    BY <1>7, <2>2 DEF FailureHasCause
  <2>4. f \in Reached(side)'
    BY <1>1, <2>2, <2>3 DEF Reached
  <2> QED BY <1>1, <2>3, <2>4
<1>8. CASE status # "failure"
  <2>1. \/ DefineType /\ ~ IsUniqueTypename
        \/ DefineConst /\ ~ (IsNewConstant /\ \A q \in Current.refs : Bound("consts")[q] # NULL)
        \/ GenerateProgram /\ ~ IsResolved(Top.prog)
    BY Zenon, <1>2, <1>8 DEF Next, vars, SkipRecursion, ScanIncludes, Recurse, Overflow, SaveScope, DefineType, DefineConst,
                Defined, Return, ReturnToAudit, ReturnToMain, SkipGenerated, Generate, GenerateInclude,
                GenerateProgram, Popped, End
  <2> QED BY SMTT(40), <1>4, <1>5, <1>6, <2>1
<1> QED BY <1>7, <1>8

\* The compiler refuses a project only for something wrong with a file of it: a type or a
\* constant that is not new is there twice, in the file or next to it, and a name that is not
\* in a scope denotes nothing, as scopes have all that could be denoted (thrifty.yy:489-491,
\* t_scope.h:51, t_program.h:118-125, t_typedef.cc:24-34).
THEOREM RefusedForACause == Spec => []FailureHasCause
<1>1. Init => FailureHasCause
  BY DEF Init, FailureHasCause
<1>2. CoreInv /\ NamesInv /\ OutcomeInv /\ OverflowInv /\ FailureHasCause /\ [Next]_vars => FailureHasCause'
  BY FailureNext
<1> QED BY <1>1, <1>2, CoreHolds, NamesHold, OutcomeHolds, OverflowHolds, PTL DEF Spec

(****************************************************************************)
(* What is accepted.                                                         *)
(****************************************************************************)
LEMMA ReachedIsKnown ==
  ASSUME CoreInv, phase # "parse"
  PROVE  Reached("new") \subseteq Known
<1>1. project.root["new"] \in Known /\ Known \in SUBSET Files /\ IsClosed(Seen, Known)
  BY DEF CoreInv, KnownInv
<1>2. {project.root["new"]} \subseteq Known
  BY <1>1
<1> QED BY <1>1, <1>2, ReachLeast DEF Reached

\* The first program of a file has been through all of its definitions and includes.
LEMMA ParsedIsSound ==
  ASSUME CoreInv, NamesInv, OutcomeInv, phase # "parse", NEW f \in Known
  PROVE  ~ CannotParse(f)
<1>0. ShapeInv /\ OwnOnce /\ ConstsOnce /\ TypesOnce /\ FirstInv /\ DefsMean
  BY DEF CoreInv, OutcomeInv, NamesInv
<1>1. PICK p \in Progs : f = programs[p].path /\ Scanned(p)
  BY <1>0 DEF FirstInv
<1>2. \A c \in Progs : IsComplete(c)
  BY AllAreSettled
\* The definitions on disk are those of the programs.
<1>3. ASSUME NEW kind \in Kinds, NEW c \in Progs, NEW j \in Places(KindOf(kind), programs[c].path)
      PROVE  j \in DefsOf(c, kind) /\ programs[c].defs[j].name = project.defs[programs[c].path][j].name
  BY <1>2, <1>3, DefFacts
<1>4. \A kind \in Kinds : ~ Twice(KindOf(kind), f)
  <2>1. SUFFICES ASSUME NEW kind \in Kinds, NEW i \in Places(KindOf(kind), f), NEW j \in Places(KindOf(kind), f),
                        project.defs[f][i].name = project.defs[f][j].name
                 PROVE  i = j
    BY DEF Twice
  <2>2. /\ i \in DefsOf(p, kind) /\ j \in DefsOf(p, kind)
        /\ programs[p].defs[i].name = programs[p].defs[j].name
    BY <1>1, <1>3, <2>1
  <2> QED BY <1>0, <2>2 DEF OwnOnce
<1>5. "types" \in Kinds /\ KindOf("types") = "type" /\ "consts" \in Kinds /\ KindOf("consts") = "const"
  BY DEF Kinds, KindOf
<1>6. ~ HasTypeTwice(f)
  <2>1. ASSUME NEW g \in IncludedBy(f), project.namespace[f] = project.namespace[g],
               NEW n, n \in Names("type", f), n \in Names("type", g)
        PROVE  FALSE
    <3>1. PICK c \in Progs : Imports(p, c) /\ programs[c].path = g
      BY <1>1, <2>1, ScannedFacts
    <3>2. PICK i \in Places("type", f), j \in Places("type", g) :
            project.defs[f][i].name = n /\ project.defs[g][j].name = n
      BY <2>1 DEF Names
    <3>3. i \in DefsOf(p, "types") /\ programs[p].defs[i].name = n
      BY <1>1, <1>3, <1>5, <3>2
    <3>4. j \in DefsOf(c, "types") /\ programs[c].defs[j].name = n
      BY <1>3, <1>5, <3>1, <3>2
    <3> QED BY <1>0, <1>1, <2>1, <3>1, <3>3, <3>4 DEF TypesOnce
  <2>2. ~ Twice("type", f)
    BY <1>4, <1>5
  <2> QED BY <2>1, <2>2 DEF HasTypeTwice
<1>7. ~ HasConstTwice(f)
  <2>1. ASSUME NEW i \in DOMAIN Seen[f], NEW j \in DOMAIN Seen[f], i # j, BaseName(Seen[f][i]) = BaseName(Seen[f][j]),
               NEW n, n \in Names("const", Seen[f][i]), n \in Names("const", Seen[f][j])
        PROVE  FALSE
    <3>1. PICK c \in Progs : c = programs[p].includes[i] /\ Imports(p, c) /\ programs[c].path = Seen[f][i]
      BY <1>1, <2>1, ScannedFacts
    <3>2. PICK d \in Progs : d = programs[p].includes[j] /\ Imports(p, d) /\ programs[d].path = Seen[f][j]
      BY <1>1, <2>1, ScannedFacts
    <3>3. c # d
      BY <1>1, <2>1, <3>1, <3>2, ScannedFacts
    <3>4. PICK k \in Places("const", Seen[f][i]), m \in Places("const", Seen[f][j]) :
            project.defs[Seen[f][i]][k].name = n /\ project.defs[Seen[f][j]][m].name = n
      BY <2>1 DEF Names
    <3>5. k \in DefsOf(c, "consts") /\ programs[c].defs[k].name = n
      BY SMTT(40), <1>3, <1>5, <3>1, <3>4
    <3>6. m \in DefsOf(d, "consts") /\ programs[d].defs[m].name = n
      BY SMTT(40), <1>3, <1>5, <3>2, <3>4
    <3> QED BY SMTT(40), <1>0, <2>1, <3>1, <3>2, <3>3, <3>5, <3>6 DEF ConstsOnce
  <2>2. ~ Twice("const", f)
    BY <1>4, <1>5
  <2> QED BY <2>1, <2>2 DEF HasConstTwice
<1>8. ~ HasDanglingName("const", f)
  <2>1. SUFFICES ASSUME NEW i \in Places("const", f), NEW q \in project.defs[f][i].refs
                 PROVE  \E g \in Files : \E j \in Places("const", g) :
                          Denotes(f, q, g) /\ q[2] = project.defs[g][j].name /\ (g = f => j < i)
    BY DEF HasDanglingName
  <2>2. i \in DefsOf(p, "consts")
    BY <1>1, <1>3, <1>5, <2>1
  <2>3. i \in DOMAIN programs[p].defs /\ programs[p].defs[i].kind = "const"
    BY <1>5, <2>2 DEF DefsOf
  <2>4. q \in DOMAIN programs[p].defs[i].refs /\ RefMeans(p, i, "consts", q, programs[p].defs[i].refs[q])
    <3>1. DefMeans(p, i, programs[p].defs[i])
      BY <1>0, <2>3 DEF DefsMean
    <3> QED BY <1>1, <2>1, <2>3, <3>1 DEF DefMeans, Defs, Path, KindsOf
  <2>5. PICK o : /\ IsPlace("consts", q, o)
                 /\ IF q[1] = NULL THEN o[1] = p /\ o[2] < i ELSE IsImport(f, q, o)
    BY <1>1, <2>4 DEF RefMeans, Path
  <2>6. PICK g, j : g = programs[o[1]].path /\ j = o[2]
    OBVIOUS
  <2>7. g \in Files /\ j \in Places("const", g) /\ Denotes(f, q, g) /\ q[2] = project.defs[g][j].name
    BY <1>1, <1>5, <2>5, <2>6, PlaceIsDenoted
  <2>8. g = f => j < i
    <3>1. CASE q[1] = NULL
      BY <2>5, <2>6, <3>1
    <3>2. CASE q[1] # NULL
      <4>1. g \in IncludedBy(f)
        BY <2>7, <3>2 DEF Denotes
      <4>2. f \notin Reach(Seen, IncludedBy(f)) /\ f \in Files
        BY DEF CoreInv, KnownInv
      <4>3. IncludedBy(f) \subseteq Reach(Seen, IncludedBy(f))
        BY <1>0, <4>2, SeenFacts, ReachFacts
      <4> QED BY <4>1, <4>2, <4>3
    <3> QED BY <3>1, <3>2
  <2> QED BY <2>7, <2>8
<1> QED BY <1>6, <1>7, <1>8 DEF CannotParse

\* And it takes no project with anything wrong in a file that it parsed: no type and no
\* constant is there twice, every name in a constant denotes one that comes before it, and in
\* what is generated every type is resolved.
THEOREM AcceptedIsSound == Spec => []DoneIsSound
<1>1. ASSUME CoreInv, NamesInv, OutcomeInv, OverflowInv PROVE DoneIsSound
  <2>1. SUFFICES ASSUME status = "done"
                 PROVE  /\ \A f \in Reached("new") : ~ CannotParse(f)
                        /\ \A f \in generated_files : ~ HasDanglingName("type", f)
    BY DEF DoneIsSound
  <2>2. phase # "parse"
    BY <1>1, <2>1 DEF OverflowInv
  <2>3. \A f \in Reached("new") : ~ CannotParse(f)
    BY <1>1, <2>2, ReachedIsKnown, ParsedIsSound
  <2> QED BY <1>1, <2>3 DEF OutcomeInv, GenerateInv
<1> QED BY <1>1, CoreHolds, NamesHold, OutcomeHolds, OverflowHolds, PTL

(****************************************************************************)
(* What is generated, with -r.  parse and generate go through the programs   *)
(* in the same order, and each leaves out what it has been through: a file   *)
(* is known to the one, and generated by the other, at the same programs.    *)
(* H has for each program the files that are known when it is parsed.  It    *)
(* follows that generate has no use for the includes of a program that was   *)
(* not scanned: the file of such a program is generated by then.             *)
(****************************************************************************)
Below(S) == Reach(Seen, S)
Before(p, n) == {Seen[programs[p].path][i] : i \in {j \in DOMAIN Seen[programs[p].path] : j < n}}
IsHistory(H) ==
  /\ H[1] = {}
  /\ \A p \in Progs :
       /\ H[p] \in SUBSET Files /\ IsClosed(Seen, H[p])
       /\ \A i \in DOMAIN programs[p].includes :
            H[programs[p].includes[i]] = H[p] \cup Below(Before(p, i))
       /\ Settled(p) => Scanned(p) \/ programs[p].path \in H[p]

\* What is known, or generated, when a call is at pc: S.
HasReached(H, p, pc, n, S) ==
  /\ pc = "begin" => S = H[p]
  /\ pc = "includes" => S = H[p] \cup Below(Before(p, n))
  /\ pc = "types" => S = H[p] \cup Below({programs[p].path})
  /\ pc = "write" => S = H[p] \cup Below(IncludedBy(programs[p].path))
ParseProgress(H) == phase = "parse" => HasReached(H, Top.prog, Top.pc, Top.next, Known)
IsGenerating(H, k) ==
  /\ stack[k].pc \in {"begin", "includes", "write"}
  /\ stack[k].pc = "begin" => stack[k].next = 1
  /\ stack[k].pc # "begin" => Scanned(stack[k].prog) /\ programs[stack[k].prog].path \notin H[stack[k].prog]
  /\ k = Len(stack) => stack[k].prog = 1
  /\ k > 1 => /\ stack[k].pc = "includes"
              /\ stack[k].next - 1 \in DOMAIN programs[stack[k].prog].includes
              /\ stack[k - 1].prog = programs[stack[k].prog].includes[stack[k].next - 1]
GenerateProgress(H) ==
  phase = "generate" /\ request.recurse =>
    /\ \A k \in DOMAIN stack : IsGenerating(H, k)
    /\ IF stack = <<>> THEN generated_files = Reached("new")
       ELSE HasReached(H, Top.prog, Top.pc, Top.next, generated_files)
HistoryInv ==
  ~ request.audit => \E H : IsHistory(H) /\ ParseProgress(H) /\ GenerateProgress(H)

\* What is written.
IsOnce == \A i, j \in DOMAIN written : written[i] = written[j] => i = j
IsOrdered ==
  request.recurse =>
    \A i \in DOMAIN written : \A g \in IncludedBy(written[i]) :
      \E j \in DOMAIN written : j < i /\ written[j] = g
WritesOne ==
  phase = "generate" /\ ~ request.recurse =>
    IF stack = <<>> THEN written = <<project.root["new"]>>
    ELSE Len(stack) = 1 /\ Top.prog = 1 /\ Top.pc # "includes" /\ written = <<>>
WrittenInv ==
  /\ phase # "generate" => written = <<>>
  /\ phase = "compare" => request.audit
  /\ phase = "generate" /\ status = "done" => stack = <<>>
  /\ IsSequence(written) /\ Elements(written) = generated_files
  /\ IsOnce /\ IsOrdered /\ WritesOne

LEMMA BelowFacts ==
  ASSUME ShapeInv
  PROVE  /\ Below({}) = {}
         /\ \A S \in SUBSET Files : S \subseteq Below(S) /\ Below(S) \in SUBSET Files /\ IsClosed(Seen, Below(S))
         /\ \A S \in SUBSET Files, T \in SUBSET Files : Below(S \cup T) = Below(S) \cup Below(T)
         /\ \A f \in Files : Below({f}) = {f} \cup Below(IncludedBy(f))
<1>1. \A S \in SUBSET Files : S \subseteq Below(S) /\ Below(S) \in SUBSET Files /\ IsClosed(Seen, Below(S))
  BY SeenFacts, ReachFacts DEF Below
<1>2. Below({}) = {}
  <2>1. {} \in SUBSET Files /\ {} \subseteq {} /\ IsClosed(Seen, {})
    BY DEF IsClosed
  <2>2. Reach(Seen, {}) \subseteq {}
    BY <2>1, ReachLeast
  <2> QED BY <2>2 DEF Below
<1>3. ASSUME NEW S \in SUBSET Files, NEW T \in SUBSET Files, IsClosed(Seen, T), S \subseteq T
      PROVE  Below(S) \subseteq T
  BY <1>3, ReachLeast DEF Below
<1>4. ASSUME NEW S \in SUBSET Files, NEW T \in SUBSET Files
      PROVE  Below(S \cup T) = Below(S) \cup Below(T)
  <2>1. IsClosed(Seen, Below(S) \cup Below(T)) /\ Below(S) \cup Below(T) \in SUBSET Files
    BY <1>1 DEF IsClosed
  <2>2. S \cup T \in SUBSET Files /\ S \cup T \subseteq Below(S) \cup Below(T)
    BY <1>1
  <2>3. Below(S \cup T) \subseteq Below(S) \cup Below(T)
    BY <1>3, <2>1, <2>2
  <2>4. Below(S) \subseteq Below(S \cup T) /\ Below(T) \subseteq Below(S \cup T)
    <3>1. S \subseteq Below(S \cup T) /\ T \subseteq Below(S \cup T)
      BY <1>1, <2>2
    <3> QED BY <1>1, <1>3, <2>2, <3>1
  <2> QED BY <2>3, <2>4
<1>5. ASSUME NEW f \in Files PROVE Below({f}) = {f} \cup Below(IncludedBy(f))
  <2>1. IncludedBy(f) \in SUBSET Files /\ {f} \in SUBSET Files
    BY SeenFacts
  <2>2. IsClosed(Seen, {f} \cup Below(IncludedBy(f))) /\ {f} \cup Below(IncludedBy(f)) \in SUBSET Files
    BY <1>1, <2>1 DEF IsClosed, IncludedBy
  <2>3. Below({f}) \subseteq {f} \cup Below(IncludedBy(f))
    BY <1>3, <2>1, <2>2
  <2>4. f \in Below({f}) /\ IsClosed(Seen, Below({f})) /\ Below({f}) \in SUBSET Files
    BY <1>1, <2>1
  <2>5. IncludedBy(f) \subseteq Below({f})
    BY <2>4 DEF IsClosed, IncludedBy
  <2>6. Below(IncludedBy(f)) \subseteq Below({f})
    BY <1>3, <2>1, <2>4, <2>5
  <2> QED BY <2>3, <2>4, <2>6
<1> QED BY <1>1, <1>2, <1>4, <1>5

LEMMA BeforeFacts ==
  ASSUME ShapeInv, NEW p \in Progs, NEW f, f = programs[p].path
  PROVE  /\ Before(p, 1) = {}
         /\ \A n : Before(p, n) \in SUBSET Files
         /\ \A i \in DOMAIN Seen[f] : Before(p, i + 1) = Before(p, i) \cup {Seen[f][i]}
         /\ \A n \in Nat \ {0} : n \notin DOMAIN Seen[f] => Before(p, n) = IncludedBy(f)
<1>1. f \in Files
  BY DEF ShapeInv, IsProgram
<1>2. Seen[f] \in Seq(Files)
  BY <1>1, ProjectFacts
<1>3. PICK m : m \in Nat /\ DOMAIN Seen[f] = 1..m
  BY <1>2
<1>4. \A i \in 1..m : Seen[f][i] \in Files
  BY <1>2, <1>3
<1>5. \A n : Before(p, n) = {Seen[f][i] : i \in {j \in 1..m : j < n}}
  BY <1>3 DEF Before
<1>6. {j \in 1..m : j < 1} = {}
  BY <1>3
<1>7. ASSUME NEW i \in 1..m PROVE {j \in 1..m : j < i + 1} = {j \in 1..m : j < i} \cup {i}
  BY <1>3, <1>7
<1>8. ASSUME NEW n \in Nat \ {0}, n \notin 1..m PROVE {j \in 1..m : j < n} = 1..m
  BY <1>3, <1>8
<1>9. IncludedBy(f) = {Seen[f][i] : i \in 1..m}
  BY <1>3 DEF IncludedBy, Range
<1>10. ASSUME NEW i \in DOMAIN Seen[f] PROVE Before(p, i + 1) = Before(p, i) \cup {Seen[f][i]}
  BY <1>3, <1>5, <1>7, <1>10
<1>11. Before(p, 1) = {}
  BY <1>5, <1>6
<1>12. \A n : Before(p, n) \in SUBSET Files
  BY <1>4, <1>5
<1>13. ASSUME NEW n \in Nat \ {0}, n \notin DOMAIN Seen[f] PROVE Before(p, n) = IncludedBy(f)
  BY <1>3, <1>5, <1>8, <1>9, <1>13
<1> QED BY <1>10, <1>11, <1>12, <1>13

\* When a program is finished, the next include of the one that has it is the next.
LEMMA HistoryStep ==
  ASSUME CoreInv, NEW H, IsHistory(H), NEW p \in Progs, NEW i \in DOMAIN programs[p].includes,
         NEW c, c = programs[p].includes[i]
  PROVE  H[c] \cup Below({programs[c].path}) = H[p] \cup Below(Before(p, i + 1))
<1>0. ShapeInv /\ TreeInv
  BY DEF CoreInv
<1>1. PICK f : f = programs[p].path
  OBVIOUS
<1>2. /\ c \in Progs /\ i \in DOMAIN Seen[f] /\ programs[c].path = Seen[f][i] /\ programs[c].path \in Files
  BY <1>0, <1>1 DEF TreeInv, Scanned, Path, ShapeInv, IsProgram
<1>3. H[c] = H[p] \cup Below(Before(p, i))
  BY DEF IsHistory
<1>4. Before(p, i + 1) = Before(p, i) \cup {programs[c].path} /\ Before(p, i) \in SUBSET Files
  BY <1>0, <1>1, <1>2, BeforeFacts
<1>5. Below(Before(p, i + 1)) = Below(Before(p, i)) \cup Below({programs[c].path})
  <2>1. {programs[c].path} \in SUBSET Files
    BY <1>2
  <2> QED BY <1>0, <1>4, <2>1, BelowFacts
<1> QED BY <1>3, <1>5

\* Files do not move.
LEMMA FilesStay ==
  ASSUME CoreInv, [Next]_vars
  PROVE  /\ \A S : Below(S)' = Below(S)
         /\ \A f : IncludedBy(f)' = IncludedBy(f)
         /\ \A p \in Progs : \A n : Before(p, n)' = Before(p, n)
         /\ \A H : \A p \in Progs : \A pc, n, S : HasReached(H, p, pc, n, S) => HasReached(H, p, pc, n, S)'
<1>1. Seen' = Seen
  BY Rigid
<1>2. \A S : Below(S)' = Below(S)
  BY <1>1 DEF Below, Reach, IsClosed
<1>3. \A f : IncludedBy(f)' = IncludedBy(f)
  BY <1>1 DEF IncludedBy
<1>4. ASSUME NEW p \in Progs PROVE programs'[p].path = programs[p].path
  BY PathFacts DEF CoreInv
<1>5. ASSUME NEW p \in Progs, NEW n PROVE Before(p, n)' = Before(p, n)
  BY <1>1, <1>4 DEF Before
<1>6. ASSUME NEW H, NEW p \in Progs, NEW pc, NEW n, NEW S, HasReached(H, p, pc, n, S)
      PROVE  HasReached(H, p, pc, n, S)'
  <2>1. Below(Before(p, n))' = Below(Before(p, n))
    BY <1>1, <1>5 DEF Below, Reach, IsClosed
  <2>2. Below({programs[p].path})' = Below({programs[p].path})
    BY <1>1, <1>4 DEF Below, Reach, IsClosed
  <2>3. Below(IncludedBy(programs[p].path))' = Below(IncludedBy(programs[p].path))
    BY <1>1, <1>4 DEF Below, Reach, IsClosed, IncludedBy
  <2> QED BY <1>6, <2>1, <2>2, <2>3 DEF HasReached
<1> QED BY <1>2, <1>3, <1>5, <1>6

\* The history of a program does not change: but for a scan, nor does what there is one of.
LEMMA HistoryStays ==
  ASSUME CoreInv, [Next]_vars, ~ ScanIncludes, NEW H, IsHistory(H), ParseProgress(H)
  PROVE  IsHistory(H)'
<1>0. ShapeInv
  BY DEF CoreInv
<1>1. Progs' = Progs /\ \A p \in Progs : programs'[p].path = programs[p].path /\ programs'[p].includes = programs[p].includes
  <2>1. CASE UNCHANGED programs
    BY <2>1 DEF Progs
  <2>2. ASSUME NEW k \in Kinds, Defines(k)
        PROVE  Progs' = Progs /\ \A p \in Progs : programs'[p].path = programs[p].path /\ programs'[p].includes = programs[p].includes
    BY <1>0, <2>2, DefineFacts
  <2> QED BY <1>0, <2>1, <2>2, SkipFacts, Steps DEF Kinds, Recurse, SaveScope, Return, AuditGoesOn, Leaves, Stays
<1>2. Seen' = Seen
  BY Rigid
<1>3. ASSUME NEW p \in Progs PROVE H[p] \in SUBSET Files /\ IsClosed(Seen, H[p])'
  BY <1>2 DEF IsHistory, IsClosed
<1>4. ASSUME NEW p \in Progs, NEW i \in DOMAIN programs'[p].includes
      PROVE  H[programs'[p].includes[i]] = H[p] \cup Below(Before(p, i))'
  <2>1. H[programs[p].includes[i]] = H[p] \cup Below(Before(p, i))
    BY <1>1, <1>4 DEF IsHistory
  <2>2. Before(p, i)' = Before(p, i)
    BY FilesStay
  <2>3. Below(Before(p, i))' = Below(Before(p, i))
    BY <1>2, <2>2 DEF Below, Reach, IsClosed
  <2> QED BY <1>1, <2>1, <2>3
<1>5. ASSUME NEW p \in Progs, Settled(p)' PROVE Scanned(p)' \/ programs'[p].path \in H[p]
  <2>1. Settled(p) \/ (Settles /\ p = Top.prog)
    BY <1>1, <1>5, SettledSteps
  <2>2. Scanned(p)' = Scanned(p)
    BY <2>1, SettledStays
  <2>3. CASE Settled(p)
    BY <1>1, <2>2, <2>3 DEF IsHistory
  <2>4. CASE SkipRecursion /\ p = Top.prog
    <3>1. phase = "parse" /\ Top.pc = "begin" /\ programs[p].path \in Known
      BY <1>0, <2>4, SkipFacts DEF Path
    <3>2. Known = H[p]
      BY <2>4, <3>1 DEF ParseProgress, HasReached
    <3> QED BY <1>1, <3>1, <3>2
  <2>5. CASE SaveScope /\ p = Top.prog
    BY <2>2, <2>5, SavingFacts
  <2> QED BY <2>1, <2>3, <2>4, <2>5 DEF Settles
<1>6. H[1] = {}
  BY DEF IsHistory
<1> QED BY <1>1, <1>3, <1>4, <1>5, <1>6 DEF IsHistory

\* A scan makes programs, each with what is known when it will be parsed.
LEMMA HistoryScans ==
  ASSUME CoreInv, [Next]_vars, ScanIncludes, NEW H, IsHistory(H), ParseProgress(H), NEW G,
         G = [q \in Progs' |-> IF q \in Progs THEN H[q]
                               ELSE H[Top.prog] \cup Below(Before(Top.prog, q - Len(programs)))]
  PROVE  IsHistory(G)' /\ ParseProgress(G)'
<1>0. ShapeInv /\ TreeInv /\ KnownInv /\ ChainInv /\ FreshInv
  BY DEF CoreInv
<1>1. /\ stack # <<>> /\ phase = "parse" /\ Top.pc = "begin" /\ Path(Top.prog) \notin Known
      /\ Progs \subseteq Progs' /\ UNCHANGED <<phase, program_to_scope>>
      /\ Len(programs) \in Nat
  BY <1>0, ScanFacts, TopFacts
<1>2. PICK P, f : P = Top.prog /\ f = programs[P].path /\ P \in Progs /\ f \in Files
  BY <1>0, <1>1, TopFacts DEF Path
<1>3. Seen' = Seen /\ Found = Seen[f]
  BY <1>0, <1>1, <1>2, ScanReadsSeen, Rigid DEF Path
<1>4. ASSUME NEW p \in Progs PROVE programs'[p].path = programs[p].path /\ (p # P => programs'[p].includes = programs[p].includes) /\ G[p] = H[p]
  BY <1>0, <1>1, <1>2, <1>4, PathFacts, ScanFacts
\* What is new.
<1>5. ASSUME NEW i \in DOMAIN Seen[f]
      PROVE  /\ programs'[P].includes[i] = Made(i) /\ Made(i) \in Progs'
             /\ programs'[Made(i)].includes = <<>>
             /\ G[Made(i)] = H[P] \cup Below(Before(P, i))
  <2>1. programs'[P].includes[i] = Made(i) /\ Made(i) \in Progs' /\ Made(i) \notin Progs
        /\ programs'[Made(i)] = NewProgram(Found[i], side)
    BY <1>0, <1>2, <1>3, <1>5, ScanFacts
  <2>2. Made(i) - Len(programs) = i
    <3>1. i \in Nat
      BY <1>0, <1>3, <1>5, ScanFacts
    <3> QED BY <1>1, <3>1 DEF Made
  <2> QED BY <1>2, <2>1, <2>2, NewProgramFacts
<1>6. \A p \in Progs' : p \in Progs \/ \E i \in DOMAIN Seen[f] : p = Made(i)
  BY <1>0, <1>3, ScanFacts
<1>7. \A i : Below(Before(P, i)) \in SUBSET Files /\ IsClosed(Seen, Below(Before(P, i)))
  BY <1>0, <1>2, BeforeFacts, BelowFacts
<1>8. \A p \in Progs : H[p] \in SUBSET Files /\ IsClosed(Seen, H[p])
  BY DEF IsHistory
<1>9. ASSUME NEW p \in Progs' PROVE G[p] \in SUBSET Files /\ IsClosed(Seen, G[p])'
  <2>1. G[p] \in SUBSET Files /\ IsClosed(Seen, G[p])
    <3>1. CASE p \in Progs
      BY <1>4, <1>8, <3>1
    <3>2. CASE \E i \in DOMAIN Seen[f] : p = Made(i)
      <4>1. PICK i \in DOMAIN Seen[f] : p = Made(i)
        BY <3>2
      <4>2. PICK S, T : S = H[P] /\ T = Below(Before(P, i))
        OBVIOUS
      <4>3. IsClosed(Seen, S \cup T) /\ S \cup T \in SUBSET Files
        BY <1>2, <1>7, <1>8, <4>2 DEF IsClosed
      <4> QED BY <1>5, <4>1, <4>2, <4>3
    <3> QED BY <1>6, <1>9, <3>1, <3>2
  <2> QED BY <1>3, <2>1 DEF IsClosed
<1>10. ASSUME NEW p \in Progs', NEW i \in DOMAIN programs'[p].includes
       PROVE  G[programs'[p].includes[i]] = G[p] \cup Below(Before(p, i))'
  <2>1. CASE p \in Progs
    <3>1. Before(p, i)' = Before(p, i)
      BY <2>1, FilesStay
    <3>2. Below(Before(p, i))' = Below(Before(p, i))
      BY <1>3, <3>1 DEF Below, Reach, IsClosed
    <3>3. CASE p = P
      <4>1. i \in DOMAIN Seen[f]
        BY <1>0, <1>2, <1>3, <1>10, <3>3, ScanFacts
      <4> QED BY SMTT(40), <1>2, <1>4, <1>5, <3>2, <3>3, <4>1
    <3>4. CASE p # P
      <4>1. programs'[p].includes = programs[p].includes
        BY <1>4, <2>1, <3>4
      <4>2. programs[p].includes[i] \in Progs /\ H[programs[p].includes[i]] = H[p] \cup Below(Before(p, i))
        BY <1>0, <1>10, <2>1, <4>1 DEF TreeInv, IsHistory
      <4> QED BY <1>4, <2>1, <3>2, <4>1, <4>2
    <3> QED BY <3>3, <3>4
  <2>2. CASE p \notin Progs
    BY <1>5, <1>6, <1>10, <2>2
  <2> QED BY <2>1, <2>2
<1>11. ASSUME NEW p \in Progs', Settled(p)' PROVE Scanned(p)' \/ programs'[p].path \in G[p]
  <2>1. ~ Settles
    BY <1>1 DEF Settles, SkipRecursion, SaveScope, At, Path, Known
  <2>2. p \in Progs /\ Settled(p)
    BY <1>11, <2>1, SettledSteps
  <2>3. Scanned(p)' = Scanned(p)
    BY <2>2, SettledStays
  <2> QED BY <1>4, <2>2, <2>3 DEF IsHistory
<1>12. G[1] = {}
  <2>1. 1 \in Progs
    BY <1>0 DEF ShapeInv, Roots, IsSequence, Progs
  <2> QED BY <1>4, <2>1 DEF IsHistory
<1>13. IsHistory(G)'
  BY <1>9, <1>10, <1>11, <1>12 DEF IsHistory
<1>14. HasReached(G, P, "includes", 1, Known)'
  <2>1. Known = H[P]
    BY <1>1, <1>2 DEF ParseProgress, HasReached
  <2>2. Before(P, 1)' = {}
    BY <1>0, <1>2, FilesStay, BeforeFacts
  <2>3. Below(Before(P, 1))' = {}
    <3>1. Below({})' = {}
      BY <1>0, FilesStay, BelowFacts
    <3> QED BY <2>2, <3>1
  <2>4. Known' = Known
    BY <1>1 DEF Known
  <2> QED BY <1>2, <1>4, <2>1, <2>3, <2>4 DEF HasReached
<1>15. stack'[1].prog = P /\ stack'[1].pc = "includes" /\ stack'[1].next = 1
  <2>1. Top.next = 1
    BY <1>0, <1>1 DEF FreshInv
  <2> QED BY <1>0, <1>2, <2>1, ScanFacts
<1> QED BY <1>13, <1>14, <1>15 DEF ParseProgress, Top

LEMMA ParseProgressNext ==
  ASSUME CoreInv, [Next]_vars, ~ request.audit, ~ ScanIncludes, NEW H, IsHistory(H), ParseProgress(H)
  PROVE  ParseProgress(H)'
<1>0. ShapeInv /\ TreeInv /\ StackInv /\ KnownInv
  BY DEF CoreInv
<1>1. SUFFICES ASSUME phase' = "parse" PROVE ParseProgress(H)'
  BY DEF ParseProgress
<1>2. ASSUME NEW p \in Progs, NEW pc, NEW n, NEW S, HasReached(H, p, pc, n, S),
             stack'[1].prog = p, stack'[1].pc = pc, stack'[1].next = n, Known' = S
      PROVE  ParseProgress(H)'
  <2>1. HasReached(H, p, pc, n, S)'
    BY <1>2, FilesStay
  <2> QED BY <1>2, <2>1 DEF ParseProgress, Top
<1>3. ASSUME phase = "parse", stack # <<>>
      PROVE  /\ 1 \in DOMAIN stack /\ Top.prog \in Progs /\ programs[Top.prog].path \in Files /\ Top.next \in Nat \ {0}
             /\ HasReached(H, Top.prog, Top.pc, Top.next, Known)
  BY <1>0, <1>3, TopFacts DEF ParseProgress, Path, Frame
<1>4. CASE SkipRecursion
  <2>1. PICK P, n, f : P = Top.prog /\ n = Top.next /\ f = programs[P].path
    OBVIOUS
  <2>2. /\ stack # <<>> /\ phase = "parse" /\ Top.pc = "begin" /\ f \in Known /\ Known' = Known
        /\ stack'[1].prog = P /\ stack'[1].pc = "types" /\ stack'[1].next = n
    BY <1>0, <1>4, <2>1, SkipFacts DEF Path, Known
  <2>3. P \in Progs /\ f \in Files /\ Known = H[P]
    BY <1>3, <2>1, <2>2 DEF HasReached
  <2>4. {f} \subseteq Known /\ Known \in SUBSET Files /\ IsClosed(Seen, Known)
    BY <1>0, <2>2 DEF KnownInv
  <2>5. Below({f}) \subseteq Known
    BY <2>4, ReachLeast DEF Below
  <2>6. HasReached(H, P, "types", n, Known)
    BY <2>1, <2>3, <2>5 DEF HasReached
  <2> QED BY <1>2, <2>2, <2>3, <2>6
<1>5. CASE Recurse
  <2>1. PICK P, n, c : P = Top.prog /\ n = Top.next /\ c = programs[P].includes[n]
    OBVIOUS
  <2>2. /\ stack # <<>> /\ phase = "parse" /\ Top.pc = "includes" /\ Known' = Known
        /\ n \in DOMAIN programs[P].includes /\ c \in Progs /\ stack'[1] = ParseFrame(c, P)
    BY <1>0, <1>5, <2>1, RecurseFacts DEF Known
  <2>3. Known = H[P] \cup Below(Before(P, n)) /\ P \in Progs
    BY <1>3, <2>1, <2>2 DEF HasReached
  <2>4. HasReached(H, c, "begin", 1, Known)
    BY <2>1, <2>2, <2>3 DEF HasReached, IsHistory
  <2>5. stack'[1].prog = c /\ stack'[1].pc = "begin" /\ stack'[1].next = 1
    BY <2>2 DEF ParseFrame
  <2> QED BY <1>2, <2>2, <2>4, <2>5
<1>6. CASE SaveScope
  <2>1. PICK P, n, f : P = Top.prog /\ n = Top.next /\ f = programs[P].path
    OBVIOUS
  <2>2. /\ stack # <<>> /\ phase = "parse" /\ Top.pc = "includes" /\ Known' = Known \cup {f}
        /\ n \notin DOMAIN programs[P].includes
        /\ stack'[1].prog = P /\ stack'[1].pc = "types" /\ stack'[1].next = 1
    BY <1>0, <1>6, <2>1, SaveFacts DEF Path
  <2>3. Known = H[P] \cup Below(Before(P, n)) /\ P \in Progs /\ n \in Nat \ {0} /\ f \in Files
    BY <1>3, <2>1, <2>2 DEF HasReached
  <2>4. n \notin DOMAIN Seen[f]
    BY <1>6, <2>1, <2>2, SavingFacts DEF Scanned, Path
  <2>5. Before(P, n) = IncludedBy(f)
    BY <1>0, <2>1, <2>3, <2>4, BeforeFacts
  <2>6. Below({f}) = {f} \cup Below(IncludedBy(f))
    BY <1>0, <2>3, BelowFacts
  <2>7. HasReached(H, P, "types", 1, Known \cup {f})
    BY <2>1, <2>3, <2>5, <2>6 DEF HasReached
  <2> QED BY <1>2, <2>2, <2>3, <2>7
<1>7. CASE Return
  <2>1. PICK P, Q, n : P = Top.prog /\ Q = stack[2].prog /\ n = stack[2].next
    OBVIOUS
  <2>2. /\ stack # <<>> /\ phase = "parse" /\ Top.pc = "types" /\ Known' = Known
        /\ Len(stack) > 1 /\ stack'[1] = stack[2]
    BY <1>0, <1>7, ReturnFacts, TopFacts DEF Known
  <2>3. 2 \in DOMAIN stack /\ stack[2] \in Frame
    BY <1>0, <2>2, TopFacts, ElementOfSeq DEF ShapeInv
  <2>4. Q \in Progs /\ n \in Nat /\ stack[2].pc = "includes" /\ n - 1 \in DOMAIN programs[Q].includes
        /\ P = programs[Q].includes[n - 1]
    <3>1. Q \in Progs /\ n \in Nat
      BY <1>0, <2>1, <2>3 DEF ShapeInv, Frame
    <3>2. PICK k : k = 2 /\ k \in DOMAIN stack /\ k > 1 /\ k - 1 = 1
      BY <2>3
    <3>3. stack[k].pc = "includes" /\ stack[k].next - 1 \in DOMAIN programs[stack[k].prog].includes
          /\ stack[k - 1].prog = programs[stack[k].prog].includes[stack[k].next - 1]
      BY <1>0, <2>2, <3>2 DEF StackInv
    <3> QED BY <2>1, <3>1, <3>2, <3>3 DEF Top
  <2>5. Known = H[P] \cup Below({programs[P].path})
    BY <1>3, <2>1, <2>2 DEF HasReached
  <2>6. H[P] \cup Below({programs[P].path}) = H[Q] \cup Below(Before(Q, n - 1 + 1)) /\ n - 1 + 1 = n
    BY <2>4, HistoryStep
  <2>7. HasReached(H, Q, "includes", n, Known)
    BY <2>5, <2>6 DEF HasReached
  <2> QED BY <1>2, <2>1, <2>2, <2>4, <2>7
<1>8. ASSUME NEW k \in Kinds, Defines(k) PROVE ParseProgress(H)'
  <2>1. PICK P, n : P = Top.prog /\ n = Top.next
    OBVIOUS
  <2>2. /\ stack # <<>> /\ phase = "parse" /\ Top.pc = "types" /\ Known' = Known
        /\ stack'[1].prog = P /\ stack'[1].pc = "types" /\ stack'[1].next = n + 1
    BY <1>0, <1>8, <2>1, DefineFacts DEF Known
  <2>3. P \in Progs /\ HasReached(H, P, "types", n + 1, Known)
    BY <1>3, <2>1, <2>2 DEF HasReached
  <2> QED BY <1>2, <2>2, <2>3
<1>9. CASE Stays
  <2>1. phase = "parse" /\ stack # <<>> /\ stack' = stack /\ Known' = Known
    BY <1>0, <1>1, <1>9 DEF Stays, StackInv, Known
  <2> QED BY <1>2, <1>3, <2>1 DEF Top
<1> QED BY <1>0, <1>1, <1>4, <1>5, <1>6, <1>7, <1>8, <1>9, Steps DEF Kinds, AuditGoesOn, Leaves

LEMMA HistoryInit ==
  ASSUME Init
  PROVE  HistoryInv
<1>1. SUFFICES ASSUME ~ request.audit PROVE \E H : IsHistory(H) /\ ParseProgress(H) /\ GenerateProgress(H)
  BY DEF HistoryInv
<1>2. PICK H : H = [p \in {1} |-> {}]
  OBVIOUS
<1>3. Progs = {1} /\ programs[1].includes = <<>> /\ phase = "parse" /\ Known = {}
  BY <1>1, NewProgramFacts DEF Init, Progs, Known
<1>4. Top.prog = 1 /\ Top.pc = "begin"
  BY <1>1 DEF Init, Top, ParseFrame
<1>5. IsHistory(H)
  <2>1. IsClosed(Seen, {})
    BY DEF IsClosed
  <2>2. ~ Settled(1)
    BY <1>3, NothingIsSettled
  <2> QED BY <1>2, <1>3, <2>1, <2>2 DEF IsHistory
<1>6. ParseProgress(H)
  BY <1>2, <1>3, <1>4 DEF ParseProgress, HasReached
<1> QED BY <1>3, <1>5, <1>6 DEF GenerateProgress

\* A call of generate, in a step that leaves it on the stack.
LEMMA GeneratingStays ==
  ASSUME UNCHANGED programs, Seen' = Seen, NEW H, NEW k, IsGenerating(H, k), NEW m, stack'[m] = stack[k],
         m = Len(stack') => k = Len(stack), m > 1 => k > 1 /\ stack'[m - 1].prog = stack[k - 1].prog
  PROVE  IsGenerating(H, m)'
<1>1. PICK t : t = stack[k]
  OBVIOUS
<1>2. Scanned(t.prog)' = Scanned(t.prog)
  BY DEF Scanned, Path
<1>3. stack'[m] = t /\ programs' = programs
  BY <1>1
<1>4. t.pc # "begin" => Scanned(t.prog)' /\ programs'[t.prog].path \notin H[t.prog]
  BY <1>1, <1>2, <1>3 DEF IsGenerating
<1>5. /\ t.pc \in {"begin", "includes", "write"} /\ (t.pc = "begin" => t.next = 1)
      /\ m = Len(stack') => t.prog = 1
      /\ m > 1 => /\ t.pc = "includes" /\ t.next - 1 \in DOMAIN programs[t.prog].includes
                  /\ stack'[m - 1].prog = programs[t.prog].includes[t.next - 1]
  BY <1>1 DEF IsGenerating
<1>6. Scanned(stack[m].prog)' = Scanned(t.prog)'
  BY <1>3 DEF Scanned, Path
<1> QED BY <1>3, <1>4, <1>5, <1>6 DEF IsGenerating

\* A call of generate returns.
LEMMA GeneratePops ==
  ASSUME CoreInv, NEW H, IsHistory(H), GenerateProgress(H), request.recurse, phase = "generate",
         stack # <<>>, stack' = Tail(stack), UNCHANGED programs, Seen' = Seen, Reached("new")' = Reached("new"),
         generated_files' = H[Top.prog] \cup Below({programs[Top.prog].path})
  PROVE  GenerateProgress(H)'
<1>0. ShapeInv
  BY DEF CoreInv
<1>1. stack \in Seq(Frame) /\ Len(stack) \in Nat \ {0} /\ DOMAIN stack = 1..Len(stack)
  BY <1>0, TopFacts DEF ShapeInv
<1>2. /\ stack' \in Seq(Frame) /\ Len(stack') = Len(stack) - 1
      /\ \A k \in 1..Len(stack) - 1 : stack'[k] = stack[k + 1]
  BY <1>1, PopFacts
<1>3. DOMAIN stack' = 1..Len(stack) - 1
  BY <1>1, <1>2
<1>4. \A k \in DOMAIN stack : IsGenerating(H, k)
  BY DEF GenerateProgress
<1>5. ASSUME NEW m \in DOMAIN stack' PROVE IsGenerating(H, m)'
  <2>1. m \in Nat /\ m + 1 \in DOMAIN stack /\ stack'[m] = stack[m + 1]
    BY <1>1, <1>2, <1>3
  <2>2. m = Len(stack') => m + 1 = Len(stack)
    BY <1>1, <1>2
  <2>3. m > 1 => m + 1 > 1 /\ stack'[m - 1].prog = stack[m + 1 - 1].prog
    <3>1. ASSUME m > 1 PROVE m - 1 \in 1..Len(stack) - 1 /\ m - 1 + 1 = m /\ m + 1 - 1 = m
      BY <1>1, <1>3, <3>1
    <3> QED BY <1>2, <2>1, <3>1
  <2>4. PICK k : k = m + 1
    OBVIOUS
  <2> QED BY <1>4, <2>1, <2>2, <2>3, <2>4, GeneratingStays
<1>6. CASE Len(stack) = 1
  <2>1. stack' = <<>>
    BY <1>2, <1>6, EmptySeq
  <2>2. Top.prog = 1
    BY <1>1, <1>4, <1>6 DEF IsGenerating, Top
  <2>3. H[1] = {} /\ programs[1].path = project.root["new"]
    BY <1>0 DEF IsHistory, ShapeInv, Path
  <2>4. generated_files' = Reached("new")'
    BY <2>2, <2>3 DEF Below, Reached
  <2> QED BY <1>5, <2>1, <2>4 DEF GenerateProgress
<1>7. CASE Len(stack) > 1
  <2>1. PICK k : k = 2 /\ k \in DOMAIN stack /\ k > 1 /\ k - 1 = 1 /\ stack'[1] = stack[k]
    BY <1>1, <1>2, <1>7
  <2>2. PICK Q, n : Q = stack[k].prog /\ n = stack[k].next
    OBVIOUS
  <2>3. Q \in Progs /\ n \in Nat /\ stack' # <<>>
    <3>1. stack[k] \in Frame /\ stack[k].prog \in Progs
      BY <1>0, <1>1, <2>1, ElementOfSeq DEF ShapeInv
    <3>2. stack' # <<>>
      <4>1. Len(stack') # 0
        BY <1>1, <1>2, <1>7
      <4> QED BY <4>1
    <3> QED BY <2>2, <3>1, <3>2 DEF Frame
  <2>4. stack[k].pc = "includes" /\ n - 1 \in DOMAIN programs[Q].includes /\ Top.prog = programs[Q].includes[n - 1]
    BY <1>4, <2>1, <2>2 DEF IsGenerating, Top
  <2>5. H[Top.prog] \cup Below({programs[Top.prog].path}) = H[Q] \cup Below(Before(Q, n))
    <3>1. PICK i, c : i = n - 1 /\ i + 1 = n /\ c = Top.prog
      BY <2>3
    <3>2. H[c] \cup Below({programs[c].path}) = H[Q] \cup Below(Before(Q, i + 1))
      <4>1. i \in DOMAIN programs[Q].includes /\ c = programs[Q].includes[i] /\ Q \in Progs
        BY <2>3, <2>4, <3>1
      <4> QED BY ZenonT(40), <4>1, HistoryStep
    <3> QED BY <3>1, <3>2
  <2>6. PICK S : S = H[Q] \cup Below(Before(Q, n))
    OBVIOUS
  <2>7. generated_files' = S
    BY <2>5, <2>6
  <2>8. Below(Before(Q, n))' = Below(Before(Q, n))
    BY DEF Below, Before, Reach, IsClosed
  <2>9. HasReached(H, Q, "includes", n, generated_files)'
    BY <2>6, <2>7, <2>8 DEF HasReached
  <2>10. stack'[1].prog = Q /\ stack'[1].pc = "includes" /\ stack'[1].next = n
    BY <2>1, <2>2, <2>4
  <2> QED BY <1>5, <2>3, <2>9, <2>10 DEF GenerateProgress, Top
<1> QED BY <1>1, <1>6, <1>7

\* The innermost call of generate goes on.
LEMMA GenerateGoesOn ==
  ASSUME CoreInv, NEW H, IsHistory(H), GenerateProgress(H), request.recurse, phase = "generate",
         stack # <<>>, UNCHANGED <<programs, generated_files>>, Seen' = Seen,
         NEW pc \in {"includes", "write"}, WithTop([Top EXCEPT !.pc = pc]),
         Scanned(Top.prog), programs[Top.prog].path \notin H[Top.prog],
         HasReached(H, Top.prog, pc, Top.next, generated_files)
  PROVE  GenerateProgress(H)'
<1>0. ShapeInv
  BY DEF CoreInv
<1>1. stack \in Seq(Frame) /\ Len(stack) \in Nat \ {0} /\ DOMAIN stack = 1..Len(stack) /\ Top \in Frame
  BY <1>0, TopFacts DEF ShapeInv
<1>2. PICK t : t = [Top EXCEPT !.pc = pc] /\ t \in Frame /\ t.prog = Top.prog /\ t.pc = pc /\ t.next = Top.next
  <2>1. pc \in {"begin", "includes", "types", "write"}
    OBVIOUS
  <2>2. /\ [Top EXCEPT !.pc = pc] \in Frame /\ [Top EXCEPT !.pc = pc].prog = Top.prog
        /\ [Top EXCEPT !.pc = pc].pc = pc /\ [Top EXCEPT !.pc = pc].next = Top.next
    BY <1>1, <2>1, FrameAt
  <2> QED BY <2>2
<1>3. /\ stack' \in Seq(Frame) /\ Len(stack') = Len(stack) /\ stack'[1] = t
      /\ \A k \in 2..Len(stack) : stack'[k] = stack[k]
  BY <1>1, <1>2, WithTopFacts
<1>4. DOMAIN stack' = 1..Len(stack) /\ stack' # <<>>
  BY <1>1, <1>3
<1>5. \A k \in DOMAIN stack : IsGenerating(H, k) /\ stack'[k].prog = stack[k].prog
  <2>1. ASSUME NEW k \in DOMAIN stack PROVE stack'[k].prog = stack[k].prog
    <3>1. k = 1 \/ k \in 2..Len(stack)
      BY <1>1, <2>1
    <3> QED BY <1>2, <1>3, <3>1 DEF Top
  <2> QED BY <2>1 DEF GenerateProgress
<1>6. PICK P, n : P = Top.prog /\ n = Top.next
  OBVIOUS
<1>7. IsGenerating(H, 1)'
  <2>1. Scanned(P)' = Scanned(P)
    BY DEF Scanned, Path
  <2>2. Scanned(P)' /\ programs'[P].path \notin H[P]
    BY <1>6, <2>1
  <2>3. Len(stack') = 1 => P = 1
    BY <1>1, <1>3, <1>5, <1>6 DEF IsGenerating, Top
  <2>4. stack'[1].prog = P /\ stack'[1].pc = pc
    BY <1>2, <1>3, <1>6
  <2>5. Scanned(stack[1].prog)' = Scanned(P)'
    BY <2>4 DEF Scanned, Path
  <2> QED BY <2>2, <2>3, <2>4, <2>5 DEF IsGenerating
<1>8. ASSUME NEW m \in DOMAIN stack', m # 1 PROVE IsGenerating(H, m)'
  <2>1. m \in 2..Len(stack) /\ m - 1 \in DOMAIN stack
    BY <1>1, <1>4, <1>8
  <2>2. stack'[m] = stack[m] /\ stack'[m - 1].prog = stack[m - 1].prog /\ IsGenerating(H, m) /\ m > 1
    BY <1>1, <1>3, <1>5, <2>1
  <2> QED BY <1>3, <2>2, GeneratingStays
<1>9. HasReached(H, P, pc, n, generated_files)'
  <2>1. Before(P, n)' = Before(P, n)
    BY DEF Before
  <2>2. Below(Before(P, n))' = Below(Before(P, n))
    BY <2>1 DEF Below, Reach, IsClosed
  <2>3. Below(IncludedBy(programs[P].path))' = Below(IncludedBy(programs[P].path))
    BY DEF Below, Reach, IsClosed, IncludedBy
  <2>4. HasReached(H, P, pc, n, generated_files)
    BY <1>6
  <2> QED BY <2>2, <2>3, <2>4 DEF HasReached
<1>10. stack'[1].prog = P /\ stack'[1].pc = pc /\ stack'[1].next = n
  BY SMTT(40), <1>2, <1>3, <1>6
<1> QED BY <1>4, <1>7, <1>8, <1>9, <1>10 DEF GenerateProgress, Top

\* generate calls itself for an include.
LEMMA GeneratePushes ==
  ASSUME CoreInv, NEW H, IsHistory(H), GenerateProgress(H), request.recurse, phase = "generate",
         stack # <<>>, UNCHANGED <<programs, generated_files>>, Seen' = Seen, Top.pc = "includes",
         NEW n, n = Top.next, n \in DOMAIN programs[Top.prog].includes, NEW c, c = programs[Top.prog].includes[n],
         stack' = <<GenerateFrame(c), [Top EXCEPT !.next = @ + 1]>> \o Tail(stack)
  PROVE  GenerateProgress(H)'
<1>0. ShapeInv /\ TreeInv
  BY DEF CoreInv
<1>1. /\ stack \in Seq(Frame) /\ Len(stack) \in Nat \ {0} /\ DOMAIN stack = 1..Len(stack) /\ Top \in Frame
      /\ 1 \in DOMAIN stack /\ Top.prog \in Progs /\ n \in Nat
  BY <1>0, TopFacts DEF ShapeInv, Frame
<1>2. PICK t, u : t = GenerateFrame(c) /\ u = [Top EXCEPT !.next = @ + 1]
  OBVIOUS
<1>3. c \in Progs
  BY <1>0, <1>1 DEF TreeInv
<1>4. t \in Frame /\ t.prog = c /\ t.pc = "begin" /\ t.next = 1
  BY SMTT(40), <1>0, <1>2, <1>3 DEF GenerateFrame, ParseFrame, Frame, ShapeInv, IsSequence, Progs
<1>5. u \in Frame /\ u.prog = Top.prog /\ u.pc = "includes" /\ u.next = n + 1
  BY <1>1, <1>2, FrameNext
<1>6. /\ stack' \in Seq(Frame) /\ Len(stack') = Len(stack) + 1 /\ stack'[1] = t /\ stack'[2] = u
      /\ \A k \in 3..Len(stack) + 1 : stack'[k] = stack[k - 1]
  BY <1>1, <1>2, <1>4, <1>5, PushFacts
<1>7. DOMAIN stack' = 1..Len(stack) + 1
  BY <1>1, <1>6
<1>8. stack' # <<>> /\ Len(stack') # 1
  <2>1. Len(stack') # 0 /\ Len(stack') # 1
    BY <1>1, <1>6
  <2> QED BY <2>1
<1>9. \A k \in DOMAIN stack : IsGenerating(H, k)
  BY SMTT(40) DEF GenerateProgress
<1>10. IsGenerating(H, 1)'
  BY <1>4, <1>6, <1>8 DEF IsGenerating
<1>11. IsGenerating(H, 2)'
  <2>1. PICK P : P = Top.prog
    OBVIOUS
  <2>2. IsGenerating(H, 1)
    BY <1>1, <1>9
  <2>3. Scanned(P) /\ programs[P].path \notin H[P]
    BY <2>1, <2>2 DEF IsGenerating, Top
  <2>4. Scanned(P)' /\ programs'[P].path \notin H[P]
    BY <2>3 DEF Scanned, Path
  <2>5. Len(stack') = 2 => P = 1
    BY <1>1, <1>6, <2>1, <2>2 DEF IsGenerating, Top
  <2>6. stack'[2].prog = P /\ stack'[2].pc = "includes" /\ stack'[2].next - 1 = n /\ stack'[2 - 1].prog = c
    <3>1. u.next - 1 = n /\ 2 - 1 = 1
      BY <1>1, <1>5
    <3>2. stack'[2] = u /\ stack'[1].prog = c /\ u.prog = P
      BY <1>4, <1>5, <1>6, <2>1
    <3>3. stack'[2 - 1].prog = c
      BY <3>1, <3>2
    <3> QED BY <1>5, <3>1, <3>2, <3>3
  <2>7. Scanned(stack[2].prog)' = Scanned(P)'
    BY <2>6 DEF Scanned, Path
  <2> QED BY ZenonT(40), <2>1, <2>4, <2>5, <2>6, <2>7 DEF IsGenerating
<1>12. ASSUME NEW m \in DOMAIN stack', m # 1, m # 2 PROVE IsGenerating(H, m)'
  <2>1. PICK k : k = m - 1 /\ k \in DOMAIN stack /\ m \in 3..Len(stack) + 1 /\ k > 1
    BY <1>1, <1>7, <1>12
  <2>2. m = Len(stack') => k = Len(stack)
    BY <1>1, <1>6, <2>1
  <2>3. stack'[m - 1].prog = stack[k - 1].prog
    <3>1. CASE m = 3
      <4>1. m - 1 = 2 /\ k - 1 = 1
        BY <2>1, <3>1
      <4> QED BY <1>5, <1>6, <4>1 DEF Top
    <3>2. CASE m # 3
      <4>1. m - 1 \in 3..Len(stack) + 1 /\ m - 1 - 1 = k - 1
        BY <1>1, <2>1, <3>2
      <4> QED BY <1>6, <4>1
    <3> QED BY <3>1, <3>2
  <2>4. stack'[m] = stack[k] /\ IsGenerating(H, k)
    BY <1>6, <1>9, <2>1
  <2> QED BY <2>1, <2>2, <2>3, <2>4, GeneratingStays
<1>13. HasReached(H, c, "begin", 1, generated_files)'
  <2>1. H[c] = H[Top.prog] \cup Below(Before(Top.prog, n))
    BY <1>1 DEF IsHistory
  <2>2. generated_files = H[Top.prog] \cup Below(Before(Top.prog, n))
    BY DEF GenerateProgress, HasReached
  <2> QED BY <2>1, <2>2 DEF HasReached
<1> QED BY Zenon, <1>4, <1>6, <1>8, <1>10, <1>11, <1>12, <1>13 DEF GenerateProgress, Top

LEMMA GenerateProgressNext ==
  ASSUME CoreInv, OutcomeInv, WrittenInv, [Next]_vars, NEW H, IsHistory(H), GenerateProgress(H)
  PROVE  GenerateProgress(H)'
<1>0. ShapeInv
  BY DEF CoreInv
<1>1. request' = request /\ Seen' = Seen /\ Reached("new")' = Reached("new")
  BY Rigid
<1>2. SUFFICES ASSUME phase' = "generate", request.recurse PROVE GenerateProgress(H)'
  BY <1>1 DEF GenerateProgress
<1>3. CASE ReturnToMain
  <2>1. stack' = <<GenerateFrame(1)>> /\ UNCHANGED generated_files /\ phase = "parse"
    BY <1>3 DEF ReturnToMain, At
  <2>2. DOMAIN stack' = {1} /\ stack'[1].prog = 1 /\ stack'[1].pc = "begin" /\ stack'[1].next = 1 /\ stack' # <<>>
    BY <2>1 DEF GenerateFrame, ParseFrame
  <2>3. generated_files = {}
    BY <2>1 DEF WrittenInv, Elements
  <2>4. HasReached(H, 1, "begin", 1, generated_files)'
    BY <2>1, <2>3 DEF HasReached, IsHistory
  <2>5. IsGenerating(H, 1)'
    BY <2>2 DEF IsGenerating
  <2> QED BY <2>2, <2>4, <2>5 DEF GenerateProgress, Top
<1>4. ASSUME phase = "generate", stack # <<>>
      PROVE  /\ Top.prog \in Progs /\ programs[Top.prog].path \in Files /\ IsGenerating(H, 1) /\ Top.next \in Nat \ {0}
             /\ HasReached(H, Top.prog, Top.pc, Top.next, generated_files)
  BY <1>0, <1>2, <1>4, TopFacts DEF GenerateProgress, Path, Frame
<1>5. CASE SkipGenerated
  <2>1. PICK P, f : P = Top.prog /\ f = programs[P].path
    OBVIOUS
  <2>2. phase = "generate" /\ stack # <<>> /\ Top.pc = "begin" /\ f \in generated_files /\ stack' = Tail(stack)
        /\ UNCHANGED <<programs, generated_files>>
    BY <1>5, <2>1 DEF SkipGenerated, At, Popped, Path
  <2>3. P \in Progs /\ f \in Files /\ generated_files = H[P]
    BY <1>4, <2>1, <2>2 DEF HasReached
  <2>4. {f} \subseteq H[P] /\ H[P] \in SUBSET Files /\ IsClosed(Seen, H[P])
    BY <2>2, <2>3 DEF IsHistory
  <2>5. Below({f}) \subseteq H[P]
    BY <2>4, ReachLeast DEF Below
  <2>6. generated_files' = H[P] \cup Below({f})
    BY <2>2, <2>3, <2>5
  <2> QED BY <1>1, <1>2, <2>1, <2>2, <2>6, GeneratePops
<1>6. CASE Generate
  <2>1. PICK P, f : P = Top.prog /\ f = programs[P].path
    OBVIOUS
  <2>2. phase = "generate" /\ stack # <<>> /\ Top.pc = "begin" /\ f \notin generated_files
        /\ WithTop([Top EXCEPT !.pc = "includes"]) /\ UNCHANGED <<programs, generated_files>>
    BY <1>2, <1>6, <2>1 DEF Generate, At, Path
  <2>3. P \in Progs /\ generated_files = H[P] /\ Top.next = 1
    BY <1>4, <2>1, <2>2 DEF HasReached, IsGenerating, Top
  <2>4. Settled(P)
    BY <2>2, <2>3, AllAreSettled
  <2>5. Scanned(P) /\ f \notin H[P]
    BY <2>1, <2>2, <2>3, <2>4 DEF IsHistory
  <2>6. Below(Before(P, 1)) = {}
    <3>1. Before(P, 1) = {} /\ Below({}) = {}
      BY <1>0, <2>3, BeforeFacts, BelowFacts
    <3> QED BY <3>1
  <2>7. HasReached(H, P, "includes", 1, generated_files)
    BY <2>3, <2>6 DEF HasReached
  <2> QED BY <1>1, <1>2, <2>1, <2>2, <2>3, <2>5, <2>7, GenerateGoesOn
<1>7. CASE GenerateInclude
  <2>1. PICK P, n : P = Top.prog /\ n = Top.next
    OBVIOUS
  <2>2. phase = "generate" /\ stack # <<>> /\ Top.pc = "includes" /\ UNCHANGED <<programs, generated_files>>
    BY <1>7 DEF GenerateInclude, At
  <2>3. P \in Progs /\ generated_files = H[P] \cup Below(Before(P, n)) /\ programs[P].path \in Files /\ n \in Nat \ {0}
    BY <1>4, <2>1, <2>2 DEF HasReached
  <2>4. Scanned(P) /\ programs[P].path \notin H[P]
    BY <1>4, <2>1, <2>2 DEF IsGenerating, Top
  <2>5. CASE n \in DOMAIN programs[P].includes
    <3>1. stack' = <<GenerateFrame(programs[P].includes[n]), [Top EXCEPT !.next = @ + 1]>> \o Tail(stack)
      BY <1>7, <2>1, <2>5 DEF GenerateInclude
    <3>2. PICK c : c = programs[P].includes[n]
      OBVIOUS
    <3> QED BY <1>1, <1>2, <2>1, <2>2, <2>5, <3>1, <3>2, GeneratePushes
  <2>6. CASE n \notin DOMAIN programs[P].includes
    <3>1. WithTop([Top EXCEPT !.pc = "write"])
      BY <1>7, <2>1, <2>6 DEF GenerateInclude
    <3>2. PICK f : f = programs[P].path
      OBVIOUS
    <3>3. n \notin DOMAIN Seen[f]
      BY <2>4, <2>6, <3>2 DEF Scanned, Path
    <3>4. Before(P, n) = IncludedBy(f)
      BY <1>0, <2>3, <3>2, <3>3, BeforeFacts
    <3>5. HasReached(H, P, "write", n, generated_files)
      BY <2>3, <3>2, <3>4 DEF HasReached
    <3> QED BY <1>1, <1>2, <2>1, <2>2, <2>4, <3>1, <3>5, GenerateGoesOn
  <2> QED BY <2>5, <2>6
<1>8. CASE GenerateProgram /\ IsResolved(Top.prog)
  <2>1. PICK P, f : P = Top.prog /\ f = programs[P].path
    OBVIOUS
  <2>2. phase = "generate" /\ stack # <<>> /\ Top.pc = "write" /\ stack' = Tail(stack)
        /\ generated_files' = generated_files \cup {f} /\ UNCHANGED programs
    BY <1>8, <2>1 DEF GenerateProgram, At, Popped, Path
  <2>3. generated_files = H[P] \cup Below(IncludedBy(f)) /\ f \in Files
    BY <1>4, <2>1, <2>2 DEF HasReached
  <2>4. Below({f}) = {f} \cup Below(IncludedBy(f))
    BY <1>0, <2>3, BelowFacts
  <2>5. generated_files' = H[P] \cup Below({f})
    BY <2>2, <2>3, <2>4
  <2> QED BY <1>1, <1>2, <2>1, <2>2, <2>5, GeneratePops
<1>9. ASSUME phase = "generate", UNCHANGED <<stack, programs, generated_files>> PROVE GenerateProgress(H)'
  <2>1. \A k : IsGenerating(H, k)' = IsGenerating(H, k)
    BY <1>1, <1>9 DEF IsGenerating, Scanned, Path
  <2>2. HasReached(H, Top.prog, Top.pc, Top.next, generated_files)' = HasReached(H, Top.prog, Top.pc, Top.next, generated_files)
    <3>1. PICK P, n, f : P = Top.prog /\ n = Top.next /\ f = programs[P].path
      OBVIOUS
    <3>2. Top' = Top /\ programs'[P].path = f
      BY <1>9, <3>1 DEF Top
    <3>3. Below(Before(P, n))' = Below(Before(P, n))
      BY <1>1, <1>9 DEF Below, Before, Reach, IsClosed
    <3>4. Below({f})' = Below({f}) /\ Below(IncludedBy(f))' = Below(IncludedBy(f))
      BY <1>1 DEF Below, IncludedBy, Reach, IsClosed
    <3> QED BY <1>9, <3>1, <3>2, <3>3, <3>4 DEF HasReached
  <2> QED BY <1>1, <1>2, <1>9, <2>1, <2>2 DEF GenerateProgress
<1>10. CASE GenerateProgram /\ ~ IsResolved(Top.prog)
  BY <1>9, <1>10 DEF GenerateProgram, Refused, At
<1>11. CASE UNCHANGED vars
  BY SMTT(40), <1>2, <1>9, <1>11 DEF vars
<1>12. ReturnToMain \/ SkipGenerated \/ Generate \/ GenerateInclude \/ GenerateProgram \/ UNCHANGED vars
  BY Zenon, <1>2 DEF Next, SkipRecursion, ScanIncludes, Recurse, Overflow, SaveScope, DefineType, DefineConst,
              Defined, Refused, Return, ReturnToAudit, At, Defining
<1> QED BY <1>3, <1>5, <1>6, <1>7, <1>8, <1>10, <1>11, <1>12

LEMMA HistoryNext ==
  ASSUME CoreInv, OutcomeInv, WrittenInv, HistoryInv, [Next]_vars
  PROVE  HistoryInv'
<1>1. SUFFICES ASSUME ~ request.audit PROVE (\E H : IsHistory(H) /\ ParseProgress(H) /\ GenerateProgress(H))'
  BY Rigid DEF HistoryInv
<1>2. PICK H : IsHistory(H) /\ ParseProgress(H) /\ GenerateProgress(H)
  BY <1>1 DEF HistoryInv
<1>3. CASE ScanIncludes
  <2>1. PICK G : G = [q \in Progs' |-> IF q \in Progs THEN H[q]
                                       ELSE H[Top.prog] \cup Below(Before(Top.prog, q - Len(programs)))]
    OBVIOUS
  <2>2. IsHistory(G)' /\ ParseProgress(G)'
    BY <1>2, <1>3, <2>1, HistoryScans
  <2>3. GenerateProgress(G)'
    BY <1>3 DEF ScanIncludes, At, GenerateProgress
  <2> QED BY <2>2, <2>3
<1>4. CASE ~ ScanIncludes
  <2>1. IsHistory(H)' /\ ParseProgress(H)' /\ GenerateProgress(H)'
    BY <1>1, <1>2, <1>4, HistoryStays, ParseProgressNext, GenerateProgressNext
  <2> QED BY <2>1
<1> QED BY <1>3, <1>4

\* A file is written after those it includes, and not again.
LEMMA WriteFacts ==
  ASSUME CoreInv, OutcomeInv, WrittenInv, HistoryInv, GenerateProgram, NEW f, f = programs[Top.prog].path
  PROVE  /\ f \notin generated_files
         /\ request.recurse => IncludedBy(f) \subseteq generated_files
<1>0. ShapeInv
  BY DEF CoreInv
<1>1. phase = "generate" /\ stack # <<>> /\ Top.pc = "write"
  BY DEF GenerateProgram, At
<1>2. Top.prog \in Progs /\ 1 \in DOMAIN stack /\ f \in Files
  BY <1>0, <1>1, TopFacts DEF Path
<1>3. CASE request.recurse
  <2>1. PICK H : IsHistory(H) /\ GenerateProgress(H)
    BY <1>0, <1>3 DEF ShapeInv, HistoryInv
  <2>2. IsGenerating(H, 1) /\ generated_files = H[Top.prog] \cup Below(IncludedBy(f))
    BY <1>1, <1>2, <1>3, <2>1 DEF GenerateProgress, HasReached
  <2>3. f \notin H[Top.prog]
    BY <1>1, <2>2 DEF IsGenerating, Top
  <2>4. f \in Known
    <3>1. IsAsSaved(Top.prog)
      BY <1>1, <1>2, AllAreSettled
    <3> QED BY <3>1 DEF IsAsSaved
  <2>5. f \notin Below(IncludedBy(f))
    BY <2>4 DEF CoreInv, KnownInv, Below
  <2>6. IncludedBy(f) \subseteq Below(IncludedBy(f))
    <3>1. IncludedBy(f) \in SUBSET Files
      BY <1>0, <1>2, SeenFacts
    <3> QED BY <1>0, <3>1, BelowFacts
  <2> QED BY <2>2, <2>3, <2>5, <2>6
<1>4. CASE ~ request.recurse
  <2>1. written = <<>> /\ Elements(written) = generated_files
    BY <1>1, <1>4 DEF WrittenInv, WritesOne
  <2> QED BY <1>4, <2>1 DEF Elements
<1> QED BY <1>3, <1>4

LEMMA WrittenNext ==
  ASSUME CoreInv, OutcomeInv, OverflowInv, WrittenInv, HistoryInv, [Next]_vars
  PROVE  WrittenInv'
<1>0. ShapeInv
  BY DEF CoreInv
<1>1. UNCHANGED <<project, request>> /\ \A f : IncludedBy(f)' = IncludedBy(f)
  BY Rigid, FilesStay
<1>2. PICK w : w = written /\ IsSequence(w)
  BY DEF WrittenInv
<1>3. CASE GenerateProgram /\ IsResolved(Top.prog)
  <2>1. PICK f : f = programs[Top.prog].path
    OBVIOUS
  <2>2. /\ phase = "generate" /\ phase' = "generate" /\ stack # <<>> /\ stack' = Tail(stack)
        /\ written' = Append(w, f) /\ generated_files' = generated_files \cup {f}
        /\ status = "running" /\ (status' = "done" => stack' = <<>>)
    BY <1>2, <1>3, <2>1 DEF GenerateProgram, At, Popped, End, Path
  <2>3. f \notin generated_files /\ (request.recurse => IncludedBy(f) \subseteq generated_files)
    BY <1>3, <2>1, WriteFacts
  <2>4. PICK n \in Nat : n = Len(w) /\ DOMAIN w = 1..n
    BY <1>2 DEF IsSequence
  <2>5. PICK v : v = Append(w, f) /\ IsSequence(v) /\ Len(v) = n + 1 /\ (\A i \in 1..n : v[i] = w[i]) /\ v[n + 1] = f
    BY Zenon, <1>2, <2>4, AppendIsSequence
  <2>6. DOMAIN v = 1..n + 1 /\ \A i \in 1..n + 1 : i \in 1..n \/ i = n + 1
    BY <2>4, <2>5 DEF IsSequence
  <2>7. generated_files = Elements(w)
    BY <1>2 DEF WrittenInv
  <2>8. generated_files = {w[i] : i \in 1..n}
    BY <2>4, <2>7 DEF Elements
  <2>9. Elements(v) = generated_files \cup {f}
    <3>1. Elements(v) = {v[i] : i \in 1..n + 1}
      BY <2>5 DEF Elements
    <3>2. 1..n + 1 = 1..n \cup {n + 1}
      BY <2>4
    <3> QED BY <2>5, <2>8, <3>1, <3>2
  <2>10. ASSUME NEW i \in DOMAIN v, NEW j \in DOMAIN v, v[i] = v[j] PROVE i = j
    <3>1. CASE i \in 1..n /\ j \in 1..n
      BY <1>2, <2>4, <2>5, <2>10, <3>1 DEF WrittenInv, IsOnce
    <3>2. \A k \in 1..n : v[k] # f
      BY <2>3, <2>5, <2>8
    <3> QED BY <2>5, <2>6, <2>10, <3>1, <3>2
  <2>11. ASSUME request.recurse, NEW i \in DOMAIN v, NEW g \in IncludedBy(v[i])
         PROVE  \E j \in DOMAIN v : j < i /\ v[j] = g
    <3>1. CASE i \in 1..n
      <4>1. PICK j \in 1..n : j < i /\ w[j] = g
        BY SMTT(40), <1>2, <2>4, <2>5, <2>11, <3>1 DEF WrittenInv, IsOrdered
      <4> QED BY <2>5, <2>6, <4>1
    <3>2. CASE i = n + 1
      <4>1. g \in generated_files
        BY <2>3, <2>5, <2>11, <3>2
      <4>2. PICK j \in 1..n : w[j] = g
        BY <2>8, <4>1
      <4>3. j < n + 1
        BY <2>4
      <4> QED BY <2>5, <2>6, <3>2, <4>2, <4>3
    <3> QED BY <2>6, <2>11, <3>1, <3>2
  <2>12. WritesOne'
    <3>1. SUFFICES ASSUME ~ request.recurse PROVE stack' = <<>> /\ written' = <<project.root["new"]>>
      BY <1>1 DEF WritesOne
    <3>2. Len(stack) = 1 /\ Top.prog = 1 /\ written = <<>>
      BY <2>2, <3>1 DEF WrittenInv, WritesOne
    <3>3. stack' = <<>>
      <4>1. Tail(stack) \in Seq(Frame) /\ Len(Tail(stack)) = 0
        BY <1>0, <2>2, <3>2, PopFacts DEF ShapeInv
      <4> QED BY <2>2, <4>1, EmptySeq
    <3>4. f = project.root["new"]
      BY <1>0, <2>1, <3>2 DEF ShapeInv, Path
    <3> QED BY <1>2, <2>2, <3>2, <3>3, <3>4
  <2>13. written' = v
    BY <2>2, <2>5
  <2>14. IsOnce'
    BY <2>10, <2>13 DEF IsOnce
  <2>15. IsOrdered'
    BY <1>1, <2>11, <2>13 DEF IsOrdered
  <2>16. IsSequence(written)' /\ (Elements(written) = generated_files)'
    BY <2>2, <2>5, <2>9, <2>13
  <2> QED BY <2>2, <2>12, <2>14, <2>15, <2>16 DEF WrittenInv
<1>4. ASSUME UNCHANGED <<written, generated_files>>,
             phase' # "generate" => phase # "generate",
             phase' = "compare" => request.audit,
             phase' = "generate" /\ status' = "done" => stack' = <<>>,
             WritesOne'
      PROVE  WrittenInv'
  <2>1. IsOnce' /\ IsOrdered'
    BY <1>1, <1>4 DEF WrittenInv, IsOnce, IsOrdered
  <2>2. IsSequence(written)' /\ (Elements(written) = generated_files)'
    BY <1>4 DEF WrittenInv
  <2>3. phase' # "generate" => written' = <<>>
    BY <1>4 DEF WrittenInv
  <2> QED BY <1>1, <1>4, <2>1, <2>2, <2>3 DEF WrittenInv
<1>5. CASE phase = "parse" /\ phase' = "parse"
  <2>1. UNCHANGED <<written, generated_files>>
    BY Zenon, <1>5 DEF Next, vars, SkipRecursion, ScanIncludes, Recurse, Overflow, SaveScope, DefineType, DefineConst,
         Defined, Refused, Return, ReturnToAudit, ReturnToMain, At, SkipGenerated, Generate, GenerateInclude, GenerateProgram
  <2> QED BY SMTT(40), <1>4, <1>5, <2>1 DEF WritesOne
<1>6. CASE ReturnToAudit
  BY <1>4, <1>6 DEF ReturnToAudit, At, WritesOne
<1>7. CASE ReturnToMain
  <2>1. phase = "parse" /\ phase' = "generate" /\ status' = "running" /\ UNCHANGED <<written, generated_files>>
        /\ stack' = <<GenerateFrame(1)>>
    BY <1>7 DEF ReturnToMain, At
  <2>2. Len(stack') = 1 /\ stack' # <<>> /\ stack'[1].prog = 1 /\ stack'[1].pc = "begin"
    BY <2>1 DEF GenerateFrame, ParseFrame
  <2>3. written = <<>>
    BY <2>1 DEF WrittenInv
  <2>4. WritesOne'
    BY <2>1, <2>2, <2>3 DEF WritesOne, Top
  <2> QED BY <1>4, <2>1, <2>4
<1>8. CASE SkipGenerated
  <2>1. /\ phase = "generate" /\ phase' = "generate" /\ stack # <<>> /\ UNCHANGED <<written, generated_files>>
        /\ Path(Top.prog) \in generated_files /\ status = "running" /\ (status' = "done" => stack' = <<>>)
    BY <1>8 DEF SkipGenerated, At, Popped, End
  <2>2. request.recurse
    <3>1. generated_files # {}
      BY <2>1
    <3>2. written # <<>>
      BY <3>1 DEF WrittenInv, Elements
    <3> QED BY <1>0, <2>1, <3>2 DEF WrittenInv, WritesOne
  <2> QED BY <1>1, <1>4, <2>1, <2>2 DEF WritesOne
<1>9. CASE Generate
  <2>1. /\ phase = "generate" /\ phase' = "generate" /\ stack # <<>> /\ UNCHANGED <<written, generated_files>>
        /\ status' = "running" /\ WithTop([Top EXCEPT !.pc = IF request.recurse THEN "includes" ELSE "write"])
    BY <1>9 DEF Generate, At
  <2>2. WritesOne'
    <3>1. SUFFICES ASSUME ~ request.recurse
                   PROVE  Len(stack') = 1 /\ stack'[1].prog = 1 /\ stack'[1].pc # "includes" /\ written' = <<>> /\ stack' # <<>>
      BY <1>1 DEF WritesOne, Top
    <3>2. Len(stack) = 1 /\ Top.prog = 1 /\ written = <<>> /\ stack \in Seq(Frame) /\ Top \in Frame
      BY <1>0, <2>1, <3>1, TopFacts DEF WrittenInv, WritesOne, ShapeInv
    <3>3. PICK pc : pc = "write" /\ pc \in {"begin", "includes", "types", "write"} /\ WithTop([Top EXCEPT !.pc = pc])
      BY <2>1, <3>1
    <3>4. PICK t : t = [Top EXCEPT !.pc = pc]
      OBVIOUS
    <3>5. t \in Frame /\ t.prog = 1 /\ t.pc = "write"
      BY <3>2, <3>3, <3>4, FrameAt
    <3>6. Len(stack') = 1 /\ stack'[1] = t
      BY <2>1, <3>2, <3>3, <3>4, <3>5, WithTopFacts
    <3> QED BY <2>1, <3>2, <3>5, <3>6
  <2> QED BY <1>4, <2>1, <2>2
<1>10. CASE GenerateInclude
  <2>1. /\ phase = "generate" /\ phase' = "generate" /\ stack # <<>> /\ UNCHANGED <<written, generated_files>>
        /\ status' = "running" /\ Top.pc = "includes"
    BY <1>10 DEF GenerateInclude, At
  <2>2. request.recurse
    BY <2>1 DEF WrittenInv, WritesOne
  <2> QED BY <1>1, <1>4, <2>1, <2>2 DEF WritesOne
<1>11. CASE GenerateProgram /\ ~ IsResolved(Top.prog)
  <2>1. UNCHANGED <<written, generated_files, phase, stack, request, project>> /\ status' = "failure" /\ phase = "generate"
    BY <1>1, <1>11 DEF GenerateProgram, Refused, End, At
  <2>2. WritesOne'
    BY <2>1 DEF WrittenInv, WritesOne, Top
  <2> QED BY <1>4, <2>1, <2>2
<1>12. CASE UNCHANGED vars
  <2>1. WritesOne'
    BY SMTT(40), <1>12 DEF vars, WrittenInv, WritesOne, Top
  <2> QED BY <1>4, <1>12, <2>1 DEF vars, WrittenInv
<1>13. \/ phase = "parse" /\ phase' = "parse"
       \/ ReturnToAudit \/ ReturnToMain \/ SkipGenerated \/ Generate \/ GenerateInclude \/ GenerateProgram \/ UNCHANGED vars
  BY Zenon DEF Next, SkipRecursion, ScanIncludes, Recurse, Overflow, SaveScope, DefineType, DefineConst, Defined, Refused, Return, At, Defining
<1> QED BY <1>3, <1>5, <1>6, <1>7, <1>8, <1>9, <1>10, <1>11, <1>12, <1>13

LEMMA WrittenHolds == Spec => [](WrittenInv /\ HistoryInv)
<1>1. Init => WrittenInv
  <2>1. SUFFICES ASSUME Init PROVE WrittenInv
    OBVIOUS
  <2>2. written = <<>> /\ generated_files = {} /\ phase = "parse" /\ status = "running"
    BY <2>1 DEF Init
  <2>3. IsSequence(written) /\ Elements(written) = {}
    BY <2>2 DEF IsSequence, Elements
  <2> QED BY <2>2, <2>3 DEF WrittenInv, IsOnce, IsOrdered, WritesOne
<1>2. CoreInv /\ OutcomeInv /\ OverflowInv /\ WrittenInv /\ HistoryInv /\ [Next]_vars => (WrittenInv /\ HistoryInv)'
  BY WrittenNext, HistoryNext
<1> QED BY <1>1, <1>2, HistoryInit, CoreHolds, OutcomeHolds, OverflowHolds, PTL DEF Spec

\* With -r everything that is reached is generated, exactly once, and after what it includes,
\* although a second program of a file has no includes to follow.
THEOREM EverythingIsGeneratedOnce == Spec => []GeneratesAll
<1>1. ASSUME CoreInv, OverflowInv, WrittenInv, HistoryInv PROVE GeneratesAll
  <2>0. ShapeInv
    BY <1>1 DEF CoreInv
  <2>1. Range(written) = Elements(written) /\ Elements(written) = generated_files
    BY <1>1 DEF WrittenInv, Range, Elements, IsSequence
  <2>2. ASSUME status = "done", ~ request.audit
        PROVE  Range(written) = IF request.recurse THEN Reached("new") ELSE {project.root["new"]}
    <3>1. phase = "generate" /\ stack = <<>>
      BY <1>1, <2>0, <2>2 DEF OverflowInv, WrittenInv, ShapeInv
    <3>2. CASE request.recurse
      BY <1>1, <2>1, <2>2, <3>1, <3>2 DEF HistoryInv, GenerateProgress
    <3>3. CASE ~ request.recurse
      <4>1. written = <<project.root["new"]>>
        BY <1>1, <3>1, <3>3 DEF WrittenInv, WritesOne
      <4> QED BY <3>3, <4>1 DEF Range
    <3> QED BY <3>2, <3>3
  <2>3. ASSUME NEW i \in DOMAIN written, NEW j \in DOMAIN written, written[j] \in IncludedBy(written[i]) PROVE j < i
    <3>1. CASE request.recurse
      BY <1>1, <2>3, <3>1 DEF WrittenInv, IsOrdered, IsOnce
    <3>2. CASE ~ request.recurse
      <4>1. written # <<>>
        BY <2>3
      <4>2. phase = "generate" /\ written = <<project.root["new"]>>
        BY <1>1, <3>2, <4>1 DEF WrittenInv, WritesOne
      <4>3. PICK f : f = project.root["new"] /\ f \in Files
        BY <2>0, ProjectFacts
      <4>4. f \notin Reach(Seen, IncludedBy(f))
        BY <1>1, <4>2, <4>3 DEF CoreInv, KnownInv
      <4>5. f \in IncludedBy(f)
        BY <2>3, <4>2, <4>3
      <4>6. IncludedBy(f) \subseteq Reach(Seen, IncludedBy(f))
        BY <2>0, <4>3, SeenFacts, ReachFacts
      <4> QED BY <4>4, <4>5, <4>6
    <3> QED BY <3>1, <3>2
  <2>4. \A i, j \in DOMAIN written : written[i] = written[j] => i = j
    BY <1>1 DEF WrittenInv, IsOnce
  <2> QED BY <2>2, <2>3, <2>4 DEF GeneratesAll
<1> QED BY <1>1, CoreHolds, OverflowHolds, WrittenHolds, PTL

=============================================================================
