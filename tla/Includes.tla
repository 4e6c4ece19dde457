------------------------------ MODULE Includes ------------------------------
(****************************************************************************)
(* The compiler's driver (compiler/src/main.cc): parse reads a file and,     *)
(* recursively, what it includes, each file in two passes; generate writes   *)
(* them out; an audit parses an old and a new file to compare them.          *)
(****************************************************************************)
EXTENDS Integers, FiniteSets, SequencesExt

CONSTANTS
  Files,           \* paths, as realpath gives them
  Projects,        \* what may be on disk, see IsProject
  MaxDepth,        \* calls of parse that the C++ stack holds
  NULL

(****************************************************************************)
(* A project has the files to start from, and for each file its base name,   *)
(* which is the prefix of its names elsewhere, its namespace, the files that *)
(* include_file finds for its include directives with the search path of the *)
(* old and of the new file of an audit, and its definitions: structs         *)
(* with the types of their fields, constants with those in their values.     *)
(* These it refers to by name: <<prefix, name>>, the prefix NULL for none.   *)
(****************************************************************************)
Sides == {"old", "new"}
Definition(p, defn) ==
  /\ defn.kind \in {"type", "const"}
  /\ \A q \in defn.refs : q = <<q[1], q[2]>> /\ (q[1] = NULL \/ q[1] \in Range(p.base))
IsProject(p) ==
  /\ p.root \in [Sides -> Files]
  /\ \A s \in Sides, f \in Files : p.includes[s][f] \in Seq(Files)
  /\ \A f \in Files : /\ p.defs[f] \in Seq(Range(p.defs[f]))
                      /\ \A i \in DOMAIN p.defs[f] : Definition(p, p.defs[f][i])
  /\ DOMAIN p.namespace = Files
  /\ DOMAIN p.base = Files /\ NULL \notin Range(p.base)

ASSUME IncludesAssumption ==
  /\ \A p \in Projects : IsProject(p)
  /\ IsFiniteSet(Files)
  /\ MaxDepth \in Nat \ {0}
  /\ NULL \notin Nat /\ NULL \notin Nat \X Nat

VARIABLES
  project,           \* what is on disk; it does not change
  request,           \* the options -audit and -recurse
  side,              \* g_incl_searchpath
  programs,          \* the t_program objects, in the order they were made
  program_to_scope,
  stack,             \* calls of parse, or of generate
  phase,             \* which of the two
  generated_files,
  written,           \* the files generate_program was called for
  status             \* how the compiler ended, or "running"

vars == <<project, request, side, programs, program_to_scope, stack, phase,
          generated_files, written, status>>

(****************************************************************************)
(* A scope maps names to definitions.  A definition is known by the program  *)
(* it is in and its place there; `program' is a t_program.                   *)
(****************************************************************************)
EmptyScope == [types |-> <<>>, consts |-> <<>>]
NewProgram(path, s) ==
  [path |-> path, side |-> s, includes |-> <<>>, scope |-> EmptyScope, defs |-> <<>>]
With(names, q, o) == [x \in DOMAIN names \cup {q} |-> IF x = q THEN o ELSE names[x]]
Lookup(names, q) == IF q \in DOMAIN names THEN names[q] ELSE NULL

Top == stack[1]
Path(p) == programs[p].path
BaseName(f) == project.base[f]   \* program_name
Defs(p) == project.defs[Path(p)]
WithTop(frame) == stack' = <<frame>> \o Tail(stack)
ParseFrame(p, parent) == [prog |-> p, parent |-> parent, pc |-> "begin", next |-> 1]
GenerateFrame(p) == ParseFrame(p, NULL)

At(ph, pc) == status = "running" /\ phase = ph /\ stack # <<>> /\ Top.pc = pc
End(how) == status' = how

\* main: one program, or for an audit the new one and the old one.
Init ==
  /\ project \in Projects
  /\ request \in [audit : BOOLEAN, recurse : BOOLEAN]
  /\ request.audit => ~ request.recurse
  /\ side = IF request.audit THEN "old" ELSE "new"
  /\ programs = IF request.audit
                THEN <<NewProgram(project.root["new"], "new"), NewProgram(project.root["old"], "old")>>
                ELSE <<NewProgram(project.root["new"], "new")>>
  /\ stack = <<ParseFrame(Len(programs), NULL)>>
  /\ phase = "parse"
  /\ program_to_scope = <<>>
  /\ generated_files = {} /\ written = <<>>
  /\ status = "running"

-----------------------------------------------------------------------------
(****************************************************************************)
(* parse                                                                     *)
(****************************************************************************)

\* Mutant: the copy of the scope is forgotten.
SkipRecursionEmpty ==
  /\ At("parse", "begin") /\ Path(Top.prog) \in DOMAIN program_to_scope
  /\ WithTop([Top EXCEPT !.pc = "types"])
  /\ UNCHANGED <<project, request, side, programs, program_to_scope, phase, generated_files, written,
                 status>>

\* "Skipping recursion for parsed program"
SkipRecursion ==
  /\ At("parse", "begin") /\ Path(Top.prog) \in DOMAIN program_to_scope
  /\ programs' = [programs EXCEPT ![Top.prog].scope = program_to_scope[Path(Top.prog)]]
  /\ WithTop([Top EXCEPT !.pc = "types"])
  /\ UNCHANGED <<project, request, side, program_to_scope, phase, generated_files, written, status>>

\* Mutant: the include directives of the old file, too, are followed along -Inew.
ScanIncludesNewPath ==
  /\ At("parse", "begin") /\ Path(Top.prog) \notin DOMAIN program_to_scope
  /\ LET found == project.includes["new"][Path(Top.prog)] IN
     programs' = [programs EXCEPT ![Top.prog].includes = [i \in DOMAIN found |-> Len(programs) + i]]
                   \o [i \in DOMAIN found |-> NewProgram(found[i], side)]
  /\ WithTop([Top EXCEPT !.pc = "includes"])
  /\ UNCHANGED <<project, request, side, program_to_scope, phase, generated_files, written, status>>

\* The pass over the include directives: a new program for each.
ScanIncludes ==
  /\ At("parse", "begin") /\ Path(Top.prog) \notin DOMAIN program_to_scope
  /\ LET found == project.includes[side][Path(Top.prog)] IN
     programs' = [programs EXCEPT ![Top.prog].includes = [i \in DOMAIN found |-> Len(programs) + i]]
                   \o [i \in DOMAIN found |-> NewProgram(found[i], side)]
  /\ WithTop([Top EXCEPT !.pc = "includes"])
  /\ UNCHANGED <<project, request, side, program_to_scope, phase, generated_files, written, status>>

\* parse(*iter, program)
Recurse ==
  /\ At("parse", "includes") /\ Top.next \in DOMAIN programs[Top.prog].includes
  /\ Len(stack) < MaxDepth
  /\ stack' = <<ParseFrame(programs[Top.prog].includes[Top.next], Top.prog),
                [Top EXCEPT !.next = @ + 1]>> \o Tail(stack)
  /\ UNCHANGED <<project, request, side, programs, program_to_scope, phase, generated_files,
                 written, status>>

Overflow ==
  /\ At("parse", "includes") /\ Top.next \in DOMAIN programs[Top.prog].includes
  /\ Len(stack) = MaxDepth
  /\ End("overflow")
  /\ UNCHANGED <<project, request, side, programs, program_to_scope, stack, phase,
                 generated_files, written>>

\* program_to_scope[path] = *(program->scope())
SaveScope ==
  /\ At("parse", "includes") /\ Top.next \notin DOMAIN programs[Top.prog].includes
  /\ program_to_scope' = With(program_to_scope, Path(Top.prog), programs[Top.prog].scope)
  /\ WithTop([ParseFrame(Top.prog, Top.parent) EXCEPT !.pc = "types"])
  /\ UNCHANGED <<project, request, side, programs, phase, generated_files, written, status>>

-----------------------------------------------------------------------------
(****************************************************************************)
(* The pass over the definitions.  Each goes into the scope of its program   *)
(* and, with the program's name for a prefix, into that of the program that  *)
(* includes it.                                                              *)
(****************************************************************************)
Defining == At("parse", "types") /\ Top.next \in DOMAIN Defs(Top.prog)
Current == Defs(Top.prog)[Top.next]

WithCurrent(names, prefix) == With(names, <<prefix, Current.name>>, <<Top.prog, Top.next>>)

\* Mutant: the parent gets the name without a prefix.
PrefixNone == NULL

\* g_parent_prefix
Prefix == BaseName(Path(Top.prog))

\* g_scope and g_parent_scope, with a definition added to its types or constants
AddedTo(kind) ==
  [p \in DOMAIN programs |->
     [programs[p] EXCEPT
        !.scope[kind] = IF p = Top.prog THEN WithCurrent(@, NULL)
                        ELSE IF p = Top.parent THEN WithCurrent(@, Prefix) ELSE @]]

\* What a definition refers to, at the time it is parsed.
Bound(kind) == [q \in Current.refs |-> Lookup(programs[Top.prog].scope[kind], q)]

Defined(kind) ==
  /\ programs' = [AddedTo(kind) EXCEPT
                    ![Top.prog].defs = Append(@, [name |-> Current.name, kind |-> Current.kind,
                                                  refs |-> Bound(kind)])]
  /\ WithTop([Top EXCEPT !.next = @ + 1])
  /\ UNCHANGED <<project, request, side, program_to_scope, phase, generated_files, written, status>>

\* yyerror and exit, or failure: the compiler ends with what it had.
Refused ==
  /\ End("failure")
  /\ UNCHANGED <<project, request, side, programs, program_to_scope, stack, phase, generated_files,
                 written>>

\* t_program::program_typename_count
SameTypename(p) ==
  \E i \in DOMAIN programs[p].defs :
    /\ programs[p].defs[i].kind = "type"
    /\ programs[p].defs[i].name = Current.name
    /\ project.namespace[Path(p)] = project.namespace[Path(Top.prog)]

\* t_program::is_unique_typename, before the new one is counted
IsUniqueTypename ==
  ~ \E p \in {Top.prog} \cup Range(programs[Top.prog].includes) : SameTypename(p)

\* A type it does not know becomes a forward typedef.
DefineType ==
  /\ Defining /\ Current.kind = "type"
  /\ IF IsUniqueTypename THEN Defined("types") ELSE Refused

\* Mutant: the scope of the parent is not looked at.
IsNewConstantHere == <<NULL, Current.name>> \notin DOMAIN programs[Top.prog].scope.consts

\* The constants it refers to must be known, and its name new in both scopes.
IsNewConstant ==
  /\ <<NULL, Current.name>> \notin DOMAIN programs[Top.prog].scope.consts
  /\ Top.parent # NULL =>
       <<Prefix, Current.name>> \notin DOMAIN programs[Top.parent].scope.consts

DefineConst ==
  /\ Defining /\ Current.kind = "const"
  /\ IF IsNewConstant /\ \A q \in Current.refs : Bound("consts")[q] # NULL
     THEN Defined("consts")
     ELSE Refused

-----------------------------------------------------------------------------
\* Mutant: the scope is saved after the definitions, too.
ReturnSaving ==
  /\ At("parse", "types") /\ Top.next \notin DOMAIN Defs(Top.prog)
  /\ Len(stack) > 1
  /\ program_to_scope' = With(program_to_scope, Path(Top.prog), programs[Top.prog].scope)
  /\ stack' = Tail(stack)
  /\ UNCHANGED <<project, request, side, programs, phase, generated_files, written, status>>

\* parse returns, to the parse that called it ...
Return ==
  /\ At("parse", "types") /\ Top.next \notin DOMAIN Defs(Top.prog)
  /\ Len(stack) > 1
  /\ stack' = Tail(stack)
  /\ UNCHANGED <<project, request, side, programs, program_to_scope, phase, generated_files,
                 written, status>>

\* Mutant: the search path is left as it was for the old file.
ReturnToAuditOldPath ==
  /\ At("parse", "types") /\ Top.next \notin DOMAIN Defs(Top.prog)
  /\ Len(stack) = 1 /\ request.audit
  /\ IF Top.prog # 1 THEN stack' = <<ParseFrame(1, NULL)>> /\ UNCHANGED <<phase, status>>
                     ELSE stack' = <<>> /\ phase' = "compare" /\ End("done")
  /\ UNCHANGED <<project, request, side, programs, program_to_scope, generated_files, written>>

\* ... to audit, which goes on to the new file or to the comparison ...
ReturnToAudit ==
  /\ At("parse", "types") /\ Top.next \notin DOMAIN Defs(Top.prog)
  /\ Len(stack) = 1 /\ request.audit
  /\ side' = "new"
  /\ IF side = "old" THEN stack' = <<ParseFrame(1, NULL)>> /\ UNCHANGED <<phase, status>>
                     ELSE stack' = <<>> /\ phase' = "compare" /\ End("done")
  /\ UNCHANGED <<project, request, programs, program_to_scope, generated_files, written>>

\* ... or to main, which generates.
ReturnToMain ==
  /\ At("parse", "types") /\ Top.next \notin DOMAIN Defs(Top.prog)
  /\ Len(stack) = 1 /\ ~ request.audit
  /\ stack' = <<GenerateFrame(1)>>
  /\ phase' = "generate"
  /\ UNCHANGED <<project, request, side, programs, program_to_scope, generated_files, written,
                 status>>

-----------------------------------------------------------------------------
(****************************************************************************)
(* generate                                                                  *)
(****************************************************************************)
Popped ==
  /\ stack' = Tail(stack)
  /\ IF Tail(stack) = <<>> THEN End("done") ELSE UNCHANGED status

\* "Skipping an already generated file"
SkipGenerated ==
  /\ At("generate", "begin") /\ Path(Top.prog) \in generated_files
  /\ Popped
  /\ UNCHANGED <<project, request, side, programs, program_to_scope, phase, generated_files, written>>

\* The includes are generated first, with -r.
Generate ==
  /\ At("generate", "begin") /\ Path(Top.prog) \notin generated_files
  /\ WithTop([Top EXCEPT !.pc = IF request.recurse THEN "includes" ELSE "write"])
  /\ UNCHANGED <<project, request, side, programs, program_to_scope, phase, generated_files,
                 written, status>>

\* Mutant: the includes are taken from the last to the first.
GenerateIncludeFromLast ==
  /\ At("generate", "includes")
  /\ LET includes == programs[Top.prog].includes IN
     IF Top.next \in DOMAIN includes
     THEN stack' = <<GenerateFrame(includes[Len(includes) + 1 - Top.next]), [Top EXCEPT !.next = @ + 1]>> \o Tail(stack)
     ELSE WithTop([Top EXCEPT !.pc = "write"])
  /\ UNCHANGED <<project, request, side, programs, program_to_scope, phase, generated_files,
                 written, status>>

\* Mutant: always the same include.
GenerateIncludeAgain ==
  /\ At("generate", "includes")
  /\ LET includes == programs[Top.prog].includes IN
     IF Top.next \in DOMAIN includes
     THEN stack' = <<GenerateFrame(includes[Top.next]), Top>> \o Tail(stack)
     ELSE WithTop([Top EXCEPT !.pc = "write"])
  /\ UNCHANGED <<project, request, side, programs, program_to_scope, phase, generated_files,
                 written, status>>

\* for (size_t i = 0; i < includes.size(); ++i)
GenerateInclude ==
  /\ At("generate", "includes")
  /\ LET includes == programs[Top.prog].includes IN
     IF Top.next \in DOMAIN includes
     THEN stack' = <<GenerateFrame(includes[Top.next]), [Top EXCEPT !.next = @ + 1]>> \o Tail(stack)
     ELSE WithTop([Top EXCEPT !.pc = "write"])
  /\ UNCHANGED <<project, request, side, programs, program_to_scope, phase, generated_files,
                 written, status>>

\* t_typedef::get_type looks a forward typedef up in the scope of its program,
\* and exits when it is not there.
IsResolved(p) ==
  \A i \in DOMAIN programs[p].defs :
    programs[p].defs[i].kind = "type" =>
      \A q \in DOMAIN programs[p].defs[i].refs :
        programs[p].defs[i].refs[q] # NULL \/ q \in DOMAIN programs[p].scope.types

\* generate_program, for each generator
GenerateProgram ==
  /\ At("generate", "write")
  /\ IF IsResolved(Top.prog)
     THEN /\ written' = Append(written, Path(Top.prog))
          /\ generated_files' = generated_files \cup {Path(Top.prog)}
          /\ Popped
          /\ UNCHANGED <<project, request, side, programs, program_to_scope, phase>>
     ELSE Refused

Next ==
  \/ SkipRecursion \/ ScanIncludes \/ Recurse \/ Overflow \/ SaveScope
  \/ DefineType \/ DefineConst \/ Return \/ ReturnToAudit \/ ReturnToMain
  \/ SkipGenerated \/ Generate \/ GenerateInclude \/ GenerateProgram

Spec == Init /\ [][Next]_vars

\* The compiler is one process that runs until it exits.
FairSpec == Spec /\ WF_vars(Next)

-----------------------------------------------------------------------------
(****************************************************************************)
(* What is on disk, without the compiler: which file includes which, and     *)
(* what a name in a file should denote.  Each file is read once, in an audit *)
(* with -Iold if the old file reaches it that way.                           *)
(****************************************************************************)
IsClosed(includes, S) == \A f \in S : Range(includes[f]) \subseteq S
Reach(includes, S) ==
  LET closed == {T \in SUBSET Files : S \subseteq T /\ IsClosed(includes, T)}
  IN  {f \in Files : \A T \in closed : f \in T}

OldFiles == Reach(project.includes["old"], {project.root["old"]})
Seen ==
  LET old == IF request.audit THEN OldFiles ELSE {}
  IN  [f \in Files |-> project.includes[IF f \in old THEN "old" ELSE "new"][f]]
IncludedBy(f) == Range(Seen[f])
Reached(s) == Reach(Seen, {project.root[s]})

IsCyclic(s) == \E f \in Reached(s) : f \in Reach(Seen, IncludedBy(f))
Cyclic == IsCyclic("new") \/ (request.audit /\ IsCyclic("old"))

\* A name with a prefix denotes a definition of an included file known under it.
Denotes(f, q, g) == IF q[1] = NULL THEN g = f ELSE g \in IncludedBy(f) /\ q[1] = BaseName(g)

Places(kind, f) == {i \in DOMAIN project.defs[f] : project.defs[f][i].kind = kind}
Names(kind, f) == {project.defs[f][i].name : i \in Places(kind, f)}

(****************************************************************************)
(* What is wrong with a file: a type twice, in it or also in a file it       *)
(* includes that has the same namespace; a constant twice, in it or in       *)
(* includes with the same prefix; a name that denotes nothing, for a         *)
(* constant also one that comes too late.                                    *)
(****************************************************************************)
Twice(kind, f) ==
  \E i, j \in Places(kind, f) : i # j /\ project.defs[f][i].name = project.defs[f][j].name

HasTypeTwice(f) ==
  \/ Twice("type", f)
  \/ \E g \in IncludedBy(f) :
       project.namespace[f] = project.namespace[g] /\ Names("type", f) \cap Names("type", g) # {}

HasConstTwice(f) ==
  \/ Twice("const", f)
  \/ \E i, j \in DOMAIN Seen[f] :
       /\ i # j /\ BaseName(Seen[f][i]) = BaseName(Seen[f][j])
       /\ Names("const", Seen[f][i]) \cap Names("const", Seen[f][j]) # {}

HasDanglingName(kind, f) ==
  \E i \in Places(kind, f) : \E q \in project.defs[f][i].refs :
    ~ \E g \in Files : \E j \in Places(kind, g) :
        /\ Denotes(f, q, g) /\ q[2] = project.defs[g][j].name
        /\ kind = "const" /\ g = f => j < i

CannotParse(f) == HasTypeTwice(f) \/ HasConstTwice(f) \/ HasDanglingName("const", f)
Faulty(f) == CannotParse(f) \/ HasDanglingName("type", f)

-----------------------------------------------------------------------------
\* What a name was bound to is a definition of its own file, or of a file that
\* this one includes and that has that base name: not of a file included
\* elsewhere, though scopes are copied and filled in from below (main.cc:913-964,
\* thrifty.yy:489-491).
NamesDenoteIncludes ==
  \A p \in DOMAIN programs : \A i \in DOMAIN programs[p].defs :
    LET defn == programs[p].defs[i] IN
    \A q \in DOMAIN defn.refs :
      defn.refs[q] # NULL =>
        LET o == defn.refs[q] g == Path(o[1]) IN
        /\ Denotes(Path(p), q, g)
        /\ q[1] = NULL => o[1] = p
        /\ project.defs[g][o[2]].name = q[2]

\* However many times a file was included, and although only the first program
\* made for it reads its include directives, the scopes of all of them come to
\* mean the same (main.cc:913-916).
Meaning(names) == [q \in DOMAIN names |-> <<Path(names[q][1]), names[q][2]>>]
CopiesAgree ==
  phase \in {"generate", "compare"} =>
    \A p, q \in DOMAIN programs :
      Path(p) = Path(q) =>
        \A kind \in {"types", "consts"} :
          Meaning(programs[p].scope[kind]) = Meaning(programs[q].scope[kind])

\* The compiler refuses a project only for something wrong with a file of it: that
\* a file is included from several others, and its definitions parsed again for
\* each, is not (main.cc:916, t_scope.h:51, t_program.h:118-125).
FailureHasCause ==
  status = "failure" => \E f \in Reached(side) : Faulty(f)

\* And it takes none with anything wrong in a file it parsed, the dangling types
\* of those it does not generate excepted (t_typedef.cc:24-34).
DoneIsSound ==
  status = "done" /\ ~ request.audit =>
    /\ \A f \in Reached("new") : ~ CannotParse(f)
    /\ \A f \in generated_files : ~ HasDanglingName("type", f)

\* With -r every file that is reached is generated, exactly once, after the files
\* it includes, although a second program of a file has no includes to follow
\* (main.cc:991-1038).
GeneratesAll ==
  /\ status = "done" /\ ~ request.audit =>
       Range(written) = IF request.recurse THEN Reached("new") ELSE {project.root["new"]}
  /\ \A i, j \in DOMAIN written :
       /\ written[i] = written[j] => i = j
       /\ written[j] \in IncludedBy(written[i]) => j < i

\* It runs out of stack only over files that include each other, along the path
\* they are searched with, and not because many paths lead to one file
\* (main.cc:913-916, 949-953).
OnlyCyclesOverflow == status = "overflow" => Cyclic

\* "Port cycle breaking logic for Thrift includes over from Apache Thrift"
\* (CHANGELOG.md:9, version 0.2.11): no project makes parse call itself without end.
\* But program_to_scope, which breaks the recursion, has a file only when its includes
\* are done (main.cc:949-953).
CyclesAreBroken == status # "overflow"

\* Every run of the compiler ends (main.cc:908-985), if only for want of stack.
Terminates == <>(status # "running")

\* Program p's names denote definitions of its own or of files that -Inew finds for it.
FoundWithNew(p) ==
  \A kind \in {"types", "consts"} :
    \A q \in DOMAIN programs[p].scope[kind] :
      LET g == Path(programs[p].scope[kind][q][1]) IN
      IF q[1] = NULL THEN g = Path(p)
      ELSE g \in Range(project.includes["new"][Path(p)]) /\ q[1] = BaseName(g)

\* In an audit the names of the new file and its includes denote files found with
\* -Inew ("directories searched for include directives for new thrift file",
\* main.cc:703-704), also after -Iold was in use (main.cc:1048-1057), unless the old file
\* includes them too: those were scanned with -Iold, once for both (main.cc:913-916).
AuditSearchesNew ==
  \A p \in DOMAIN programs :
    programs[p].side = "new" /\ ~ (request.audit /\ Path(p) \in OldFiles) => FoundWithNew(p)
=============================================================================
