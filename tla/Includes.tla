----------------------------- MODULE Includes ------------------------------
(***************************************************************************)
(* Putting a program together from the files it includes (compile_file and *)
(* merge_programs in compiler/compiler.c, loader_resolve_include in        *)
(* compiler/loader.c).                                                     *)
(*                                                                         *)
(* A project is a record                                                   *)
(*   [start : the path given to the compiler,                              *)
(*    at : for each path the file that is found there, NoFile for none,    *)
(*    includes : for each file the sequence of its include lines,          *)
(*    broken : the files that do not parse].                               *)
(* An include line is given with the paths it is looked for at:            *)
(*   [kind : "skip", "std", "vendor" or "file",                            *)
(*    hyi, hy : sequences of candidate paths, in order of preference].     *)
(* A "file" has one at least, the name itself.                             *)
(* The candidates of a "file" depend on the directory of the includer      *)
(* alone, which all spellings of one path share.                           *)
(***************************************************************************)
EXTENDS Naturals, Sequences, FiniteSets

CONSTANTS
    Path,
    File,
    NoFile,
    Projects,
    MaxVisited      \* MAX_VISITED

Include == {line \in [kind : {"skip", "std", "vendor", "file"}, hyi : Seq(Path), hy : Seq(Path)] :
               line.kind = "file" => line.hy # <<>>}
Project == [start : Path, at : [Path -> File \union {NoFile}],
            includes : [File -> Seq(Include)], broken : SUBSET File]

\* No path.
None == "none"

\* What include lines name as interfaces is read line by line, which nothing
\* can be wrong with, and without a look at what it may include
\* (parse_hyi_into_program).
PlainInterfaces(p) ==
    \A f \in File : \A k \in DOMAIN p.includes[f] : \A c \in DOMAIN p.includes[f][k].hyi :
        LET file == p.at[p.includes[f][k].hyi[c]] IN
        file # NoFile => file \notin p.broken /\ p.includes[file] = <<>>

\* More files than that are loaded again wherever they are included.
ASSUME IncludesAssumption ==
    /\ NoFile \notin File
    /\ None \notin Path
    /\ IsFiniteSet(Path)
    /\ MaxVisited \in Nat
    /\ Cardinality(Path) <= MaxVisited
    /\ Projects \subseteq Project
    /\ \A p \in Projects : PlainInterfaces(p)

VARIABLES
    project,
    visited,    \* the paths that were loaded, or tried
    stack,      \* the calls of compile_file: [path, todo, decls]
    calling,    \* the path that compile_file is called with next, or None
    loaded,     \* whether compile_file has returned to main
    program     \* the declarations it returned, none when it failed

includesVars == <<project, visited, stack, calling, loaded, program>>

\* The declarations of a file, as one: which path they were read from, and
\* whether they are marked as from_include.
Decl == [path : Path, included : BOOLEAN]

\* first_existing.
FirstExisting(candidates) ==
    LET found == {i \in DOMAIN candidates : project.at[candidates[i]] # NoFile} IN
    IF found = {} THEN None
    ELSE candidates[CHOOSE i \in found : \A j \in found : i <= j]

\* mark_visited and already_visited, which is asked only of paths that were
\* found.
Mark(paths) == IF Cardinality(visited) < MaxVisited THEN visited \union paths ELSE visited
Unseen(path) == path # None /\ path \notin visited

\* merge_programs.
Merged(decls, dep) == decls \o [i \in DOMAIN dep |-> [dep[i] EXCEPT !.included = TRUE]]

Top == stack[Len(stack)]
Under == SubSeq(stack, 1, Len(stack) - 1)

-----------------------------------------------------------------------------
IncludesInit ==
    /\ project \in Projects
    /\ visited = {}
    /\ stack = <<>>
    /\ calling = project.start
    /\ loaded = FALSE
    /\ program = <<>>

\* compile_file returns at once: the path is known, nothing can be read
\* there, or what is there does not parse.  The includer goes on without it;
\* the loading as a whole fails only when that was the file it was given.  (A
\* syntax error is counted, too, and main gives up on the program once all is
\* loaded, compiler.c:279.  One that the parser recovers from does not even
\* refuse the file, whose declarations are merged before main gives up: such
\* files are not modelled, since nothing comes of them either.)
Refuse ==
    /\ calling # None
    /\ \/ calling \in visited
       \/ project.at[calling] \in project.broken \union {NoFile}
    /\ visited' = Mark({calling})
    /\ calling' = None
    /\ loaded' = (stack = <<>>)
    /\ UNCHANGED <<project, stack, program>>

\* (Mutant: the file is marked only once it is done.)
ParseUnmarked ==
    /\ calling # None
    /\ calling \notin visited
    /\ project.at[calling] \notin project.broken \union {NoFile}
    /\ stack' = Append(stack, [path |-> calling,
                               todo |-> project.includes[project.at[calling]],
                               decls |-> <<[path |-> calling, included |-> FALSE]>>])
    /\ calling' = None
    /\ UNCHANGED <<project, visited, loaded, program>>

\* It parses the file and starts with a snapshot of its includes.
Parse ==
    /\ calling # None
    /\ calling \notin visited
    /\ project.at[calling] \notin project.broken \union {NoFile}
    /\ visited' = Mark({calling})
    /\ stack' = Append(stack, [path |-> calling,
                               todo |-> project.includes[project.at[calling]],
                               decls |-> <<[path |-> calling, included |-> FALSE]>>])
    /\ calling' = None
    /\ UNCHANGED <<project, loaded, program>>

Walking == calling = None /\ stack # <<>> /\ Top.todo # <<>>

\* The top call has dealt with its next include, which brought `dep`.
Advance(dep) ==
    stack' = Append(Under, [Top EXCEPT !.todo = Tail(Top.todo), !.decls = Merged(Top.decls, dep)])

Stub(path) == <<[path |-> path, included |-> FALSE]>>

Skip ==
    /\ Walking
    /\ Head(Top.todo).kind = "skip"
    /\ Advance(<<>>)
    /\ UNCHANGED <<project, visited, calling, loaded, program>>

\* (Mutant: a module that has an interface has no source.)
IncludeStdInterface ==
    /\ Walking
    /\ Head(Top.todo).kind = "std"
    /\ LET hyi == FirstExisting(Head(Top.todo).hyi)
           hy == FirstExisting(Head(Top.todo).hy)
           new == IF Unseen(hyi) THEN {hyi} ELSE {}
       IN  /\ Advance(IF new # {} THEN Stub(hyi) ELSE <<>>)
           /\ visited' = Mark(new)
           /\ calling' = IF hyi = None /\ Unseen(hy) THEN hy ELSE None
    /\ UNCHANGED <<project, loaded, program>>

\* A std module: its interface, once, and the Hylian source next to it.
IncludeStd ==
    /\ Walking
    /\ Head(Top.todo).kind = "std"
    /\ LET hyi == FirstExisting(Head(Top.todo).hyi)
           hy == FirstExisting(Head(Top.todo).hy)
           new == IF Unseen(hyi) THEN {hyi} ELSE {}
       IN  /\ Advance(IF new # {} THEN Stub(hyi) ELSE <<>>)
           /\ visited' = Mark(new)
           /\ calling' = IF Unseen(hy) THEN hy ELSE None
    /\ UNCHANGED <<project, loaded, program>>

\* A vendor's interface, once.
IncludeVendor ==
    /\ Walking
    /\ Head(Top.todo).kind = "vendor"
    /\ LET hyi == FirstExisting(Head(Top.todo).hyi)
           new == IF Unseen(hyi) THEN {hyi} ELSE {}
       IN  /\ Advance(IF new # {} THEN Stub(hyi) ELSE <<>>)
           /\ visited' = Mark(new)
    /\ UNCHANGED <<project, calling, loaded, program>>

\* (Mutant: there is no such place, and the program does not survive it.)
IncludeFileFound ==
    /\ Walking
    /\ Head(Top.todo).kind = "file"
    /\ calling' = FirstExisting(Head(Top.todo).hy)
    /\ calling' # None
    /\ Advance(<<>>)
    /\ UNCHANGED <<project, visited, loaded, program>>

\* A module of the project; if it is nowhere, compile_file is called with the
\* first place and complains about that.
IncludeFile ==
    /\ Walking
    /\ Head(Top.todo).kind = "file"
    /\ LET hy == FirstExisting(Head(Top.todo).hy) IN
       calling' = IF hy # None THEN hy ELSE Head(Head(Top.todo).hy)
    /\ Advance(<<>>)
    /\ UNCHANGED <<project, visited, loaded, program>>

\* compile_file returns what it has put together.
Return ==
    /\ calling = None /\ stack # <<>> /\ Top.todo = <<>>
    /\ IF Len(stack) = 1
       THEN /\ loaded' = TRUE
            /\ program' = Top.decls
            /\ stack' = <<>>
       ELSE /\ LET includer == Under[Len(Under)] IN
               stack' = [Under EXCEPT ![Len(Under)] =
                            [includer EXCEPT !.decls = Merged(includer.decls, Top.decls)]]
            /\ UNCHANGED <<loaded, program>>
    /\ UNCHANGED <<project, visited, calling>>

IncludesNext ==
    \/ Refuse \/ Parse
    \/ Skip \/ IncludeStd \/ IncludeVendor \/ IncludeFile
    \/ Return

IncludesSpec == IncludesInit /\ [][IncludesNext]_includesVars /\ WF_includesVars(IncludesNext)

-----------------------------------------------------------------------------
(* Properties.                                                             *)

\* The types of what the loader keeps.
IncludesTypeOK ==
    /\ project \in Project
    /\ visited \subseteq Path
    /\ stack \in Seq([path : Path, todo : Seq(Include), decls : Seq(Decl)])
    /\ calling \in Path \union {None}
    /\ loaded \in BOOLEAN
    /\ program \in Seq(Decl)

\* Where an include line leads to.
Places(line) == CASE line.kind = "std" -> {FirstExisting(line.hyi), FirstExisting(line.hy)}
                  [] line.kind = "vendor" -> {FirstExisting(line.hyi)}
                  [] line.kind = "file" -> {FirstExisting(line.hy)}
                  [] OTHER -> {}

\* The files that a path leads to, directly.
LeadsTo(path) ==
    IF project.at[path] \in project.broken \union {NoFile} THEN {}
    ELSE LET lines == project.includes[project.at[path]]
         IN  (UNION {Places(lines[i]) : i \in DOMAIN lines}) \ {None}

ClosedUnderIncludes(paths) == \A p \in paths : LeadsTo(p) \subseteq paths

\* The program holds every file that the one it was given leads to, and no
\* other, with cycles and diamonds among the includes as they may be.
AllAndOnly ==
    loaded /\ program # <<>> =>
        LET paths == {program[i].path : i \in DOMAIN program} IN
        /\ \A p \in Path : p \in paths => project.at[p] \notin project.broken \union {NoFile}
        /\ \A p \in paths : \A q \in LeadsTo(p) : q \in paths \/ project.at[q] \in project.broken
        /\ \A set \in SUBSET Path :
               project.start \in set /\ ClosedUnderIncludes(set) => paths \subseteq set

\* No path is loaded twice, and what is under way is not started again.
Once ==
    /\ \A i, j \in DOMAIN stack : stack[i].path = stack[j].path => i = j
    /\ loaded => \A i, j \in DOMAIN program : program[i].path = program[j].path => i = j

\* A program is put together in the end, whatever includes what.
LoadEnds == <>loaded
=============================================================================
