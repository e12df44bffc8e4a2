------------------------------ MODULE Frontend -----------------------------
(***************************************************************************)
(* From the file given to the compiler to what is left of its functions:   *)
(* compile_file, lower_program and opt_strip_unreachable in a row (main in *)
(* compiler/compiler.c, opt_run_all).  What the lowering notes of a        *)
(* function that came from an include is its name.                         *)
(***************************************************************************)
EXTENDS Includes, Strip, SequencesExt

CONSTANT Functions      \* for each file the functions with a body in it

ASSUME FrontendAssumption == Functions \in [File -> Seq(Func)]

frontendVars == <<includesVars, stripVars>>

\* Errors of files that did not parse are counted; main gives up on them.
Errors == \E p \in visited : project.at[p] \in project.broken

FunctionsOf(decl) == Functions[project.at[decl.path]]

-----------------------------------------------------------------------------
Init ==
    /\ IncludesInit
    /\ phase = "idle"
    /\ funcs = <<>> /\ weak = {}
    /\ reachable = {} /\ work = <<>> /\ cur = 0 /\ at = 0 /\ next = 1 /\ kept = <<>>

Load == IncludesNext /\ UNCHANGED stripVars

\* (Mutant: every function is noted.)
LowerAll ==
    /\ loaded /\ program # <<>> /\ ~Errors /\ phase = "idle"
    /\ funcs' = FlattenSeq([i \in DOMAIN program |-> FunctionsOf(program[i])])
    /\ weak' = {funcs'[f].name : f \in DOMAIN funcs'}
    /\ phase' = "begin"
    /\ UNCHANGED <<includesVars, reachable, work, cur, at, next, kept>>

\* lower_program: declaration by declaration, the functions of included ones
\* marked weak.
Lower ==
    /\ loaded /\ program # <<>> /\ ~Errors /\ phase = "idle"
    /\ funcs' = FlattenSeq([i \in DOMAIN program |-> FunctionsOf(program[i])])
    /\ weak' = UNION {{f.name : f \in ToSet(FunctionsOf(program[i]))} :
                          i \in {j \in DOMAIN program : program[j].included}}
    /\ phase' = "begin"
    /\ UNCHANGED <<includesVars, reachable, work, cur, at, next, kept>>

Prune == StripNext /\ UNCHANGED includesVars

Next == Load \/ Lower \/ Prune

\* The compiler goes on as long as there is something to do.
Spec == Init /\ [][Next]_frontendVars /\ WF_frontendVars(Next)

-----------------------------------------------------------------------------
(* Properties.                                                             *)

\* Nothing that the user wrote is removed, called or not: only "functions
\* from includes" are (opt.h:41).  The file given to the compiler is the
\* first declaration of the program.
UserCodeStays ==
    phase = "done" => 1..Len(Functions[project.at[project.start]]) \subseteq Kept

\* All that the pruned program refers to and some file defines is in it,
\* whichever file that is.
ProgramLinks ==
    phase = "done" =>
        \A f \in Kept : \A i \in DOMAIN funcs[f].refs :
            LET name == Refers(funcs[f].refs[i]) IN
            (\E p \in visited : /\ project.at[p] # NoFile
                               /\ \E g \in ToSet(Functions[project.at[p]]) : g.name = name) =>
                \E g \in Kept : funcs[g].name = name
=============================================================================
