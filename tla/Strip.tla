------------------------------- MODULE Strip -------------------------------
(***************************************************************************)
(* The removal of functions that nobody calls (opt_strip_unreachable in    *)
(* compiler/opt.c), which every compilation runs on the whole program.     *)
(*                                                                         *)
(* A module is the sequence of its functions, each a record [name, refs],  *)
(* where refs are the instructions of its body that mention another        *)
(* function: [op, to], with op one of                                      *)
(*   "call"  a call; to = Nobody when it goes through a pointer            *)
(*   "addr"  IR_ADDROF_FN                                                  *)
(*   "new"   IR_ARENA_ALLOC or IR_NEW of the class `to`                    *)
(*   "asm"   a call or a jump in the text of an asm block                  *)
(* Functions are named by their position, as the spans of the code are.    *)
(***************************************************************************)
EXTENDS Naturals, Sequences

CONSTANTS
    Name,       \* names of functions
    Class,      \* names of classes
    Nobody,     \* no name
    Ctor,       \* the name of each class's constructor, "<class>__ctor"
    Modules     \* the modules the pass may be given: records [funcs, weak]

Ref == [op : {"call", "addr", "asm"}, to : Name \union {Nobody}] \union [op : {"new"}, to : Class]
Func == [name : Name, refs : Seq(Ref)]

ASSUME StripAssumption ==
    /\ Nobody \notin Name
    /\ Ctor \in [Class -> Name]
    /\ Modules \subseteq [funcs : Seq(Func), weak : SUBSET Name]

VARIABLES
    funcs,      \* mod->instrs, function by function
    weak,       \* mod->weak_funcs: names that came from an include
    phase,      \* "begin", "roots", "close", "compact", "done"
    reachable,  \* the spans whose `reachable` is set
    work,       \* the stack of spans that are still to be looked at
    cur, at,    \* the span that is looked at, 0 for none; the position in it
    next,       \* the function that the loop over all functions looks at
    kept        \* what is left of the module

stripVars == <<funcs, weak, phase, reachable, work, cur, at, next, kept>>

Spans == DOMAIN funcs

\* span_find: the first function of that name, 0 if there is none.
Find(name) ==
    IF \E f \in Spans : funcs[f].name = name
    THEN CHOOSE f \in Spans : /\ funcs[f].name = name
                              /\ \A g \in Spans : g < f => funcs[g].name # name
    ELSE 0

IsWeak(f) == funcs[f].name \in weak
Strong == {f \in Spans : ~IsWeak(f)}

\* (Mutant: `new` is not seen as a call of the constructor.)
TargetOfCalls(ref) == IF ref.op \in {"call", "addr"} THEN ref.to ELSE Nobody

\* The function an instruction counts as a use of, Nobody for none.
Target(ref) == CASE ref.op \in {"call", "addr"} -> ref.to
                 [] ref.op = "new" -> Ctor[ref.to]
                 [] OTHER -> Nobody

Callee(f, i) == Find(Target(funcs[f].refs[i]))

-----------------------------------------------------------------------------
StripInit ==
    /\ \E m \in Modules : funcs = m.funcs /\ weak = m.weak
    /\ phase = "begin"
    /\ reachable = {}
    /\ work = <<>>
    /\ cur = 0 /\ at = 0
    /\ next = 1
    /\ kept = <<>>

\* Without an include, or without functions, the module stays as it is.
NothingToDo ==
    /\ phase = "begin"
    /\ weak = {} \/ funcs = <<>>
    /\ phase' = "done"
    /\ kept' = [f \in Spans |-> f]
    /\ UNCHANGED <<funcs, weak, reachable, work, cur, at, next>>

Begin ==
    /\ phase = "begin"
    /\ weak # {} /\ funcs # <<>>
    /\ phase' = "roots"
    /\ UNCHANGED <<funcs, weak, reachable, work, cur, at, next, kept>>

\* (Mutant: what came from an include is a root as well.)
RootAny ==
    /\ phase = "roots" /\ next <= Len(funcs)
    /\ reachable' = reachable \union {next}
    /\ work' = Append(work, next)
    /\ next' = next + 1
    /\ UNCHANGED <<funcs, weak, phase, cur, at, kept>>

\* Everything the user wrote is a root.
Root ==
    /\ phase = "roots" /\ next <= Len(funcs)
    /\ IF IsWeak(next)
       THEN UNCHANGED <<reachable, work>>
       ELSE /\ reachable' = reachable \union {next}
            /\ work' = Append(work, next)
    /\ next' = next + 1
    /\ UNCHANGED <<funcs, weak, phase, cur, at, kept>>

RootsDone ==
    /\ phase = "roots" /\ next > Len(funcs)
    /\ phase' = "close"
    /\ next' = 1
    /\ UNCHANGED <<funcs, weak, reachable, work, cur, at, kept>>

\* Take the span on top of the stack.
Take ==
    /\ phase = "close" /\ cur = 0 /\ work # <<>>
    /\ cur' = work[Len(work)]
    /\ at' = 1
    /\ work' = SubSeq(work, 1, Len(work) - 1)
    /\ UNCHANGED <<funcs, weak, phase, reachable, next, kept>>

Looking == phase = "close" /\ cur # 0

\* (Mutant: a function is pushed for every call of it.)
VisitAgain ==
    /\ Looking /\ at <= Len(funcs[cur].refs)
    /\ at' = at + 1
    /\ LET callee == Callee(cur, at) IN
       IF callee = 0
       THEN UNCHANGED <<reachable, work>>
       ELSE /\ reachable' = reachable \union {callee}
            /\ work' = Append(work, callee)
    /\ UNCHANGED <<funcs, weak, phase, cur, next, kept>>

\* The next instruction of it that mentions a function.
Visit ==
    /\ Looking /\ at <= Len(funcs[cur].refs)
    /\ at' = at + 1
    /\ LET callee == Callee(cur, at) IN
       IF callee = 0 \/ callee \in reachable
       THEN UNCHANGED <<reachable, work>>
       ELSE /\ reachable' = reachable \union {callee}
            /\ work' = Append(work, callee)
    /\ UNCHANGED <<funcs, weak, phase, cur, next, kept>>

\* (Mutant: the scan of a function starts again at its end.)
LeaveNever ==
    /\ Looking /\ at > Len(funcs[cur].refs)
    /\ cur' = cur /\ at' = 1
    /\ UNCHANGED <<funcs, weak, phase, reachable, work, next, kept>>

Leave ==
    /\ Looking /\ at > Len(funcs[cur].refs)
    /\ cur' = 0 /\ at' = 0
    /\ UNCHANGED <<funcs, weak, phase, reachable, work, next, kept>>

Closed ==
    /\ phase = "close" /\ cur = 0 /\ work = <<>>
    /\ phase' = "compact"
    /\ UNCHANGED <<funcs, weak, reachable, work, cur, at, next, kept>>

Dropped(f) == IsWeak(f) /\ f \notin reachable

\* Move the next function up, or leave it out.
Compact ==
    /\ phase = "compact" /\ next <= Len(funcs)
    /\ kept' = IF Dropped(next) THEN kept ELSE Append(kept, next)
    /\ next' = next + 1
    /\ UNCHANGED <<funcs, weak, phase, reachable, work, cur, at>>

Finish ==
    /\ phase = "compact" /\ next > Len(funcs)
    /\ phase' = "done"
    /\ UNCHANGED <<funcs, weak, reachable, work, cur, at, next, kept>>

StripNext ==
    \/ NothingToDo \/ Begin
    \/ Root \/ RootsDone
    \/ Take \/ Visit \/ Leave \/ Closed
    \/ Compact \/ Finish

\* The pass is a loop: nothing holds it up.
StripSpec == StripInit /\ [][StripNext]_stripVars /\ WF_stripVars(StripNext)

-----------------------------------------------------------------------------
(* Properties.                                                             *)

Kept == {kept[k] : k \in DOMAIN kept}

TypeOK ==
    /\ funcs \in Seq(Func) /\ weak \subseteq Name
    /\ phase \in {"begin", "roots", "close", "compact", "done"}
    /\ reachable \subseteq Spans
    /\ work \in Seq(Spans)
    /\ cur \in Spans \union {0}
    /\ at \in Nat
    /\ next \in 1..(Len(funcs) + 1)
    /\ kept \in Seq(Spans)
    /\ cur # 0 => phase = "close" /\ at \in 1..(Len(funcs[cur].refs) + 1)

\* The name that the code made from an instruction refers to (what
\* ir_to_mir.c emits for it, the constructor that follows a `new` included).
Refers(ref) == IF ref.op = "new" THEN Ctor[ref.to] ELSE ref.to

\* `set` holds, with a function, every function of the module that its code
\* refers to; asm blocks are left aside.
ClosedUnderUse(set) ==
    \A f \in set : \A i \in DOMAIN funcs[f].refs :
        LET ref == funcs[f].refs[i] IN
        ref.op # "asm" => Find(Refers(ref)) \in set \union {0}

\* What is kept links: a function of the module that kept code refers to is
\* kept as well.  (The comment at opt.c:647 tells of the time when it was
\* not: "the program fails to link with undefined reference to Foo__ctor".)
NoDangling == phase = "done" => ClosedUnderUse(Kept)

\* Nothing else is kept: what remains is in every set that holds the user's
\* functions and all they lead to.  (The least such set is what "reachable
\* by any chain of calls" means, opt.h:32.)
NoneTooMany ==
    phase = "done" /\ weak # {} =>
        \A set \in SUBSET Spans : Strong \subseteq set /\ ClosedUnderUse(set) => Kept \subseteq set

\* The array behind the stack has one entry per function and is never
\* overrun (opt.c:622), nor is a function looked at twice: what waits, each
\* once, and what is being looked at are different functions.
WorkFits ==
    /\ Len(work) <= Len(funcs)
    /\ \A i \in DOMAIN work : work[i] # cur /\ \A j \in DOMAIN work : work[i] = work[j] => i = j

\* The closure ends, also on recursive functions.
StripEnds == <>(phase = "done")
=============================================================================
