------------------------------ MODULE Schedule ------------------------------
(***************************************************************************)
(* The order in which hyopt_module and hyopt_func (libhyopt/src/hyopt.c)   *)
(* do their work, whatever the passes do: the call graph is searched depth *)
(* first (cg_visit), which yields the functions, callees first; then each  *)
(* function has the calls of finished ones expanded, goes through the      *)
(* passes, most of them followed by the rounds of scalar_fixpoint, and may *)
(* be expanded into itself and optimized again.                            *)
(*                                                                         *)
(* A function is a record with a field `code`, a sequence of instructions  *)
(* with at least the fields `op` and `callee`.                             *)
(***************************************************************************)
EXTENDS Naturals, Sequences

CONSTANTS
    Programs,           \* the programs: records with `names`, the names of the functions in order
    SwitchedOff,        \* the sets of passes that may be switched off (HYLIAN_OPT_OFF)
    Lowered(_),         \* the module a program is lowered to
    Pass(_, _, _),      \* Pass(p, fn, off): the code of fn after the pass p, when off are switched off
    Inlined(_, _, _),   \* Inlined(m, f, S): the code of f with its calls of functions in S expanded
    Info(_)             \* what inline_into asks of a function (fn_info): its size, whether it can be inlined

ASSUME ScheduleAssumption ==
    \A p \in Programs :
        /\ p.names \in Seq(DOMAIN Lowered(p))
        /\ \A f \in DOMAIN Lowered(p) : \E i \in DOMAIN p.names : p.names[i] = f
        /\ \A i, j \in DOMAIN p.names : p.names[i] = p.names[j] => i = j
        /\ \A f \in DOMAIN Lowered(p) : Len(Lowered(p)[f].code) \in Nat

VARIABLES
    program,    \* the program compiled
    passOff,    \* the passes switched off (pass_off)
    phase,      \* "lower", "order", "optimize"
    mod,        \* the module: the functions as they are now
    visits,     \* the calls of cg_visit under way: function and position, the last one on top
    order,      \* the functions in the order they are left (order); the end of the search
    recursive,  \* functions with a call that closes a cycle (FnInfo.recursive)
    done,       \* how many functions of `order` are finished (k)
    info,       \* of the functions that have been optimized, what fn_info found (info)
    stage,      \* the next pass of hyopt_func
    round,      \* how often the current function was expanded into itself
    scalar,     \* the next pass of scalar_fixpoint, 0 outside of it
    iter,       \* its iteration
    dirty       \* whether one of its passes has changed something (ch)

searchVars == <<visits, recursive>>
passVars == <<stage, round, scalar, iter, dirty>>
vars == <<program, passOff, phase, mod, visits, order, recursive, done, info, passVars>>

\* hyopt_func: the passes that are made once.
Once == <<"cfg", "mem2reg", "ifcvt", "loops", "arrlen", "bce", "licm", "sr", "ret">>
\* scalar_fixpoint.
Repeated == <<"global_prop", "copyprop", "local", "addr", "gcse", "cfg", "fold_movs", "dce">>

Init ==
    /\ program \in Programs
    /\ passOff \in SwitchedOff
    /\ phase = "lower"
    /\ mod = <<>> /\ visits = <<>> /\ order = <<>> /\ recursive = {} /\ done = 0 /\ info = <<>>
    /\ stage = 0 /\ round = 0 /\ scalar = 0 /\ iter = 0 /\ dirty = FALSE

\* The lowering.  Without inlining the functions are taken as they come.
LowerProgram ==
    /\ phase = "lower"
    /\ mod' = Lowered(program)
    /\ IF "inline" \in passOff
       THEN phase' = "optimize" /\ order' = program.names
       ELSE phase' = "order" /\ order' = <<>>
    /\ UNCHANGED <<program, passOff, searchVars, done, info, passVars>>

-----------------------------------------------------------------------------
(* The search.  A function is open (color 1) while its visit is under way, *)
(* closed (2) when it is in `order`.                                       *)

Open == {visits[k].f : k \in DOMAIN visits}
Closed == {order[k] : k \in DOMAIN order}
Top == visits[Len(visits)]

\* Whether the i-th instruction of f calls a function of the module.
IsCall(m, f, i) == m[f].code[i].op = "call" /\ m[f].code[i].callee \in DOMAIN m

VisitRoot ==
    /\ phase = "order" /\ visits = <<>>
    /\ \E k \in DOMAIN program.names :
          /\ program.names[k] \notin Closed
          /\ \A j \in 1 .. k - 1 : program.names[j] \in Closed
          /\ visits' = <<[f |-> program.names[k], at |-> 0]>>
    /\ UNCHANGED <<program, passOff, phase, mod, order, recursive, done, info, passVars>>

\* The next call in the function on top.
IsNextCall(i) ==
    /\ i \in Top.at + 1 .. Len(mod[Top.f].code)
    /\ IsCall(mod, Top.f, i)
    /\ \A j \in Top.at + 1 .. i - 1 : ~IsCall(mod, Top.f, j)

\* (Mutant: what is called is not visited first.)
FollowNoCall ==
    /\ phase = "order" /\ visits # <<>>
    /\ \E i \in 1 .. Len(mod[Top.f].code) :
          /\ IsNextCall(i)
          /\ \E g \in {mod[Top.f].code[i].callee} :
                /\ visits' = [visits EXCEPT ![Len(visits)].at = i]
                /\ recursive' = IF g \in Open THEN recursive \union {g, Top.f} ELSE recursive
    /\ UNCHANGED <<program, passOff, phase, mod, order, done, info, passVars>>

\* A call of an open function closes a cycle; one of a function that has not been
\* seen is followed.
FollowCall ==
    /\ phase = "order" /\ visits # <<>>
    /\ \E i \in 1 .. Len(mod[Top.f].code) :
          /\ IsNextCall(i)
          /\ \E g \in {mod[Top.f].code[i].callee} :
                LET moved == [visits EXCEPT ![Len(visits)].at = i]
                IN  /\ visits' = IF g \in Open \union Closed THEN moved ELSE Append(moved, [f |-> g, at |-> 0])
                    /\ recursive' = IF g \in Open THEN recursive \union {g, Top.f} ELSE recursive
    /\ UNCHANGED <<program, passOff, phase, mod, order, done, info, passVars>>

LeaveFunction ==
    /\ phase = "order" /\ visits # <<>>
    /\ \A i \in Top.at + 1 .. Len(mod[Top.f].code) : ~IsCall(mod, Top.f, i)
    /\ order' = Append(order, Top.f)
    /\ visits' = SubSeq(visits, 1, Len(visits) - 1)
    /\ UNCHANGED <<program, passOff, phase, mod, recursive, done, info, passVars>>

SearchDone ==
    /\ phase = "order" /\ visits = <<>>
    /\ \A k \in DOMAIN program.names : program.names[k] \in Closed
    /\ phase' = "optimize"
    /\ UNCHANGED <<program, passOff, mod, searchVars, order, done, info, passVars>>

-----------------------------------------------------------------------------
(* The passes over the current function.                                   *)

Working == phase = "optimize" /\ done < Len(order)
F == order[done + 1]

Expandable == {g \in DOMAIN info : info[g].canInline /\ g \notin recursive}

\* inline_into, before the passes.
InlineCalls ==
    /\ Working /\ stage = 0
    /\ mod' = [mod EXCEPT ![F].code = IF "inline" \in passOff THEN @ ELSE Inlined(mod, F, Expandable)]
    /\ stage' = 1
    /\ UNCHANGED <<program, passOff, phase, searchVars, order, done, info, round, scalar, iter, dirty>>

\* A pass of hyopt_func; most are followed by scalar_fixpoint when they did
\* something.
OncePass ==
    /\ Working /\ stage \in DOMAIN Once /\ scalar = 0
    /\ mod' = [mod EXCEPT ![F].code = Pass(Once[stage], mod[F], passOff)]
    /\ stage' = stage + 1
    /\ scalar' = IF Once[stage] = "mem2reg" \/ (Once[stage] \notin {"cfg", "ret"} /\ mod' # mod) THEN 1 ELSE 0
    /\ iter' = 1
    /\ dirty' = FALSE
    /\ UNCHANGED <<program, passOff, phase, searchVars, order, done, info, round>>

\* A pass of scalar_fixpoint.  (dce does not report a result it dropped.)
ScalarPass ==
    /\ Working /\ scalar # 0
    /\ mod' = [mod EXCEPT ![F].code = Pass(Repeated[scalar], mod[F], passOff)]
    /\ LET changed == IF Repeated[scalar] = "dce" THEN Len(mod'[F].code) # Len(mod[F].code) ELSE mod' # mod
           repeat == scalar = Len(Repeated) /\ (dirty \/ changed) /\ iter < 8
       IN  /\ scalar' = IF scalar < Len(Repeated) THEN scalar + 1 ELSE IF repeat THEN 1 ELSE 0
           /\ iter' = IF repeat THEN iter + 1 ELSE iter
           /\ dirty' = ((dirty \/ changed) /\ scalar < Len(Repeated))
    /\ UNCHANGED <<program, passOff, phase, searchVars, order, done, info, stage, round>>

\* hyopt_func is through with the function, which is then looked at.
Optimized == Working /\ stage = Len(Once) + 1 /\ scalar = 0

\* (Mutant: what is known of a function is not brought up to date when it has
\* been expanded into itself.)
RecordedOnce == [g \in DOMAIN info \union {F} |-> IF g \in DOMAIN info THEN info[g] ELSE Info(mod[F])]
Recorded == [g \in DOMAIN info \union {F} |-> IF g = F THEN Info(mod[F]) ELSE info[g]]

CallsItself == \E i \in DOMAIN mod[F].code : mod[F].code[i].op = "call" /\ mod[F].code[i].callee = F
SelfInlines ==
    /\ F \in recursive /\ {"inline", "selfinline"} \cap passOff = {}
    /\ round < 2
    /\ IF round = 0 THEN Info(mod[F]).canInline ELSE Info(mod[F]).size <= 40
    /\ CallsItself

\* The function is optimized again when a call was expanded.
SelfInline ==
    /\ Optimized /\ SelfInlines
    /\ info' = Recorded
    /\ mod' = [mod EXCEPT ![F].code =
                  Inlined(mod, F, Expandable \union {g \in {F} : Info(mod[F]).canInline})]
    /\ round' = round + 1
    /\ stage' = IF mod' = mod THEN stage ELSE 1
    /\ UNCHANGED <<program, passOff, phase, searchVars, order, done, scalar, iter, dirty>>

NextFunction ==
    /\ Optimized /\ ~SelfInlines
    /\ info' = IF "inline" \in passOff THEN info ELSE Recorded
    /\ done' = done + 1
    /\ stage' = 0
    /\ round' = 0
    /\ UNCHANGED <<program, passOff, phase, mod, searchVars, order, scalar, iter, dirty>>

Next ==
    \/ LowerProgram
    \/ VisitRoot \/ FollowCall \/ LeaveFunction \/ SearchDone
    \/ InlineCalls \/ OncePass \/ ScalarPass \/ SelfInline \/ NextFunction
Spec == Init /\ [][Next]_vars

-----------------------------------------------------------------------------
(* Properties.                                                             *)

\* Callees come before their callers: a call of a function that is still to be
\* optimized, or of the caller itself, is one that closes a cycle, and both of
\* its ends are known to be recursive, so that neither is expanded where its code
\* is not final.  (The comment at hyopt.c:3723 promises "callees before callers,
\* cycle members flagged": of the members of a cycle only the two ends of the
\* call that closes it are flagged, not those between them, which is all that
\* this property asks for.)
CalleesFirst ==
    phase = "optimize" /\ "inline" \notin passOff =>
        \A m \in {Lowered(program)} : \A k, l \in DOMAIN order :
            k <= l /\ (\E i \in 1 .. Len(m[order[k]].code) :
                          IsCall(m, order[k], i) /\ m[order[k]].code[i].callee = order[l])
            => {order[k], order[l]} \subseteq recursive

\* What inline_into is told of a finished function is true of its code as it is
\* now, also when it was changed after it was first looked at.
InfoIsCurrent ==
    "inline" \notin passOff =>
        \A k \in 1 .. done : order[k] \in DOMAIN info /\ info[order[k]] = Info(mod[order[k]])
=============================================================================
