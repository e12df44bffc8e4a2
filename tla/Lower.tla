------------------------------- MODULE Lower -------------------------------
(***************************************************************************)
(* From the statements of a function to machine IR: lower.c, which knows   *)
(* conditions, loops, break, continue, return and defer, and ir_to_mir.c,  *)
(* which turns each IR instruction into the same one of Mir and expands    *)
(* the array accesses.  Below them, what those statements mean (docs/      *)
(* language/syntax.md), as a reference to compare the code with.           *)
(*                                                                         *)
(* An expression is a record with a field e, a statement one with a field  *)
(* s; a variable is the number of its slot, the parameters first.  A       *)
(* function is [params, locals, body], its body a sequence of statements.  *)
(***************************************************************************)
EXTENDS Mir

CONSTANTS
    MaxDefers,      \* length of LowerState.defers (32 in the code)
    MaxLoopDepth    \* MAX_LOOP_DEPTH (32 in the code)

-----------------------------------------------------------------------------
(* LowerState: the code so far, the next temporary, label and local, the   *)
(* operand of the last expression, the targets of break and continue of    *)
(* the loops around, the defers of the function with the slots of their    *)
(* flags, and whether deferred code is being emitted.                      *)

Emit(st, ins) == [st EXCEPT !.code = Append(@, ins)]
EmitValue(st, ins) ==
    [Emit(st, [ins EXCEPT !.dest = V(st.temp)]) EXCEPT !.val = V(st.temp), !.temp = @ + 1]
Store(st, x, v) == Emit(st, Instr("store", Slot(x), v, None))
Load(st, x) == EmitValue(st, Instr("load", None, Slot(x), None))
\* What is done with the operand of the last expression.
StoreValue(st, x) == Store(st, x, st.val)
EmitIf(op, st, l) == Emit(st, Branch(op, st.val, l))

\* The guarded access to element idx of arr: res stays what it is when idx is
\* out of bounds.
Guarded(st, arr, idx, access(_)) ==
    LET t == st.temp
        guard == <<Instr("arr_len", V(t), arr, None), Instr("ult", V(t + 1), idx, V(t)),
                   Branch("jmp_unless", V(t + 1), st.label), Instr("arr_data", V(t + 2), arr, None),
                   [access(V(t + 2)) EXCEPT !.src2 = idx, !.scale = 8, !.cls = "elem"], Label(st.label)>>
    IN  [st EXCEPT !.code = @ \o guard, !.temp = t + 3, !.label = @ + 1]

\* IR_ARRAY_LOAD and IR_ARRAY_STORE.
ArrayLoad(st, arr, idx) ==
    LET res == V(st.temp)
    IN  [Guarded(EmitValue(st, Mov(None, C(0))), arr, idx, LAMBDA data : Instr("load", res, data, None))
            EXCEPT !.val = res]
ArrayStore(st, arr, idx, v) == Guarded(st, arr, idx, LAMBDA data : Instr("store", data, v, None))

\* A value that comes by two ways, through a local of its own.
Merged(st, Ways(_, _, _, _)) ==
    LET end == st.label + 1
        both == Ways(st.local, st.label, end, [st EXCEPT !.label = @ + 2, !.local = @ + 1])
    IN  Load(Emit(both, Label(end)), st.local)

RECURSIVE LowerExpr(_, _)
RECURSIVE LowerArgs(_, _, _)

\* lower_expr.  A field is a word at an offset of an object.
LowerExpr(st, x) ==
    CASE x.e = "const" -> EmitValue(st, Mov(None, C(x.n)))
      [] x.e = "var" -> Load(st, x.x)
      [] x.e = "bin" -> Given(LowerExpr(st, x.l), LAMBDA l :
                            Given(LowerExpr(l, x.r), LAMBDA r : EmitValue(r, Instr(x.op, None, l.val, r.val))))
      [] x.e = "len" -> Given(LowerExpr(st, x.a), LAMBDA a : EmitValue(a, Instr("arr_len", None, a.val, None)))
      [] x.e = "index" -> Given(LowerExpr(st, x.a), LAMBDA a :
                              Given(LowerExpr(a, x.i), LAMBDA i : ArrayLoad(i, a.val, i.val)))
      [] x.e = "field" -> Given(LowerExpr(st, x.p), LAMBDA p :
                              EmitValue(p, [Instr("load", None, p.val, None) EXCEPT !.off = x.off]))
      [] x.e = "call" -> Given(LowerArgs(st, x.args, <<>>), LAMBDA a :
                             EmitValue(a, [Instr("call", None, None, None) EXCEPT !.callee = x.f, !.args = a.val]))
      [] x.e = "cond" -> Merged(st, LAMBDA res, else, end, s :
                             LET c == EmitIf("jmp_unless", LowerExpr(s, x.c), else)
                                 t == StoreValue(LowerExpr(c, x.then), res)
                             IN  StoreValue(LowerExpr(Emit(Emit(t, Jmp(end)), Label(else)), x.else), res))
      [] x.e = "and" -> Merged(st, LAMBDA res, false, end, s :
                             LET l == EmitIf("jmp_unless", LowerExpr(Store(s, res, C(0)), x.l), false)
                                 r == EmitIf("jmp_unless", LowerExpr(l, x.r), false)
                             IN  Emit(Emit(Store(r, res, C(1)), Jmp(end)), Label(false)))
      [] x.e = "or" -> Merged(st, LAMBDA res, true, end, s :
                             LET l == EmitIf("jmp_if", LowerExpr(Store(s, res, C(0)), x.l), true)
                                 r == EmitIf("jmp_if", LowerExpr(l, x.r), true)
                             IN  Store(Emit(Emit(r, Jmp(end)), Label(true)), res, C(1)))
LowerArgs(st, args, vals) ==
    IF Len(vals) = Len(args) THEN [st EXCEPT !.val = vals]
    ELSE Given(LowerExpr(st, args[Len(vals) + 1]), LAMBDA a : LowerArgs(a, args, Append(vals, a.val)))

\* lower_jump_if: to lbl when the condition is (not) true; no value is made of
\* a conjunction or a disjunction.
RECURSIVE JumpIf(_, _, _, _)
JumpIf(st, c, lbl, whenTrue) ==
    IF c.e \notin {"and", "or"}
    THEN EmitIf(IF whenTrue THEN "jmp_if" ELSE "jmp_unless", LowerExpr(st, c), lbl)
    ELSE IF (c.e = "and") = ~whenTrue
    THEN JumpIf(JumpIf(st, c.l, lbl, whenTrue), c.r, lbl, whenTrue)
    ELSE LET skip == st.label
             left == JumpIf([st EXCEPT !.label = @ + 1], c.l, skip, ~whenTrue)
         IN  Emit(JumpIf(left, c.r, lbl, whenTrue), Label(skip))

-----------------------------------------------------------------------------
(* Statements.                                                             *)

\* loop_push, loop_pop.
Push(st, brk, cont) ==
    IF Len(st.loops) < MaxLoopDepth THEN [st EXCEPT !.loops = Append(@, [brk |-> brk, cont |-> cont])] ELSE st
Pop(st) == IF st.loops = <<>> THEN st ELSE [st EXCEPT !.loops = SubSeq(@, 1, Len(@) - 1)]
JumpOut(st, to) == IF st.loops = <<>> THEN st ELSE Emit(st, Jmp(st.loops[Len(st.loops)][to]))

\* collect_defers: every defer that is not inside another, in the order of the
\* text, as far as there is room.
RECURSIVE AllDefers(_)
AllDefers(stmts) ==
    IF stmts = <<>> THEN <<>>
    ELSE LET one == Head(stmts)
         IN  (CASE one.s = "defer" -> <<one>>
                [] one.s = "if" -> AllDefers(one.then) \o AllDefers(one.else)
                [] one.s \in {"while", "for", "forin"} -> AllDefers(one.body)
                [] one.s = "switch" -> FlattenSeq([i \in DOMAIN one.cases |-> AllDefers(one.cases[i].body)])
                [] OTHER -> <<>>) \o AllDefers(Tail(stmts))
CollectDefers(stmts) ==
    LET all == AllDefers(stmts) IN SubSeq(all, 1, IF Len(all) < MaxDefers THEN Len(all) ELSE MaxDefers)

RECURSIVE LowerStmt(_, _)
RECURSIVE LowerStmts(_, _)
RECURSIVE EmitDefersFrom(_, _)

LowerStmts(st, stmts) == Sweep(LAMBDA s, k : LowerStmt(s, stmts[k]), st, Len(stmts))

\* emit_defers: the bodies of those whose flag is set, newest first; not again
\* for a return inside one of them.
EmitDefersFrom(st, k) ==
    IF k = 0 THEN st
    ELSE LET skip == st.label
             flag == EmitIf("jmp_unless", Load([st EXCEPT !.label = @ + 1], st.flags + k - 1), skip)
         IN  EmitDefersFrom(Emit(LowerStmts(flag, st.defers[k].body), Label(skip)), k - 1)
EmitDefers(st) ==
    IF st.emitting THEN st
    ELSE [EmitDefersFrom([st EXCEPT !.emitting = TRUE], Len(st.defers)) EXCEPT !.emitting = FALSE]

LowerFor(st, n) ==
    LET loop == st.label
        post == loop + 1
        end == loop + 2
        init == LowerStmts([st EXCEPT !.label = @ + 3], n.init)
        body == LowerStmts(JumpIf(Emit(Push(init, end, post), Label(loop)), n.c, end, FALSE), n.body)
    IN  Pop(Emit(Emit(LowerStmts(Emit(body, Label(post)), n.post), Jmp(loop)), Label(end)))

\* The collection and its length are taken once; the element through the index.
LowerForIn(st, n) ==
    LET loop == st.label
        post == loop + 1
        end == loop + 2
        arr == st.local
        len == arr + 1
        idx == arr + 2
        coll == LowerExpr([st EXCEPT !.label = @ + 4, !.local = @ + 3], n.a)
        Kept(c) == StoreValue(EmitValue(Store(c, arr, c.val), Instr("arr_len", None, c.val, None)), len)
        top == Emit(Push(Store(Kept(coll), idx, C(0)), end, post), Label(loop))
        Two(s, x, y, Of(_, _, _)) ==
            Given(Load(s, x), LAMBDA a : Given(Load(a, y), LAMBDA b : Of(b, a.val, b.val)))
        past == Two(top, idx, len, LAMBDA s, i, z : EmitValue(s, Instr("ge", None, i, z)))
        elem == Two(EmitIf("jmp_if", past, end), arr, idx, ArrayLoad)
        body == LowerStmts(StoreValue(elem, n.x), n.body)
        More(i) == StoreValue(EmitValue(i, Instr("add", None, i.val, C(1))), idx)
    IN  Pop(Emit(Emit(More(Load(Emit(body, Label(post)), idx)), Jmp(loop)), Label(end)))

LowerIf(st, n) ==
    LET else == st.label
        end == else + 1
        there == [st EXCEPT !.label = @ + 2]
        Then(to) == LowerStmts(JumpIf(there, n.c, to, FALSE), n.then)
    IN  IF n.else = <<>> THEN Emit(Then(end), Label(end))
        ELSE Emit(LowerStmts(Emit(Emit(Then(else), Jmp(end)), Label(else)), n.else), Label(end))

LowerWhile(st, n) ==
    LET loop == st.label
        end == loop + 1
        test == JumpIf(Emit(Push([st EXCEPT !.label = @ + 2], end, loop), Label(loop)), n.c, end, FALSE)
    IN  Pop(Emit(Emit(LowerStmts(test, n.body), Jmp(loop)), Label(end)))

\* A chain of comparisons that ends at the default, then the arms.
LowerSwitch(st, n) ==
    LET subject == st.local
        end == st.label + 1
        ArmLabel(i) == end + i
        defaults == {i \in DOMAIN n.cases : n.cases[i].default}
        x == LowerExpr([st EXCEPT !.label = ArmLabel(Len(n.cases)) + 1, !.local = @ + 1], n.x)
        Equal(a, v) == EmitValue(v, Instr("eq", None, a.val, v.val))
        Test(s, i) ==
            IF i \in defaults THEN s
            ELSE EmitIf("jmp_if", Given(Load(s, subject), LAMBDA a : Equal(a, LowerExpr(a, n.cases[i].v))),
                        ArmLabel(i))
        chain == Emit(Sweep(Test, StoreValue(x, subject), Len(n.cases)),
                      Jmp(IF defaults = {} THEN end ELSE ArmLabel(Max(defaults))))
        Body(s, i) == Emit(LowerStmts(Emit(s, Label(ArmLabel(i))), n.cases[i].body), Jmp(end))
    IN  Emit(Sweep(Body, chain, Len(n.cases)), Label(end))

\* (Mutant: the deferred code runs before the value is computed.)
DefersThenReturn(st, n) ==
    Given(LowerExpr(EmitDefers(st), n.x), LAMBDA v : Emit(v, Instr("ret", None, v.val, None)))
LowerReturn(st, n) ==
    Given(LowerExpr(st, n.x), LAMBDA v : Emit(EmitDefers(v), Instr("ret", None, v.val, None)))

\* The flag of a defer that was not collected is no variable of the function.
LowerDefer(st, n) ==
    LET at == {k \in DOMAIN st.defers : st.defers[k] = n}
    IN  IF at = {} THEN st ELSE Store(st, st.flags + Max(at) - 1, C(1))

LowerStmt(st, n) ==
    CASE n.s = "let" -> StoreValue(LowerExpr(st, n.v), n.x)
      [] n.s = "put" -> Given(LowerArgs(st, <<n.a, n.i, n.v>>, <<>>), LAMBDA s :
                            ArrayStore(s, s.val[1], s.val[2], s.val[3]))
      [] n.s = "setfield" -> Given(LowerArgs(st, <<n.p, n.v>>, <<>>), LAMBDA s :
                                 Emit(s, [Instr("store", s.val[1], s.val[2], None) EXCEPT !.off = n.off]))
      [] n.s = "expr" -> LowerExpr(st, n.x)
      [] n.s = "if" -> LowerIf(st, n)
      [] n.s = "while" -> LowerWhile(st, n)
      [] n.s = "for" -> LowerFor(st, n)
      [] n.s = "forin" -> LowerForIn(st, n)
      [] n.s = "switch" -> LowerSwitch(st, n)
      [] n.s = "break" -> JumpOut(st, "brk")
      [] n.s = "continue" -> JumpOut(st, "cont")
      [] n.s = "return" -> LowerReturn(st, n)
      [] n.s = "defer" -> LowerDefer(st, n)

\* The flags are cleared first; a body that does not end in a return gets one.
RECURSIVE ClearFlags(_, _)
ClearFlags(st, k) ==
    IF k = Len(st.defers) THEN st ELSE ClearFlags(Store(st, st.flags + k, C(0)), k + 1)
LowerFunction(f) ==
    LET defers == CollectDefers(f.body)
        start == [code |-> <<>>, temp |-> 1, label |-> 1, val |-> None, loops |-> <<>>, emitting |-> FALSE,
                  defers |-> defers, flags |-> f.locals + 1, local |-> f.locals + 1 + Len(defers)]
        Open(code) == code = <<>> \/ code[Len(code)].op # "ret"
        Ended(body) == IF Open(body.code) THEN Emit(EmitDefers(body), Instr("ret", None, None, None)) ELSE body
    IN  [params |-> f.params, code |-> Ended(LowerStmts(ClearFlags(start, 0), f.body)).code]

-----------------------------------------------------------------------------
(* What the statements mean.  A run carries the variables, what a machine  *)
(* carries, how the last statement ended, the value of the last            *)
(* expression, the defers that were passed, and fuel for its loops and     *)
(* calls.                                                                  *)

Stopped(r) == r.how \in {"fault", "still running"}

RECURSIVE Evaluate(_, _, _)
RECURSIVE EvaluateArgs(_, _, _, _)
RECURSIVE Holds(_, _, _)
RECURSIVE Perform(_, _, _)
RECURSIVE PerformAll(_, _, _)
RECURSIVE Repeat(_, _, _)
RECURSIVE ForEach(_, _, _, _, _, _)
RECURSIVE RunDefers(_, _, _)
RECURSIVE CallSource(_, _, _, _)

\* Cell idx of array arr, 0 when there is none.
Cell(mem, arr, idx) == IF arr # 0 /\ idx \in 0 .. mem[arr] - 1 THEN mem[arr + 16] + 8 * idx ELSE 0
ElementAt(mem, arr, idx) == LET at == Cell(mem, arr, idx) IN IF at = 0 THEN 0 ELSE mem[at]
Length(mem, arr) == IF arr = 0 THEN 0 ELSE mem[arr]

Evaluate(prog, r, x) ==
    CASE x.e = "const" -> [r EXCEPT !.val = x.n]
      [] x.e = "var" -> [r EXCEPT !.val = r.vars[x.x]]
      [] x.e = "bin" -> Given(EvaluateArgs(prog, r, <<x.l, x.r>>, <<>>), LAMBDA a :
                            [a EXCEPT !.val = Compute(x.op, @[1], @[2])])
      [] x.e = "len" -> Given(Evaluate(prog, r, x.a), LAMBDA a : [a EXCEPT !.val = Length(a.mem, @)])
      [] x.e = "index" -> Given(EvaluateArgs(prog, r, <<x.a, x.i>>, <<>>), LAMBDA a :
                              [a EXCEPT !.val = ElementAt(a.mem, @[1], @[2])])
      [] x.e = "field" -> Given(Evaluate(prog, r, x.p), LAMBDA p :
                              IF p.val + x.off \in DOMAIN p.mem THEN [p EXCEPT !.val = p.mem[@ + x.off]]
                              ELSE [p EXCEPT !.how = "fault"])
      [] x.e = "call" -> Given(EvaluateArgs(prog, r, x.args, <<>>), LAMBDA a :
                             IF Stopped(a) THEN a
                             ELSE IF x.f \in DOMAIN prog THEN CallSource(prog, a, x.f, a.val)
                             ELSE IF x.f = "hylian_array_zeros"
                             THEN Given(Zeros([mem |-> a.mem, stack |-> <<[pc |-> 1, regs |-> <<0>>]>>],
                                              [dest |-> V(1)], a.val[1]),
                                        LAMBDA m : [a EXCEPT !.mem = m.mem, !.val = m.stack[1].regs[1]])
                             ELSE [a EXCEPT !.val = Answer(a.calls), !.calls = @ + 1, !.mem = Afterwards(@),
                                            !.seen = Append(@, <<x.f, a.val>>)])
      [] x.e = "cond" -> Given(Evaluate(prog, r, x.c), LAMBDA c :
                             Evaluate(prog, c, IF c.val # 0 THEN x.then ELSE x.else))
      [] x.e \in {"and", "or"} -> [Holds(prog, r, x) EXCEPT !.val = Truth(@ # 0)]
EvaluateArgs(prog, r, args, vals) ==
    IF Len(vals) = Len(args) THEN [r EXCEPT !.val = vals]
    ELSE Given(Evaluate(prog, r, args[Len(vals) + 1]),
               LAMBDA a : EvaluateArgs(prog, a, args, Append(vals, a.val)))

\* A condition, with the second operand only when the first does not decide.
Holds(prog, r, c) ==
    IF c.e \notin {"and", "or"} THEN Evaluate(prog, r, c)
    ELSE Given(Holds(prog, r, c.l), LAMBDA l : IF (l.val # 0) = (c.e = "or") THEN l ELSE Holds(prog, l, c.r))

PerformAll(prog, r, stmts) ==
    IF stmts = <<>> \/ r.how # "next" THEN r
    ELSE PerformAll(prog, Perform(prog, r, Head(stmts)), Tail(stmts))

\* A loop: the step after the body also behind a continue.
Repeat(prog, r, n) ==
    IF r.fuel = 0 THEN [r EXCEPT !.how = "still running"]
    ELSE LET Behind(b) ==
                 CASE b.how \in {"next", "continue"} ->
                        Repeat(prog, PerformAll(prog, [b EXCEPT !.how = "next"], n.post), n)
                   [] b.how = "break" -> [b EXCEPT !.how = "next"]
                   [] OTHER -> b
             Tested(c) == IF c.how # "next" \/ c.val = 0 THEN c ELSE Behind(PerformAll(prog, c, n.body))
         IN  Tested(Holds(prog, [r EXCEPT !.fuel = @ - 1], n.c))
\* The elements of arr from idx on, as far as it was long when the loop began.
ForEach(prog, r, n, arr, len, idx) ==
    IF idx >= len THEN r
    ELSE LET Behind(b) ==
                 CASE b.how \in {"next", "continue"} ->
                        ForEach(prog, [b EXCEPT !.how = "next"], n, arr, len, idx + 1)
                   [] b.how = "break" -> [b EXCEPT !.how = "next"]
                   [] OTHER -> b
         IN  Behind(PerformAll(prog, [r EXCEPT !.vars[n.x] = ElementAt(r.mem, arr, idx)], n.body))

\* What a switch runs: the case of the value, or the default.
ArmFor(cases, v) ==
    LET own == {i \in DOMAIN cases : ~cases[i].default /\ cases[i].v.n = v}
        default == {i \in DOMAIN cases : cases[i].default}
        arm == IF own # {} THEN own ELSE default
    IN  IF arm = {} THEN <<>> ELSE cases[Min(arm)].body

Perform(prog, r, n) ==
    CASE n.s = "let" -> Given(Evaluate(prog, r, n.v), LAMBDA v : [v EXCEPT !.vars[n.x] = v.val])
      [] n.s = "put" -> Given(EvaluateArgs(prog, r, <<n.a, n.i, n.v>>, <<>>), LAMBDA a :
                            Given(Cell(a.mem, a.val[1], a.val[2]), LAMBDA at :
                                IF at = 0 THEN a ELSE [a EXCEPT !.mem[at] = a.val[3]]))
      [] n.s = "setfield" -> Given(EvaluateArgs(prog, r, <<n.p, n.v>>, <<>>), LAMBDA a :
                                 IF a.val[1] + n.off \in DOMAIN a.mem
                                 THEN [a EXCEPT !.mem[a.val[1] + n.off] = a.val[2]] ELSE [a EXCEPT !.how = "fault"])
      [] n.s = "expr" -> Evaluate(prog, r, n.x)
      [] n.s = "if" -> Given(Holds(prog, r, n.c), LAMBDA c : PerformAll(prog, c, IF c.val # 0 THEN n.then ELSE n.else))
      [] n.s = "while" -> Repeat(prog, r, [c |-> n.c, body |-> n.body, post |-> <<>>])
      [] n.s = "for" -> Repeat(prog, PerformAll(prog, r, n.init), n)
      [] n.s = "forin" -> Given(Evaluate(prog, r, n.a), LAMBDA a :
                              ForEach(prog, a, n, a.val, Length(a.mem, a.val), 0))
      [] n.s = "switch" -> Given(Evaluate(prog, r, n.x), LAMBDA x : PerformAll(prog, x, ArmFor(n.cases, x.val)))
      [] n.s \in {"break", "continue"} -> [r EXCEPT !.how = n.s]
      [] n.s = "return" -> [Evaluate(prog, r, n.x) EXCEPT !.how = IF @ = "next" THEN "return" ELSE @]
      [] n.s = "defer" -> [r EXCEPT !.armed = @ \union {n}]

\* Deferred code runs in reverse order of the defer statements, after the value
\* of a return has been computed, if control passed through the statement.
RunDefers(prog, r, defers) ==
    IF defers = <<>> \/ Stopped(r) THEN r
    ELSE LET last == defers[Len(defers)]
             run == IF last \in r.armed THEN PerformAll(prog, [r EXCEPT !.how = "next"], last.body) ELSE r
         IN  RunDefers(prog, run, SubSeq(defers, 1, Len(defers) - 1))

CallSource(prog, r, f, args) ==
    LET fn == prog[f]
        entered == [r EXCEPT !.vars = [x \in 1 .. fn.locals |-> IF x \in DOMAIN args THEN args[x] ELSE Junk],
                             !.armed = {}, !.fuel = @ - 1]
        Left(b, result) == [RunDefers(prog, b, AllDefers(fn.body))
                               EXCEPT !.vars = r.vars, !.armed = r.armed, !.val = result,
                                      !.how = IF @ \in {"fault", "still running"} THEN @ ELSE "next"]
    IN  IF r.fuel = 0 THEN [r EXCEPT !.how = "still running"]
        ELSE Given(PerformAll(prog, entered, fn.body), LAMBDA b : Left(b, IF b.how = "return" THEN b.val ELSE 0))

\* What the program text says can be observed when f is called.
Meant(prog, f, args, fuel) ==
    LET start == [vars |-> <<>>, mem |-> World, calls |-> 1, seen |-> <<>>, how |-> "next", val |-> 0,
                  armed |-> {}, fuel |-> fuel]
        Seen(r) == Append(r.seen, IF Stopped(r) THEN <<r.how>> ELSE <<"return", r.val, r.mem>>)
    IN  Seen(CallSource(prog, start, f, args))
=============================================================================
