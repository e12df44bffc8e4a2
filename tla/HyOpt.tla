------------------------------- MODULE HyOpt -------------------------------
(***************************************************************************)
(* From a program to optimized machine IR: Schedule, with the lowering of  *)
(* Lower for its Lowered, the passes of ScalarPasses and LoopPasses for    *)
(* its Pass (Apply), and inlining (InlineInto, FnInfo).  The configuration *)
(* puts them in their places.  One step is one pass over one function.     *)
(***************************************************************************)
EXTENDS Lower, LoopPasses, Schedule

CONSTANT Fuel   \* steps a run may take

\* The switch of each pass.
SwitchOf(p) == CASE p \in {"global_prop", "local", "fold_movs"} -> "prop"
                 [] p = "arrlen" -> "bce"
                 [] OTHER -> p

WithReturn(code) ==
    IF code = <<>> \/ code[Len(code)].op \notin Terminator THEN Append(code, Instr("ret", None, None, None)) ELSE code

Apply(p, fn, off) ==
    LET code == fn.code
    IN  CASE SwitchOf(p) \in off -> code
          [] p = "cfg" -> CleanupCfg(code)
          [] p = "mem2reg" -> Mem2Reg(fn)
          [] p = "global_prop" -> GlobalProp(code)
          [] p = "copyprop" -> CopyPropDf(code)
          [] p = "local" -> LocalPass(code, "cse" \notin off)
          [] p = "addr" -> FoldAddr(code)
          [] p = "gcse" -> Gcse(code)
          [] p = "fold_movs" -> FoldMovs(code)
          [] p = "dce" -> Dce(code)
          [] p = "ifcvt" -> IfConvert(code)
          [] p = "loops" -> RotateLoops(code)
          [] p = "arrlen" -> KnownArrLen(code)
          [] p = "bce" -> RangeBce(code)
          [] p = "licm" -> Licm(code)
          [] p = "sr" -> StrengthReduce(code)
          [] p = "ret" -> WithReturn(code)

-----------------------------------------------------------------------------
(* Inlining.                                                               *)

FnInfo(fn) ==
    LET size == Len(Compact(fn.code))
        slots == \E i \in DOMAIN fn.code : \E x \in {fn.code[i].dest, fn.code[i].src1} : x[1] = "slot"
    IN  [size |-> size, canInline |-> ~slots /\ size <= 28]

\* The body of callee in the place of a call, its registers and labels renumbered.
Expanded(call, callee, reg, label) ==
    LET code == Compact(callee.code)
        Renamed(x) == IF IsReg(x) THEN V(x[2] + reg) ELSE x
        end == label + FreshLabel(code)
        Piece(k) ==
            LET ins == code[k]
            IN  CASE ins.op = "getparam" -> <<Mov(Renamed(ins.dest), call.args[ins.label])>>
                  [] ins.op = "ret" ->
                        (IF IsReg(call.dest) THEN <<Mov(call.dest, Renamed(ins.src1))>> ELSE <<>>)
                        \o (IF k = Len(code) THEN <<>> ELSE <<Jmp(end)>>)
                  [] OTHER ->
                        <<[ins EXCEPT !.dest = Renamed(@), !.src1 = Renamed(@), !.src2 = Renamed(@),
                                      !.args = [a \in DOMAIN @ |-> Renamed(@[a])],
                                      !.label = IF ins.op \in Jump \union {"label"} THEN @ + label ELSE @]>>
    IN  Sweep(LAMBDA out, k : out \o Piece(k), <<>>, Len(code)) \o <<Label(end)>>

\* inline_into: the calls in f of the functions in targets.
InlineInto(m, f, targets) ==
    LET code == m[f].code
        Step(st, i) ==
            LET ins == code[i]
                g == ins.callee
            IN  IF ins.op = "call" /\ g \in targets /\ Len(ins.args) = m[g].params
                THEN [code |-> st.code \o Expanded(ins, m[g], st.reg, st.label),
                      reg |-> st.reg + FreshReg(m[g].code) + 1, label |-> st.label + FreshLabel(m[g].code) + 2]
                ELSE [st EXCEPT !.code = Append(@, ins)]
    IN  Sweep(Step, [code |-> <<>>, reg |-> FreshReg(code), label |-> FreshLabel(code)], Len(code)).code

\* The module as the optimizer finds it.
LowerModule(p) == [f \in DOMAIN p.functions |-> LowerFunction(p.functions[f])]

-----------------------------------------------------------------------------
(* What the compiler promises.                                             *)

\* No pass changes what can be observed of the program: whatever it is called
\* with, the module does what the text of the program means (the comparison
\* that tests/opt_test.sh and tests/opt_fuzz.py make on the output).
Expected == Table([p \in Programs |-> Table([r \in p.runs |-> Meant(p.functions, r.f, r.args, Fuel)])])
Faithful(m) == \A r \in program.runs : Observed(m, r.f, r.args, Fuel) = Expected[program][r]
MeansTheSame == [][mod' = mod \/ Faithful(mod')]_mod

\* A label is defined once, every jump has its label, and the parameters are
\* fetched before anything else happens (hymir.h asks for it).
WellFormedCode(code) ==
    /\ \A i \in DOMAIN code : code[i].op \in Jump => Cardinality(LabelAt(code, code[i].label)) = 1
    /\ \A i, j \in DOMAIN code : code[i].op = "label" /\ code[j].op = "label" /\ i # j => code[i].label # code[j].label
    /\ \A i \in DOMAIN code : code[i].op = "getparam" => \A j \in 1 .. i - 1 : code[j].op \in {"getparam", "nop"}
WellFormed == \A f \in DOMAIN mod : WellFormedCode(mod[f].code)

\* On no path is a register read that nothing has written (what verify_after
\* looks for after every pass, in the order of the text).
ReadsDefined == \A f \in DOMAIN mod : LiveIn(mod[f].code)[1] = {}

\* No function that is done fetches a parameter it does not read.  The back end
\* counts on it: it fetches the parameters at once, and the home of a dead one
\* may be given to the next (lower_x64.c, MIR_GETPARAM).
LiveBehind(code, i) ==
    LET b == BlockOf(code, i)
        z == LastOf(code, b)
    IN  LiveBefore(code, i + 1, z, LiveOut(code, LiveIn(code), b))
ParametersLive ==
    "dce" \notin passOff =>
        \A k \in 1 .. done : \A code \in {mod[order[k]].code} : \A i \in DOMAIN code :
            code[i].op = "getparam" => Def(code[i]) \in LiveBehind(code, i)
=============================================================================
