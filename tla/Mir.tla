-------------------------------- MODULE Mir --------------------------------
(***************************************************************************)
(* The machine IR the optimizer works on (hygen/libhymir/include/hymir.h): *)
(* what an instruction reads, writes and does, the control-flow graph and  *)
(* liveness as the optimizer computes them, and the meaning of a module of *)
(* functions: what a caller and the functions outside the module can       *)
(* observe of a run.                                                       *)
(*                                                                         *)
(* An operand is a pair: <<"v", n>> the virtual register n (from 1),       *)
(* <<"i", n>> a constant, <<"slot", x>> a stack slot, None.  A function is *)
(* a record [code, params], its code a sequence of instructions            *)
(*   [op, dest, src1, src2, args : operands; label : the label it is or    *)
(*    jumps to, or the number of a getparam; callee; off, scale : of the   *)
(*    address of a load or store; cls : its alias class].                  *)
(* Integers are Width bits wide; floats, narrow types and inline assembly  *)
(* are left out.                                                           *)
(***************************************************************************)
EXTENDS Integers, FiniteSets, FiniteSetsExt, SequencesExt, TLC
LOCAL INSTANCE Bitwise

CONSTANTS
    Width,      \* bits of an integer (64 in the code; small enough for TLC)
    World       \* the memory a run starts with: addresses to integers

-----------------------------------------------------------------------------
(* Operands and instructions.                                              *)

None == <<"none", 0>>
V(n) == <<"v", n>>
C(n) == <<"i", n>>
Slot(x) == <<"slot", x>>
IsReg(x) == x[1] = "v"
IsImm(x) == x[1] = "i"

Instr(op, d, a, b) == [op |-> op, dest |-> d, src1 |-> a, src2 |-> b, args |-> <<>>,
                       label |-> 0, callee |-> "", off |-> 0, scale |-> 0, cls |-> "any"]
Label(l) == [Instr("label", None, None, None) EXCEPT !.label = l]
Jmp(l) == [Instr("jmp", None, None, None) EXCEPT !.label = l]
Branch(op, x, l) == [Instr(op, None, x, None) EXCEPT !.label = l]
Nop == Instr("nop", None, None, None)
\* make_mov: what else the instruction carried is dropped.
Mov(d, x) == Instr("mov", d, x, None)

IntCmp == {"eq", "ne", "lt", "le", "gt", "ge", "ult", "ule", "ugt", "uge"}
Binary == {"add", "sub", "mul", "and", "shl"} \union IntCmp
CondJump == {"jmp_if", "jmp_unless"}
Jump == CondJump \union {"jmp"}
Terminator == Jump \union {"ret"}
ArrayHeader == {"arr_len", "arr_data"}
MemoryRead == {"load"} \union ArrayHeader

-----------------------------------------------------------------------------
(* shape_of, def_of, for_each_use, is_pure, writes_memory.                 *)

NoDest == Jump \union {"store", "label", "ret", "nop"}
NoSrc1 == {"label", "jmp", "call", "getparam", "nop"}
UsesSrc1(ins) == ins.op \notin NoSrc1
UsesSrc2(ins) == ins.op \in Binary \union {"select"} \/ ins.scale # 0
Reads(ins) ==
    {x[2] : x \in {y \in {ins.args[k] : k \in DOMAIN ins.args}
                         \union (IF UsesSrc1(ins) THEN {ins.src1} ELSE {})
                         \union (IF UsesSrc2(ins) THEN {ins.src2} ELSE {})
                         \union (IF ins.op = "store" THEN {ins.dest} ELSE {}) : IsReg(y)}}

\* The register an instruction defines, 0 when there is none.
Def(ins) == IF ins.op \in NoDest \/ ~IsReg(ins.dest) THEN 0 ELSE ins.dest[2]

\* How often an instruction reads v.
UsesOf(ins, v) ==
    Cardinality({k \in DOMAIN ins.args : ins.args[k] = V(v)})
    + (IF UsesSrc1(ins) /\ ins.src1 = V(v) THEN 1 ELSE 0)
    + (IF UsesSrc2(ins) /\ ins.src2 = V(v) THEN 1 ELSE 0)
    + (IF ins.op = "store" /\ ins.dest = V(v) THEN 1 ELSE 0)

\* The instruction with every register it reads replaced.
Substitute(ins, F(_)) ==
    LET G(x) == IF IsReg(x) THEN F(x) ELSE x
    IN  [ins EXCEPT !.src1 = IF UsesSrc1(ins) THEN G(@) ELSE @,
                    !.src2 = IF UsesSrc2(ins) THEN G(@) ELSE @,
                    !.dest = IF ins.op = "store" THEN G(@) ELSE @,
                    !.args = [k \in DOMAIN @ |-> G(@[k])]]

\* (Mutant: a fetched parameter stays.)
PureButParams(ins) == ins.op \in Binary \union MemoryRead \union {"mov", "neg", "select", "nop"}
Pure(ins) == ins.op \in Binary \union MemoryRead \union {"mov", "neg", "select", "getparam", "nop"}
WritesMemory(ins) == ins.op \in {"store", "call"}
\* Whether a write may change what a read of class cls returned.
\* (Mutant: only what the function stores itself.)
StoreDisturbs(ins, cls) == ins.op = "store" /\ ("any" \in {ins.cls, cls} \/ ins.cls = cls)
Disturbs(ins, cls) == WritesMemory(ins) /\ ~(ins.op = "store" /\ "any" \notin {ins.cls, cls} /\ ins.cls # cls)
ReadClass(ins) == IF ins.op \in ArrayHeader THEN "hdr" ELSE ins.cls

\* The function f; TLC computes it here and not again where it is applied.
Table(f) == f @@ <<>>

\* In of x, which is worked out once.
Given(x, In(_)) == In(x)

\* Step at 1, 2 .. n, from start (in halves, each computed before it is used:
\* TLC's evaluation stays shallow).
Sweep(Step(_, _), start, n) ==
    LET RECURSIVE Steps(_, _, _)
        Steps(x, i, j) ==
            LET mid == (i + j) \div 2
            IN  IF i > j THEN x ELSE IF i = j THEN Step(x, i)
                ELSE CHOOSE y \in {Steps(z, mid + 1, j) : z \in {Steps(x, i, mid)}} : TRUE
    IN  Steps(start, 1, n)

Registers(code) ==
    UNION {Reads(code[i]) \union ({Def(code[i])} \ {0}) : i \in DOMAIN code}
FreshReg(code) == Max(Registers(code) \union {0}) + 1
LabelNumbers(code) == {code[i].label : i \in {j \in DOMAIN code : code[j].op \in Jump \union {"label"}}}
\* (Mutant: the highest label of the function, which it uses itself.)
HighestLabel(code) == Max(LabelNumbers(code) \union {0})
FreshLabel(code) == Max(LabelNumbers(code) \union {0}) + 1
Compact(code) == SelectSeq(code, LAMBDA ins : ins.op # "nop")

-----------------------------------------------------------------------------
(* build_cfg: a block is named by its first position.                      *)

Blocks(code) == {i \in DOMAIN code : i = 1 \/ code[i].op = "label" \/ code[i - 1].op \in Terminator}
LastOf(code, b) == Min({i - 1 : i \in {j \in Blocks(code) \union {Len(code) + 1} : j > b}})
BlockOf(code, i) == Max({b \in Blocks(code) : b <= i})
LabelAt(code, l) == {i \in DOMAIN code : code[i].op = "label" /\ code[i].label = l}
\* <<from, to, way>>: way is whether the jump that ends the block is taken.
Edges(code) ==
    LET blocks == Blocks(code)
        Out(b) == LET z == LastOf(code, b)
                      last == code[z]
                  IN  (IF last.op \in Jump THEN {<<b, t, TRUE>> : t \in LabelAt(code, last.label)} ELSE {})
                      \union (IF last.op \in {"jmp", "ret"} THEN {}
                              ELSE {<<b, t, FALSE>> : t \in blocks \cap {z + 1}})
    IN  UNION {Out(b) : b \in blocks}

\* What is live before the instructions from i to z when S is live behind them.
LiveBefore(code, i, z, S) ==
    Sweep(LAMBDA live, k : Reads(code[z + 1 - k]) \union (live \ {Def(code[z + 1 - k])}), S, z + 1 - i)

\* compute_live: what is live at the start of each block.
RECURSIVE LiveFrom(_, _, _, _)
LiveFrom(code, edges, last, in) ==
    LET next == Table([b \in DOMAIN in |->
                    LiveBefore(code, b, last[b], UNION {in[e[2]] : e \in {f \in edges : f[1] = b}})])
    IN  IF next = in THEN in ELSE LiveFrom(code, edges, last, next)
LiveIn(code) ==
    LET blocks == Blocks(code)
    IN  LiveFrom(code, Edges(code), Table([b \in blocks |-> LastOf(code, b)]), [b \in blocks |-> {}])
LiveOut(code, in, b) == UNION {in[e[2]] : e \in {f \in Edges(code) : f[1] = b}}

-----------------------------------------------------------------------------
(* What an instruction computes.                                           *)

Half == 2 ^ (Width - 1)
Wrap(n) == ((n + Half) % (2 * Half)) - Half
Unsigned(n) == n % (2 * Half)
Truth(b) == IF b THEN 1 ELSE 0

Compute(op, a, b) ==
    CASE op = "add" -> Wrap(a + b)
      [] op = "sub" -> Wrap(a - b)
      [] op = "mul" -> Wrap(a * b)
      [] op = "and" -> Wrap(Unsigned(a) & Unsigned(b))
      [] op = "shl" -> Wrap(a * 2 ^ (b % Width))
      [] op = "eq" -> Truth(a = b)
      [] op = "ne" -> Truth(a # b)
      [] op = "lt" -> Truth(a < b)
      [] op = "le" -> Truth(a <= b)
      [] op = "gt" -> Truth(a > b)
      [] op = "ge" -> Truth(a >= b)
      [] op = "ult" -> Truth(Unsigned(a) < Unsigned(b))
      [] op = "ule" -> Truth(Unsigned(a) <= Unsigned(b))
      [] op = "ugt" -> Truth(Unsigned(a) > Unsigned(b))
      [] op = "uge" -> Truth(Unsigned(a) >= Unsigned(b))

-----------------------------------------------------------------------------
(* A run.  Functions outside the module answer what Answer says and change *)
(* everything they can reach; an access outside of memory is a fault.      *)

CONSTANTS
    Answer(_),      \* what the n-th outside call of a run returns
    Afterwards(_)   \* memory behind an outside call

Junk == 77          \* what a register holds before anything wrote it

\* A function made ready to run: where its labels are, and a fresh frame of it.
Image(fn) ==
    LET code == fn.code
        operands == UNION {{code[i].dest, code[i].src1} : i \in DOMAIN code}
        labels == {code[i].label : i \in {j \in DOMAIN code : code[j].op = "label"}}
    IN  [code |-> code,
         at |-> <<>> \o [l \in 1 .. FreshLabel(code) |-> IF l \in labels THEN Max(LabelAt(code, l)) ELSE 0],
         regs |-> <<>> \o [v \in 1 .. FreshReg(code) |-> Junk],
         slots |-> <<>> \o [x \in 1 .. Max({0} \union {s[2] : s \in {t \in operands : t[1] = "slot"}}) |-> Junk]]
Frame(image, f, args, back) ==
    [fn |-> f, pc |-> 1, args |-> args, back |-> back, regs |-> image.regs,
     slots |-> <<>> \o [x \in DOMAIN image.slots |-> IF x \in DOMAIN args THEN args[x] ELSE Junk]]

\* The machine: a stack of frames (the running one first), memory, the number
\* of outside calls, what has been observed.
Value(fr, x) == IF IsReg(x) THEN fr.regs[x[2]] ELSE x[2]

\* The running function goes on, with v in the register its instruction names.
Onward(m, ins, v) ==
    [m EXCEPT !.stack[1].pc = @ + 1,
              !.stack[1].regs = IF IsReg(ins.dest) THEN [@ EXCEPT ![ins.dest[2]] = v] ELSE @]
Fault(m) == [m EXCEPT !.stack = <<>>, !.seen = Append(@, <<"fault">>)]

Return(m, v) ==
    IF Len(m.stack) = 1
    THEN [m EXCEPT !.stack = <<>>, !.seen = Append(@, <<"return", v, m.mem>>)]
    ELSE LET callers == Tail(m.stack)
         IN  Onward([m EXCEPT !.stack = callers], [dest |-> m.stack[1].back], v)

CallOf(m, mod, ins, args) ==
    IF ins.callee \in DOMAIN mod
    THEN [m EXCEPT !.stack = <<Frame(mod[ins.callee], ins.callee, args, ins.dest)>> \o @]
    ELSE Onward([m EXCEPT !.calls = @ + 1, !.mem = Afterwards(@),
                          !.seen = Append(@, <<ins.callee, args>>)],
                ins, Answer(m.calls))

\* A local array of n elements (hylian_array_zeros), behind everything else.
Zeros(m, ins, n) ==
    LET hdr == Max(DOMAIN m.mem) + 8
        cells == [a \in {hdr, hdr + 8, hdr + 16} \union {hdr + 16 + 8 * k : k \in 1 .. n} |->
                    CASE a < hdr + 16 -> n [] a = hdr + 16 -> hdr + 24 [] OTHER -> 0]
    IN  Onward([m EXCEPT !.mem = [a \in DOMAIN @ \union DOMAIN cells |->
                                     IF a \in DOMAIN cells THEN cells[a] ELSE @[a]]], ins, hdr)

Execute(m, mod) ==
    LET fr == m.stack[1]
        code == mod[fr.fn].code
        ins == IF fr.pc <= Len(code) THEN code[fr.pc] ELSE Instr("ret", None, None, None)
        a == Value(fr, ins.src1)
        b == Value(fr, ins.src2)
        Goto(l) == [m EXCEPT !.stack[1].pc = mod[fr.fn].at[l]]
        at == Wrap((IF ins.op = "store" THEN Value(fr, ins.dest) ELSE a) + ins.off + ins.scale * b)
        OnSlot == (IF ins.op = "store" THEN ins.dest ELSE ins.src1)[1] = "slot"
        header == a + (IF ins.op = "arr_data" THEN 16 ELSE 0)
    IN  CASE ins.op \in {"label", "nop"} -> Onward(m, ins, 0)
          [] ins.op = "mov" -> Onward(m, ins, a)
          [] ins.op = "neg" -> Onward(m, ins, Wrap(-a))
          [] ins.op \in Binary -> Onward(m, ins, Compute(ins.op, a, b))
          [] ins.op = "select" -> Onward(m, ins, IF a # 0 THEN b ELSE Value(fr, ins.args[1]))
          [] ins.op = "getparam" -> Onward(m, ins, fr.args[ins.label])
          [] ins.op = "jmp" -> Goto(ins.label)
          [] ins.op = "jmp_if" -> IF a # 0 THEN Goto(ins.label) ELSE Onward(m, ins, 0)
          [] ins.op = "jmp_unless" -> IF a = 0 THEN Goto(ins.label) ELSE Onward(m, ins, 0)
          [] ins.op = "ret" -> Return(m, a)
          [] ins.op = "load" /\ OnSlot -> Onward(m, ins, fr.slots[ins.src1[2]])
          [] ins.op = "store" /\ OnSlot ->
                Onward([m EXCEPT !.stack[1].slots[ins.dest[2]] = a], Nop, 0)
          [] ins.op \in ArrayHeader ->
                IF a = 0 THEN Onward(m, ins, 0)
                ELSE IF header \in DOMAIN m.mem THEN Onward(m, ins, m.mem[header]) ELSE Fault(m)
          [] ins.op \in {"load", "store"} /\ ~OnSlot ->
                IF at \notin DOMAIN m.mem THEN Fault(m)
                ELSE IF ins.op = "load" THEN Onward(m, ins, m.mem[at])
                ELSE Onward([m EXCEPT !.mem[at] = a], Nop, 0)
          [] ins.op = "call" ->
                LET args == [k \in DOMAIN ins.args |-> Value(fr, ins.args[k])]
                IN  IF ins.callee = "hylian_array_zeros" THEN Zeros(m, ins, args[1])
                    ELSE CallOf(m, mod, ins, args)

\* fuel steps of the machine (in halves, which keeps the evaluation shallow).
RECURSIVE Continue(_, _, _)
Continue(m, mod, fuel) ==
    IF m.stack = <<>> \/ fuel = 0 THEN m
    ELSE IF fuel = 1 THEN Execute(m, mod)
    ELSE Continue(Continue(m, mod, fuel \div 2), mod, fuel - fuel \div 2)

\* What can be observed when f is called with these arguments.
Observed(mod, f, args, fuel) ==
    LET Start(images) == [stack |-> <<Frame(images[f], f, args, None)>>, mem |-> World, calls |-> 1, seen |-> <<>>]
        Seen(m) == IF m.stack = <<>> THEN m.seen ELSE Append(m.seen, <<"still running">>)
    IN  Given(Table([g \in DOMAIN mod |-> Image(mod[g])]),
              LAMBDA images : Seen(Continue(Start(images), images, fuel)))
=============================================================================
