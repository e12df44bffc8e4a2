----------------------------- MODULE MCLiveness -----------------------------
(* Four shapes of functions with holes, three virtual registers: every     *)
(* choice of what fills the holes.                                         *)
EXTENDS Liveness

I(op, d, a, b) == [op |-> op, dest |-> d, src1 |-> a, src2 |-> b, args |-> <<>>,
                   label |-> 0, scaled |-> FALSE]
Call(d, args) == [I("call", d, 0, 0) EXCEPT !.args = args]
Param(d, k) == [I("getparam", d, 0, 0) EXCEPT !.label = k]
Label(l) == [I("label", 0, 0, 0) EXCEPT !.label = l]
Branch(op, v, l) == [I(op, 0, v, 0) EXCEPT !.label = l]

MCVReg == 1 .. 3
MCArgRegs == <<1, 2>>

Holes == {Call(1, <<2>>), Call(3, <<2, 1>>), I("sdiv", 1, 2, 3), I("mov", 3, 1, 0),
          I("mov", 2, 0, 0), I("store", 2, 1, 3), I("add", 2, 1, 2)}

\* A loop whose condition is one value and whose result is another.
Loop(a, b, c, v) == <<Param(1, 1), a, Label(1), Branch("jmp_unless", v, 2), b, c,
                      Branch("jmp", 0, 1), Label(2), I("ret", 0, 3, 0)>>
\* A loop with its test at the end, nested in another.
Nest(a, b, c, v) == <<I("mov", 1, 0, 0), Label(1), a, Label(2), b, Branch("jmp_if", v, 2),
                      c, Branch("jmp_if", 3, 1), I("ret", 0, 2, 0)>>
\* Both arms of an if, and what follows.
Diamond(a, b, c, v) == <<Param(1, 1), Param(2, 2), Branch("jmp_unless", v, 1), a,
                         Branch("jmp", 0, 2), Label(1), b, Label(2), c, I("ret", 0, 1, 0)>>
\* Two returns, and code behind the first that nothing leads to.
Early(a, b, c) == <<Param(1, 1), Branch("jmp_unless", 1, 1), a, I("ret", 0, 1, 0), b,
                    Label(1), c, I("ret", 0, 2, 0)>>

MCPrograms ==
    UNION {{Loop(a, b, c, v), Nest(a, b, c, v), Diamond(a, b, c, v)} :
              a \in Holes, b \in Holes, c \in Holes, v \in {1, 2}}
    \union {Early(a, b, c) : a \in Holes, b \in Holes, c \in Holes}
=============================================================================
