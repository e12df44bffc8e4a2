---------------------------- MODULE ScalarPasses ----------------------------
(***************************************************************************)
(* The passes of hygen/libhyopt/src/hyopt.c that scalar_fixpoint repeats,  *)
(* and mem2reg before them.  Each is an operator from code to code.  The   *)
(* bit sets and hash tables of the C code are sets of positions or of      *)
(* expressions; the budgets of very large functions are left out.          *)
(***************************************************************************)
EXTENDS Mir

\* The elements of S by their keys, which differ.
OrderedBy(S, Key(_)) ==
    [k \in 1 .. Cardinality(S) |-> CHOOSE x \in S : Cardinality({y \in S : Key(y) < Key(x)}) = k - 1]
Ascending(S) == OrderedBy(S, LAMBDA x : x)

DefsOf(code) == Table([v \in Registers(code) |-> {i \in DOMAIN code : Def(code[i]) = v}])
UsesFrom(code, v, i) == Sweep(LAMBDA n, k : n + UsesOf(code[i + k - 1], v), 0, Len(code) - i + 1)
Uses(code) == Table([v \in Registers(code) |-> UsesFrom(code, v, 1)])

\* Follow what is known of a register, a bounded number of times.
RECURSIVE Chase(_, _, _)
Chase(x, known, hops) ==
    IF hops = 0 \/ ~IsReg(x) \/ x[2] \notin DOMAIN known THEN x ELSE Chase(known[x[2]], known, hops - 1)

\* Forward facts that hold on every path, as a greatest fixed point: instruction
\* i kills and makes facts, an edge adds some; at the entry there are none, and
\* a block that nothing reaches gets lost.
RECURSIVE Settle(_, _, _, _)
Settle(in, into, out, added) ==
    LET next == Table([b \in DOMAIN in |->
                    IF into[b] = {} THEN in[b]
                    ELSE {x \in in[b] : \A e \in into[b] :
                             \/ x \in out[e[1]].gen \union added[e]
                             \/ x \in in[e[1]] /\ x \notin out[e[1]].kill}])
    IN  IF next = in THEN in ELSE Settle(next, into, out, added)

OnAllPaths(code, all, lost, gens, kills, added) ==
    LET blocks == Blocks(code)
        into == Table([b \in blocks |-> {e \in DOMAIN added : e[2] = b /\ b # 1}])
        Across(st, i) == [gen |-> (st.gen \ kills[i]) \union gens[i], kill |-> (st.kill \union kills[i]) \ gens[i]]
        out == Table([b \in blocks |-> Sweep(LAMBDA st, k : Across(st, b + k - 1), [gen |-> {}, kill |-> {}],
                                             LastOf(code, b) - b + 1)])
    IN  Settle([b \in blocks |-> IF b = 1 THEN {} ELSE IF into[b] = {} THEN lost ELSE all], into, out, added)

-----------------------------------------------------------------------------
(* simplify.                                                               *)

Commutative == {"add", "mul", "and", "eq", "ne"}
\* The operator for the operands the other way round.
SwappedOp(op) ==
    CASE op = "lt" -> "gt" [] op = "gt" -> "lt" [] op = "le" -> "ge" [] op = "ge" -> "le"
      [] op = "ult" -> "ugt" [] op = "ugt" -> "ult" [] op = "ule" -> "uge" [] op = "uge" -> "ule"
      [] OTHER -> op
PowerOfTwo(k) == \E s \in 1 .. Width - 2 : k = 2 ^ s
Log2(k) == CHOOSE s \in 1 .. Width - 2 : k = 2 ^ s

\* Algebraic identities: a constant on the right, or the same register twice.
Identity(ins) ==
    LET a == ins.src1
        k == ins.src2[2]
        right == IsImm(ins.src2) /\ IsReg(a)
        twice == IsReg(a) /\ a = ins.src2
    IN  CASE right /\ ins.op \in {"add", "sub", "shl"} /\ k = 0 -> Mov(ins.dest, a)
          [] right /\ <<ins.op, k>> \in {<<"mul", 1>>, <<"and", -1>>} -> Mov(ins.dest, a)
          [] right /\ ins.op \in {"mul", "and"} /\ k = 0 -> Mov(ins.dest, C(0))
          [] right /\ ins.op = "mul" /\ k = -1 -> [ins EXCEPT !.op = "neg", !.src2 = None]
          [] right /\ ins.op = "mul" /\ PowerOfTwo(k) -> [ins EXCEPT !.op = "shl", !.src2 = C(Log2(k))]
          [] twice /\ ins.op = "and" -> Mov(ins.dest, a)
          [] twice /\ ins.op \in {"eq", "le", "ge", "ule", "uge"} -> Mov(ins.dest, C(1))
          [] twice /\ ins.op \in {"sub", "ne", "lt", "gt", "ult", "ugt"} -> Mov(ins.dest, C(0))
          [] OTHER -> ins

Simplify(ins) ==
    LET a == ins.src1
        b == ins.src2
    IN  CASE ins.op \in Binary /\ IsImm(a) /\ IsImm(b) -> Mov(ins.dest, C(Compute(ins.op, a[2], b[2])))
          [] ins.op = "neg" /\ IsImm(a) -> Mov(ins.dest, C(Wrap(-a[2])))
          [] ins.op = "sub" /\ a = C(0) /\ IsReg(b) -> [ins EXCEPT !.op = "neg", !.src1 = b, !.src2 = None]
          [] ins.op \in Commutative \union IntCmp /\ IsImm(a) /\ IsReg(b) ->
                Identity([ins EXCEPT !.op = SwappedOp(@), !.src1 = b, !.src2 = a])
          [] OTHER -> Identity(ins)

\* One rewrite can enable another.
RECURSIVE Simplified(_, _, _)
Simplified(ins, known, rounds) ==
    LET s == Simplify(ins)
    IN  IF rounds = 0 \/ s = ins THEN ins
        ELSE Simplified(Substitute(s, LAMBDA x : Chase(x, known, 8)), known, rounds - 1)

-----------------------------------------------------------------------------
(* mem2reg: a slot that is only loaded and stored becomes a register,      *)
(* fetched or cleared at the entry.                                        *)

\* (Mutant: a variable starts with whatever is in its register.)
ParamOrNothing(params, x, reg) ==
    IF x <= params THEN [Instr("getparam", reg, None, None) EXCEPT !.label = x] ELSE Nop
StartOf(params, x, reg) ==
    IF x <= params THEN [Instr("getparam", reg, None, None) EXCEPT !.label = x] ELSE Mov(reg, C(0))

Mem2Reg(fn) ==
    LET code == fn.code
        SlotOf(ins) == IF ins.op = "load" /\ ins.src1[1] = "slot" THEN ins.src1
                       ELSE IF ins.op = "store" /\ ins.dest[1] = "slot" THEN ins.dest ELSE None
        slots == {SlotOf(code[i])[2] : i \in {j \in DOMAIN code : SlotOf(code[j]) # None}}
        order == Ascending(slots)
        reg == [x \in slots |-> V(FreshReg(code) + Cardinality({y \in slots : y < x}))]
        Rewrite(ins) == CASE SlotOf(ins) = None -> ins
                          [] ins.op = "load" -> Mov(ins.dest, reg[ins.src1[2]])
                          [] ins.op = "store" -> Mov(reg[ins.dest[2]], ins.src1)
    IN  [k \in DOMAIN order |-> StartOf(fn.params, order[k], reg[order[k]])] \o [i \in DOMAIN code |-> Rewrite(code[i])]

-----------------------------------------------------------------------------
(* global_prop: a register assigned once, from a constant or from one that *)
(* cannot change while the copy lives.                                     *)

IsCopy(ins) == ins.op = "mov" /\ (IsImm(ins.src1) \/ IsReg(ins.src1)) /\ ins.src1 # ins.dest

GlobalProp(code) ==
    LET defs == DefsOf(code)
        Once(v) == Cardinality(defs[v]) = 1
        At(v) == CHOOSE i \in defs[v] : TRUE
        Steady(s, v) == \/ code[At(s)].op = "getparam"
                        \/ (BlockOf(code, At(s)) = BlockOf(code, At(v)) /\ At(s) < At(v))
        Fixed(v, m) == IsCopy(m) /\ (IsImm(m.src1) \/ (Once(m.src1[2]) /\ Steady(m.src1[2], v)))
        known == Table([v \in {w \in DOMAIN defs : Once(w) /\ Fixed(w, code[At(w)])} |-> code[At(v)].src1])
    IN  [i \in DOMAIN code |-> Substitute(code[i], LAMBDA x : Chase(x, known, 8))]

-----------------------------------------------------------------------------
(* copy_prop_df: a copy is usable at a point if, on every path there, it   *)
(* was made and neither side was assigned since.                           *)

CopyPropDf(code) ==
    LET copies == {i \in DOMAIN code : IsCopy(code[i])}
        gens == Table([i \in DOMAIN code |-> {i} \cap copies])
        kills == Table([i \in DOMAIN code |-> {c \in copies : Def(code[i]) \in {Def(code[c])} \union Reads(code[c])}])
        Known(S) == Table([v \in {Def(code[c]) : c \in S} |-> code[CHOOSE c \in S : Def(code[c]) = v].src1])
        Past(old, S, known, i) ==
            [avail |-> (S \ kills[i]) \union gens[i],
             code |-> Append(old, Substitute(code[i], LAMBDA x : Chase(x, known, 6)))]
        Step(in, st, i) ==
            Given(IF i \in DOMAIN in THEN in[i] ELSE st.avail, LAMBDA S : Past(st.code, S, Known(S), i))
    IN  Given(OnAllPaths(code, copies, {}, gens, kills, Table([e \in Edges(code) |-> {}])),
              LAMBDA in : Sweep(LAMBDA st, i : Step(in, st, i), [avail |-> {}, code |-> <<>>], Len(code)).code)

-----------------------------------------------------------------------------
(* local_pass: within a block, propagation, simplification, constant       *)
(* branches and common subexpressions.                                     *)

CseEligible(ins) == ins.op \in Binary \union MemoryRead \union {"neg"}
Canonical(ins) ==
    IF ins.op \in Commutative /\ IsReg(ins.src1) /\ IsReg(ins.src2) /\ ins.src2[2] < ins.src1[2]
    THEN [ins EXCEPT !.src1 = ins.src2, !.src2 = ins.src1] ELSE ins
Mentions(ins, v) == V(v) \in {ins.dest, ins.src1, ins.src2}
OwnOperand(ins) == ins.dest \in {ins.src1, ins.src2}
Resolved(ins, nonzero) == IF nonzero = (ins.op = "jmp_if") THEN Jmp(ins.label) ELSE Nop

LocalPass(code, cse) ==
    LET blocks == Blocks(code)
        Same(x, y) == <<x.op, x.src1, x.src2, x.off, x.scale>> = <<y.op, y.src1, y.src2, y.off, y.scale>>
        Record(st, ins) ==
            LET v == Def(ins)
                untouched == {e \in st.avail : /\ ~(e.op \in MemoryRead /\ Disturbs(ins, ReadClass(e)))
                                               /\ ~Mentions(e, v)}
                kept == {w \in DOMAIN st.known : w # v /\ st.known[w] # V(v)}
                new == {v} \cap {w \in {v} : IsCopy(ins)}
            IN  [st EXCEPT
                    !.avail = untouched \union {Canonical(e) : e \in {x \in {ins} : CseEligible(x) /\ ~OwnOperand(x)}},
                    !.known = Table([w \in kept \union new |-> IF w = v THEN ins.src1 ELSE @[w]]),
                    !.code = Append(@, ins)]
        Shared(st, ins) ==
            LET same == {e \in st.avail : cse /\ CseEligible(ins) /\ Same(e, Canonical(ins))}
            IN  IF same = {} THEN ins ELSE Mov(ins.dest, (CHOOSE e \in same : TRUE).dest)
        Past(st, ins) ==
            IF ins.op \in CondJump /\ IsImm(ins.src1)
            THEN [st EXCEPT !.code = Append(@, Resolved(ins, ins.src1[2] # 0))]
            ELSE Record(st, Shared(st, ins))
        Understood(ins, known) == Simplified(Substitute(ins, LAMBDA x : Chase(x, known, 8)), known, 4)
        Step(old, i) ==
            Given(IF i \in blocks THEN [old EXCEPT !.known = <<>>, !.avail = {}] ELSE old,
                  LAMBDA st : Past(st, Understood(code[i], st.known)))
    IN  Sweep(Step, [known |-> <<>>, avail |-> {}, code |-> <<>>], Len(code)).code

-----------------------------------------------------------------------------
(* fold_addr: an addition or shift that only feeds an address moves into   *)
(* the load or store.                                                      *)

\* What is left to do at position i when last are the definitions so far.
RECURSIVE FoldAddress(_, _, _, _)
FoldAddress(st, last, i, rounds) ==
    LET ins == st.code[i]
        base == IF ins.op = "load" THEN ins.src1 ELSE ins.dest
        Unchanged(x, d) == ~(x[2] \in DOMAIN last /\ last[x[2]] > d)
        Feeds(x) == IsReg(x) /\ x[2] \in DOMAIN last /\ st.uses[x[2]] = 1
                    /\ LET d == st.code[last[x[2]]] IN IsReg(d.src1) /\ Unchanged(d.src1, last[x[2]])
        Feeder(x) == st.code[last[x[2]]]
        Counted(old, new) == Table([v \in DOMAIN st.uses |->
            st.uses[v] - (IF V(v) = old THEN 1 ELSE 0) + Cardinality({k \in DOMAIN new : new[k] = V(v)})])
        Become(new, old, add) ==
            FoldAddress([code |-> [st.code EXCEPT ![i] = new], uses |-> Counted(old, add)], last, i, rounds - 1)
        Based(new, x) == IF ins.op = "load" THEN [new EXCEPT !.src1 = x] ELSE [new EXCEPT !.dest = x]
        t == Feeder(base)
        u == Feeder(ins.src2)
        sum == Feeds(base) /\ t.op = "add"
        index == ins.scale # 0 /\ Feeds(ins.src2)
    IN  IF rounds = 0 \/ ins.op \notin {"load", "store"} \/ ~IsReg(base) THEN st
        ELSE CASE sum /\ IsImm(t.src2) ->
                    Become(Based([ins EXCEPT !.off = @ + t.src2[2]], t.src1), base, <<t.src1>>)
               [] sum /\ IsReg(t.src2) /\ ins.scale = 0 /\ Unchanged(t.src2, last[base[2]]) ->
                    Become(Based([ins EXCEPT !.src2 = t.src2, !.scale = 1], t.src1), base, <<t.src1, t.src2>>)
               [] index /\ u.op = "shl" /\ u.src2 \in {C(1), C(2), C(3)} /\ ins.scale * 2 ^ u.src2[2] <= 8 ->
                    Become([ins EXCEPT !.src2 = u.src1, !.scale = @ * 2 ^ u.src2[2]], ins.src2, <<u.src1>>)
               [] index /\ u.op = "add" /\ IsImm(u.src2) ->
                    Become([ins EXCEPT !.src2 = u.src1, !.off = @ + u.src2[2] * ins.scale], ins.src2, <<u.src1>>)
               [] OTHER -> st

FoldAddr(code) ==
    LET blocks == Blocks(code)
        Step(st, i) ==
            LET last == IF i \in blocks THEN <<>> ELSE st.last
                done == FoldAddress([code |-> st.code, uses |-> st.uses], last, i, 3)
                v == Def(code[i])
            IN  [code |-> done.code, uses |-> done.uses,
                 last |-> Table([w \in DOMAIN last \union ({v} \ {0}) |-> IF w = v THEN i ELSE last[w]])]
    IN  Sweep(Step, [code |-> code, uses |-> Uses(code), last |-> <<>>], Len(code)).code

-----------------------------------------------------------------------------
(* gcse: an expression is available in a register on every path; behind a  *)
(* branch its condition is known to be zero or not.                        *)

\* An element: an expression with the register that holds it.
Element(ins) == LET c == Canonical(ins)
                IN  [c EXCEPT !.cls = IF c.op \in MemoryRead THEN ReadClass(c) ELSE "any"]
IsElement(ins) == CseEligible(ins) /\ ~OwnOperand(ins)
SameExpr(x, y) == [x EXCEPT !.dest = None] = [y EXCEPT !.dest = None]

\* nn: only ever a constant >= 0, or itself and a small step more.
NonNegative(code) ==
    {v \in Registers(code) : LET defs == {i \in DOMAIN code : Def(code[i]) = v}
                             IN  defs # {} /\ \A i \in defs :
                                    \/ code[i].op = "mov" /\ IsImm(code[i].src1) /\ code[i].src1[2] >= 0
                                    \/ code[i].op = "add" /\ code[i].src1 = V(v) /\ IsImm(code[i].src2)
                                       /\ code[i].src2[2] >= 1}

Gcse(code) ==
    LET elements == {Element(code[i]) : i \in {j \in DOMAIN code : IsElement(code[j])}}
        FirstAt(e) == Min({i \in DOMAIN code : IsElement(code[i]) /\ Element(code[i]) = e})
        conditions == {code[i].src1[2] : i \in {j \in DOMAIN code : code[j].op \in CondJump /\ IsReg(code[j].src1)}}
        facts == {[fact |-> n, of |-> v] : n \in {"nonzero", "zero"}, v \in conditions}
        IsFact(x) == "fact" \in DOMAIN x
        Survives(x, ins) ==
            IF IsFact(x) THEN x.of # Def(ins)
            ELSE ~Mentions(x, Def(ins)) /\ ~(x.op \in MemoryRead /\ Disturbs(ins, x.cls))
        all == elements \union facts
        gens == Table([i \in DOMAIN code |-> IF IsElement(code[i]) THEN {Element(code[i])} ELSE {}])
        kills == Table([i \in DOMAIN code |-> {x \in all : ~Survives(x, code[i])}])
        edges == Edges(code)
        \* What a branch tells on its way e.
        Told(e) ==
            LET last == code[LastOf(code, e[1])]
            IN  IF last.op \in CondJump /\ IsReg(last.src1) /\ Cardinality({f \in edges : f[1] = e[1]}) = 2
                THEN {[fact |-> IF e[3] = (last.op = "jmp_if") THEN "nonzero" ELSE "zero", of |-> last.src1[2]]}
                ELSE {}
        steady == NonNegative(code)
        Fact(S, n, v) == [fact |-> n, of |-> v] \in S
        Known(S, v) == Fact(S, "nonzero", v) \/ Fact(S, "zero", v)
        Bounded(S, ins) ==
            /\ ins.op = "ult" /\ IsReg(ins.src1) /\ IsReg(ins.src2) /\ ins.src1[2] \in steady
            /\ \E e \in S : /\ ~IsFact(e)
                            /\ SameExpr(e, Element([ins EXCEPT !.op = "lt"]))
                            /\ Fact(S, "nonzero", e.dest[2])
        Holders(S, ins) == {e \in S : IsElement(ins) /\ ~IsFact(e) /\ SameExpr(e, Element(ins))}
        Latest(es) == CHOOSE e \in es : \A f \in es : FirstAt(f) <= FirstAt(e)
        HeldBy(S, ins, x) ==
            Mov(ins.dest, IF ins.op \in IntCmp /\ Known(S, x[2]) THEN C(Truth(Fact(S, "nonzero", x[2]))) ELSE x)
        Rewritten(S, ins) ==
            IF ins.op \in CondJump /\ IsReg(ins.src1) /\ Known(S, ins.src1[2])
            THEN Resolved(ins, Fact(S, "nonzero", ins.src1[2]))
            ELSE IF IsElement(ins) /\ Element(ins) \in S THEN Nop
            ELSE IF Bounded(S, ins) THEN Mov(ins.dest, C(1))
            ELSE IF Holders(S, ins) # {} THEN HeldBy(S, ins, Latest(Holders(S, ins)).dest)
            ELSE ins
        Past(old, S, i, new) ==
            [S |-> IF new.op = "nop" THEN S ELSE (S \ kills[i]) \union (IF new = code[i] THEN gens[i] ELSE {}),
             code |-> Append(old, new)]
        Step(in, st, i) ==
            Given(IF i \in DOMAIN in THEN in[i] ELSE st.S, LAMBDA S : Past(st.code, S, i, Rewritten(S, code[i])))
    IN  Given(OnAllPaths(code, all, {}, gens, kills, Table([e \in edges |-> Told(e)])),
              LAMBDA in : Sweep(LAMBDA st, i : Step(in, st, i), [S |-> {}, code |-> <<>>], Len(code)).code)

-----------------------------------------------------------------------------
(* dce.                                                                    *)

\* The block from b to z, backwards, when live is live behind it.
DeadFrom(code, live, b, z) ==
    LET Step(st, k) ==
            LET i == z + 1 - k
                ins == st.code[i]
                dead == Def(ins) # 0 /\ Def(ins) \notin st.live
                new == CASE dead /\ Pure(ins) -> Nop
                         [] dead /\ ins.op = "call" -> [ins EXCEPT !.dest = None]
                         [] OTHER -> ins
            IN  [code |-> [st.code EXCEPT ![i] = new], live |-> (st.live \ {Def(new)}) \union Reads(new)]
    IN  Sweep(Step, [code |-> code, live |-> live], z + 1 - b).code

Dce(code) ==
    LET in == LiveIn(code)
        blocks == Blocks(code)
        Step(c, i) == IF i \in blocks THEN DeadFrom(c, LiveOut(code, in, i), i, LastOf(code, i)) ELSE c
        Closed(swept) == IF \E i \in DOMAIN code : swept[i].op = "nop" /\ code[i].op # "nop"
                         THEN Compact(swept) ELSE swept
    IN  Closed(Sweep(Step, code, Len(code)))

-----------------------------------------------------------------------------
(* fold_movs: t = op; x = mov t  becomes  x = op.                          *)

\* The definition of t behind j in the block from b, 0 if x is touched on the
\* way.
RECURSIVE DefBehind(_, _, _, _, _)
DefBehind(code, t, x, j, b) ==
    IF j < b THEN 0
    ELSE IF Def(code[j]) = t THEN j
    ELSE IF x \in Reads(code[j]) \union {Def(code[j])} THEN 0
    ELSE DefBehind(code, t, x, j - 1, b)

FoldMovs(code) ==
    LET defs == DefsOf(code)
        Step(st, i) ==
            LET m == st.code[i]
                t == m.src1[2]
                x == m.dest[2]
                d == DefBehind(st.code, t, x, i - 1, BlockOf(code, i))
            IN  IF /\ m.op = "mov" /\ IsReg(m.src1) /\ t # x
                   /\ st.uses[t] = 1 /\ st.defs[t] = 1
                   /\ d # 0 /\ ~(st.code[d].op = "mov" /\ st.code[d].src1 = m.dest)
                THEN [code |-> [st.code EXCEPT ![d].dest = m.dest, ![i] = Nop],
                      uses |-> [st.uses EXCEPT ![t] = 0],
                      defs |-> [st.defs EXCEPT ![t] = 0, ![x] = @ + 1]]
                ELSE st
        Closed(done) == IF done = code THEN code ELSE Compact(done)
    IN  Closed(Sweep(Step, [code |-> code, uses |-> Uses(code),
                            defs |-> Table([v \in DOMAIN defs |-> Cardinality(defs[v])])], Len(code)).code)

-----------------------------------------------------------------------------
(* cleanup_cfg.                                                            *)

\* The first position from i on that is neither a label nor empty.
Real(code, i) == Min({j \in i .. Len(code) : code[j].op \notin {"label", "nop"}} \union {Len(code) + 1})
LabelsBetween(code, i, j) == {code[k].label : k \in {m \in i .. j - 1 : code[m].op = "label"}}

RECURSIVE Threaded(_, _, _)
Threaded(code, l, hops) ==
    LET at == LabelAt(code, l)
        p == Real(code, Max(at))
    IN  IF hops = 0 \/ at = {} THEN l
        ELSE IF p > Len(code) THEN l
        ELSE IF code[p].op # "jmp" \/ code[p].label = l THEN l
        ELSE Threaded(code, code[p].label, hops - 1)

RECURSIVE ReachedFrom(_, _)
ReachedFrom(edges, S) ==
    LET next == S \union {e[2] : e \in {f \in edges : f[1] \in S}}
    IN  IF next = S THEN S ELSE ReachedFrom(edges, next)

CleanupRound(code) ==
    LET Thread(c, i) == IF c[i].op \in Jump THEN [c EXCEPT ![i].label = Threaded(c, @, 8)] ELSE c
        Reached(c) ==
            Given(ReachedFrom(Edges(c), {1}),
                  LAMBDA reached : Table([i \in DOMAIN c |-> IF BlockOf(c, i) \in reached THEN c[i] ELSE Nop]))
        ToNext(c, i) == c[i].op \in Jump /\ c[i].label \in LabelsBetween(c, i + 1, Real(c, i + 1))
        Jumping(c) == Table([i \in DOMAIN c |-> IF ToNext(c, i) THEN Nop ELSE c[i]])
        Invert(c, i) ==
            LET j == Min({k \in i + 1 .. Len(c) : c[k].op # "nop"} \union {Len(c) + 1})
            IN  IF c[i].op \notin CondJump \/ j > Len(c) THEN c
                ELSE IF c[j].op = "jmp" /\ c[i].label \in LabelsBetween(c, j + 1, Real(c, j + 1))
                THEN [c EXCEPT ![i].op = IF @ = "jmp_if" THEN "jmp_unless" ELSE "jmp_if",
                               ![i].label = c[j].label, ![j] = Nop]
                ELSE c
        Used(c) == {c[i].label : i \in {j \in DOMAIN c : c[j].op \in Jump}}
        Labelled(c, used) ==
            Compact([i \in DOMAIN c |-> IF c[i].op = "label" /\ c[i].label \notin used THEN Nop ELSE c[i]])
    IN  Given(Jumping(Reached(Sweep(Thread, code, Len(code)))),
              LAMBDA c : Labelled(Sweep(Invert, c, Len(c)), Used(c)))

RECURSIVE CleanupRounds(_, _)
CleanupRounds(code, rounds) ==
    IF rounds = 0 \/ code = <<>> THEN code
    ELSE Given(CleanupRound(code), LAMBDA next : IF next = code THEN code ELSE CleanupRounds(next, rounds - 1))
CleanupCfg(code) == CleanupRounds(code, 8)
=============================================================================
