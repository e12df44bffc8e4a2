----------------------------- MODULE LoopPasses -----------------------------
(***************************************************************************)
(* The passes of hygen/libhyopt/src/hyopt.c that hyopt_func makes once,    *)
(* between the runs of scalar_fixpoint: known array lengths and bounds     *)
(* checks by ranges, if-conversion, loop rotation, invariant code motion   *)
(* and strength reduction.                                                 *)
(***************************************************************************)
EXTENDS ScalarPasses

JumpsTo(code, l) == {i \in DOMAIN code : code[i].op \in Jump /\ code[i].label = l}
\* The last position before i that is not empty, 0 when there is none.
Before(code, i) == Max({j \in 1 .. i - 1 : code[j].op # "nop"} \union {0})

-----------------------------------------------------------------------------
(* known_arr_len: the length of a local array whose header is only read.   *)

KnownArrLen(code) ==
    LET defs == DefsOf(code)
        escapes == UNION {Reads(code[i]) : i \in {j \in DOMAIN code : code[j].op \notin ArrayHeader}}
        Maker(a) == code[CHOOSE i \in defs[a] : TRUE]
        Local(x) == /\ IsReg(x) /\ Cardinality(defs[x[2]]) = 1 /\ x[2] \notin escapes
                    /\ LET c == Maker(x[2])
                       IN  /\ c.op = "call" /\ c.callee = "hylian_array_zeros"
                           /\ Len(c.args) = 1 /\ IsImm(c.args[1]) /\ c.args[1][2] >= 0
    IN  [i \in DOMAIN code |-> IF code[i].op = "arr_len" /\ Local(code[i].src1)
                               THEN Mov(code[i].dest, Maker(code[i].src1[2]).args[1]) ELSE code[i]]

-----------------------------------------------------------------------------
(* range_bce: in a counted loop the counter has a range.                   *)

\* rng_val, rng_binop: a range is <<lo, hi>>, or <<>> when nothing is known.
RangeOfOp(op, a, b) ==
    LET ends == CASE op = "add" -> {a[1] + b[1], a[2] + b[2]}
                  [] op = "sub" -> {a[1] - b[2], a[2] - b[1]}
                  [] op = "mul" -> {a[i] * b[j] : i \in 1 .. 2, j \in 1 .. 2}
    IN  IF a = <<>> \/ b = <<>> THEN <<>>
        ELSE IF \E e \in ends : Wrap(e) # e THEN <<>> ELSE <<Min(ends), Max(ends)>>

RECURSIVE RangeOf(_, _, _, _, _, _)
RangeOf(code, ivs, defs, x, at, depth) ==
    LET v == x[2]
        here == {iv \in ivs : iv.v = v /\ at \in iv.head + 1 .. iv.add - 1}
        i == CHOOSE d \in defs[v] : TRUE
        d == code[i]
        Source(y) == RangeOf(code, ivs, defs, y, i, depth + 1)
    IN  CASE IsImm(x) -> <<v, v>>
          [] IsReg(x) /\ depth <= 10 /\ here # {} ->
                LET iv == CHOOSE f \in here : \A g \in here : f.add <= g.add IN <<iv.lo, iv.hi>>
          [] IsReg(x) /\ depth <= 10 /\ here = {} /\ Cardinality(defs[v]) = 1 ->
                CASE d.op = "mov" -> Source(d.src1)
                  [] d.op \in {"add", "sub", "mul"} -> RangeOfOp(d.op, Source(d.src1), Source(d.src2))
                  [] d.op = "and" /\ IsImm(d.src2) /\ d.src2[2] >= 0 -> <<0, d.src2[2]>>
                  [] OTHER -> <<>>
          [] OTHER -> <<>>

\* The value v has above p: set by the nearest definition, behind empty places
\* and other constants.  A set of one number, or none.
RECURSIVE EntryValue(_, _, _)
EntryValue(code, v, p) ==
    IF p = 0 THEN {}
    ELSE LET ins == code[p]
         IN  CASE ins.op = "nop" \/ (ins.op = "mov" /\ ins.dest # V(v) /\ IsImm(ins.src1)) ->
                     EntryValue(code, v, p - 1)
               [] ins.op = "mov" /\ ins.dest = V(v) /\ IsImm(ins.src1) -> {ins.src1[2]}
               [] OTHER -> {}

\* find_ivs: mov v, lo; L: ... add v, v, step; lt t, v, N; jmp_if L, t.
FindIvs(code) ==
    LET Counted(jb) ==
            LET cm == Before(code, jb)
                ad == Before(code, cm)
                v == code[cm].src1[2]
                head == Max(LabelAt(code, code[jb].label))
                N == code[cm].src2[2]
                lo == EntryValue(code, v, head - 1)
            IN  IF /\ code[jb].op = "jmp_if" /\ IsReg(code[jb].src1) /\ cm # 0 /\ ad # 0
                   /\ code[cm].op = "lt" /\ code[cm].dest = code[jb].src1
                   /\ IsReg(code[cm].src1) /\ IsImm(code[cm].src2)
                   /\ code[ad].op = "add" /\ code[ad].dest = V(v) /\ code[ad].src1 = V(v)
                   /\ IsImm(code[ad].src2) /\ code[ad].src2[2] > 0
                   /\ LabelAt(code, code[jb].label) # {} /\ head <= ad
                   /\ Cardinality(JumpsTo(code, code[jb].label)) = 1
                   /\ \A c \in lo : c < N
                   /\ \A i \in head + 1 .. ad - 1 : Def(code[i]) # v
                THEN {[v |-> v, head |-> head, add |-> ad, lo |-> c, hi |-> N - 1] : c \in lo} ELSE {}
    IN  UNION {Counted(jb) : jb \in DOMAIN code}

RangeBce(code) ==
    LET Below(x, y) == x # <<>> /\ y # <<>> /\ x[1] >= 0 /\ x[2] < y[1]
        Holds(ivs, defs, i) == /\ ivs # {} /\ code[i].op = "ult"
                               /\ Below(RangeOf(code, ivs, defs, code[i].src1, i, 0),
                                        RangeOf(code, ivs, defs, code[i].src2, i, 0))
        With(ivs, defs) == [i \in DOMAIN code |-> IF Holds(ivs, defs, i) THEN Mov(code[i].dest, C(1)) ELSE code[i]]
    IN  With(FindIvs(code), DefsOf(code))

-----------------------------------------------------------------------------
(* if_convert: a branch around a few cheap instructions becomes SELECTs.   *)

\* arm_cost.
MayRunAnyway(ins) == ins.op \in Binary \union {"nop", "mov", "neg", "select"}
Count(code, a, z) == Cardinality({i \in a .. z - 1 : code[i].op # "nop"})
ArmCost(code, a, z) == Count(code, a, z) + 2 * Cardinality({i \in a .. z - 1 : code[i].op = "mul"})
ArmEnd(code, a) == Min({i \in a .. Len(code) : code[i].op \in Terminator \union {"label"}} \union {Len(code) + 1})
Arm(code, a) == [from |-> a, to |-> ArmEnd(code, a)]
NoArm == [from |-> 1, to |-> 1]
DefinedIn(code, arm) == {Def(code[i]) : i \in arm.from .. arm.to - 1} \ {0}

\* copy_arm: the arm with what it defines of V in fresh registers.  (The code
\* looks the names up through a pointer it took before it let the table grow,
\* hyopt.c:2385 and 2394; here they are looked up in the table as it is.)
CopyArm(code, arm, values, fresh) ==
    LET Step(st, k) ==
            LET ins == Substitute(code[arm.from + k - 1],
                                  LAMBDA x : IF x[2] \in DOMAIN st.names THEN V(st.names[x[2]]) ELSE x)
                v == Def(ins)
            IN  IF ins.op = "nop" THEN st
                ELSE IF v \in values
                THEN [code |-> Append(st.code, [ins EXCEPT !.dest = V(st.fresh)]), fresh |-> st.fresh + 1,
                      names |-> Table([w \in DOMAIN st.names \union {v} |-> IF w = v THEN st.fresh ELSE st.names[w]])]
                ELSE [st EXCEPT !.code = Append(@, ins)]
    IN  Sweep(Step, [code |-> <<>>, names |-> <<>>, fresh |-> fresh], arm.to - arm.from)

\* The shape around the branch at i: its one or two arms and where they meet.
IfShape(code, i) ==
    LET one == Arm(code, i + 1)
        q == Min({j \in one.to + 1 .. Len(code) : code[j].op # "nop"} \union {Len(code)})
        other == Arm(code, q + 1)
        Cheap(arm) == /\ \A j \in arm.from .. arm.to - 1 : MayRunAnyway(code[j])
                      /\ Count(code, arm.from, arm.to) <= 6
        cost == ArmCost(code, one.from, one.to)
        here == code[i].label
        IsLabel(j, l) == code[j].op = "label" /\ code[j].label = l
    IN  IF ~(/\ code[i].op \in CondJump /\ IsReg(code[i].src1) /\ one.to <= Len(code)
             /\ Cheap(one) /\ Count(code, one.from, one.to) # 0 /\ cost <= 8) THEN {}
        ELSE IF IsLabel(one.to, here) THEN {[one |-> one, other |-> NoArm, end |-> one.to]}
        ELSE IF /\ code[one.to].op = "jmp" /\ IsLabel(q, here) /\ other.to <= Len(code)
                /\ Cheap(other) /\ IsLabel(other.to, code[one.to].label)
                /\ cost + ArmCost(code, other.from, other.to) <= 9
                /\ Cardinality(JumpsTo(code, here)) = 1
        THEN {[one |-> one, other |-> other, end |-> other.to]}
        ELSE {}

\* What the arms define that is live where they meet.
JoinValues(code, in, s) ==
    (DefinedIn(code, s.one) \union DefinedIn(code, s.other)) \cap in[BlockOf(code, s.end)]
Convertible(code, in, i) ==
    {s \in IfShape(code, i) : /\ code[i].src1[2] \notin DefinedIn(code, s.one) \union DefinedIn(code, s.other)
                              /\ Cardinality(JoinValues(code, in, s)) \in 1 .. 3}

\* The branch at i with shape s, given the arms once they are copied.
Joined(code, i, s, values, one, other) ==
    LET cond == code[i].src1
        inner == (DefinedIn(code, s.one) \union DefinedIn(code, s.other)) \ values
        prev == Before(code, i)
        move == /\ prev # 0 /\ UsesFrom(code, cond[2], 1) = 1 /\ code[prev].dest = cond
                /\ code[prev].op \in IntCmp /\ Reads(code[prev]) \cap inner = {}
        Final(arm, v) == IF v \in DOMAIN arm.names THEN V(arm.names[v]) ELSE V(v)
        Select(v) == LET first == Final(one, v)
                         second == Final(other, v)
                         whenTrue == code[i].op = "jmp_unless"
                     IN  [Instr("select", V(v), cond, IF whenTrue THEN first ELSE second)
                             EXCEPT !.args = <<IF whenTrue THEN second ELSE first>>]
        order == Ascending(values)
    IN  SubSeq(code, 1, (IF move THEN prev ELSE i) - 1) \o one.code \o other.code
        \o (IF move THEN <<code[prev]>> ELSE <<>>)
        \o [k \in DOMAIN order |-> Select(order[k])]
        \o SubSeq(code, s.end, Len(code))

ConvertAt(code, in, i) ==
    LET With(s, values) ==
            Given(CopyArm(code, s.one, values, FreshReg(code)),
                  LAMBDA one : Joined(code, i, s, values, one, CopyArm(code, s.other, values, one.fresh)))
    IN  Given(CHOOSE t \in Convertible(code, in, i) : TRUE, LAMBDA s : With(s, JoinValues(code, in, s)))

RECURSIVE IfConvertUpTo(_, _)
IfConvertUpTo(code, times) ==
    LET From(in, at) ==
            IF times = 0 \/ at = {} THEN code ELSE IfConvertUpTo(ConvertAt(code, in, Min(at)), times - 1)
    IN  Given(LiveIn(code), LAMBDA in : From(in, {i \in DOMAIN code : Convertible(code, in, i) # {}}))
IfConvert(code) == IfConvertUpTo(code, 32)

-----------------------------------------------------------------------------
(* rotate_loops: the test of a loop is repeated where it jumps back.       *)

\* The branch that ends the straight-line header behind the label at h.
HeaderBranch(code, h, j) ==
    LET stops == {k \in h + 1 .. j - 1 : code[k].op \in Terminator \union {"label", "call"}}
        k == Min(stops)
    IN  IF stops = {} THEN 0
        ELSE IF code[k].op \in CondJump /\ Count(code, h + 1, k) <= 10 THEN k ELSE 0

RotateLoops(code) ==
    LET HeadOf(j) == Max(LabelAt(code, code[j].label) \union {0})
        BranchOf(j) == HeaderBranch(code, HeadOf(j), j)
        IsSite(j) == /\ code[j].op = "jmp" /\ HeadOf(j) \in 1 .. j - 1 /\ BranchOf(j) # 0
                     /\ Max(LabelAt(code, code[BranchOf(j)].label) \union {0}) > j
        sites == {j \in DOMAIN code : IsSite(j)}
        First(h) == Min({j \in sites : HeadOf(j) = h})
        heads == {HeadOf(j) : j \in sites}
        body == Table([h \in heads |-> FreshLabel(code) + Cardinality({g \in heads : First(g) < First(h)})])
        Behind(i) == {h \in heads : BranchOf(First(h)) + 1 = i}
        Repeated(j) == LET b == code[BranchOf(j)]
                       IN  Compact(SubSeq(code, HeadOf(j) + 1, BranchOf(j) - 1))
                           \o <<[b EXCEPT !.op = IF @ = "jmp_if" THEN "jmp_unless" ELSE "jmp_if",
                                          !.label = body[HeadOf(j)]],
                                Jmp(b.label)>>
        Step(out, i) == out \o (IF Behind(i) = {} THEN <<>> ELSE <<Label(body[Max(Behind(i))])>>)
                            \o (IF i \in sites THEN Repeated(i) ELSE <<code[i]>>)
    IN  IF sites = {} THEN code ELSE Sweep(Step, <<>>, Len(code))

-----------------------------------------------------------------------------
(* dom_build and find_loops.                                               *)

RECURSIVE LoopBody(_, _, _)
LoopBody(edges, h, S) ==
    LET next == S \union {e[1] : e \in {f \in edges : f[2] \in S \ {h}}}
    IN  IF next = S THEN S ELSE LoopBody(edges, h, next)

\* The loops with a label to put code in front of, and no way into it from the
\* loop by falling through.
FindLoops(code) ==
    LET blocks == Blocks(code)
        edges == Edges(code)
        above == OnAllPaths(code, blocks, blocks, Table([i \in DOMAIN code |-> {i} \cap blocks]),
                            Table([i \in DOMAIN code |-> {}]), Table([e \in edges |-> {}]))
        Back(h) == {e[1] : e \in {f \in edges : f[2] = h /\ h \in above[f[1]] \union {f[1]}}}
        Loop(h, back) == [head |-> h, body |-> LoopBody(edges, h, back \union {h}), found |-> Min(back)]
        Loops(backs) == {Loop(h, backs[h]) : h \in {b \in blocks : backs[b] # {}}}
    IN  Loops(Table([h \in blocks |-> Back(h)]))

Suited(code, loop) ==
    LET h == loop.head
    IN  ~(h > 1 /\ BlockOf(code, h - 1) \in loop.body /\ code[h - 1].op \notin {"jmp", "ret"})
InLoop(code, loop) == {i \in DOMAIN code : BlockOf(code, i) \in loop.body}
DefsInLoop(code, loop) ==
    Table([v \in Registers(code) |-> {i \in InLoop(code, loop) : Def(code[i]) = v}])

\* The code with pre in front of the loop, where jumps from outside now go, and
\* Piece(i) in the place of instruction i.
WithPreheader(code, loop, pre, Piece(_)) ==
    LET label == FreshLabel(code)
        In == InLoop(code, loop)
        Outside(ins, i) == IF /\ ins.op \in Jump /\ i \notin In
                              /\ code[loop.head].op = "label" /\ ins.label = code[loop.head].label
                           THEN [ins EXCEPT !.label = label] ELSE ins
        Step(out, i) == out \o (IF i = loop.head THEN <<Label(label)>> \o pre ELSE <<>>)
                            \o [k \in DOMAIN Piece(i) |-> Outside(Piece(i)[k], i)]
    IN  Sweep(Step, <<>>, Len(code))

-----------------------------------------------------------------------------
(* licm.                                                                   *)

Movable(ins) == ins.op \in Binary \union ArrayHeader \union {"neg"}

\* Everything that can be hoisted, given what already is.
RECURSIVE Hoistable(_, _, _, _, _)
Hoistable(code, loop, defs, live, H) ==
    LET in == InLoop(code, loop)
        headersChange == \E i \in in : code[i].op = "call" \/ (code[i].op = "store" /\ code[i].cls # "elem")
        next == {i \in in : /\ Movable(code[i])
                            /\ Cardinality(defs[Def(code[i])]) = 1 /\ Def(code[i]) \notin live
                            /\ ~(code[i].op \in ArrayHeader /\ headersChange)
                            /\ \A v \in Reads(code[i]) : defs[v] = {} \/ defs[v] \cap H # {}}
    IN  IF next = H THEN H ELSE Hoistable(code, loop, defs, live, next)

LicmLoop(code, loop) ==
    LET Hoisted(H, order) ==
            IF H = {} THEN code
            ELSE WithPreheader(code, loop, [k \in DOMAIN order |-> code[order[k]]],
                               LAMBDA i : IF i \in H THEN <<>> ELSE <<code[i]>>)
    IN  IF Suited(code, loop) /\ (code[loop.head].op = "label" \/ loop.head = 1)
        THEN Given(Hoistable(code, loop, DefsInLoop(code, loop), LiveIn(code)[loop.head], {}),
                   LAMBDA H : Hoisted(H, Ascending(H)))
        ELSE code

\* Innermost first, one loop a round.
RECURSIVE LicmRounds(_, _)
LicmRounds(code, rounds) ==
    LET Inner(ready) == CHOOSE l \in ready : \A m \in ready : Cardinality(l.body) <= Cardinality(m.body)
        From(ready) ==
            IF rounds = 0 \/ ready = {} THEN code ELSE LicmRounds(LicmLoop(code, Inner(ready)), rounds - 1)
    IN  From({l \in FindLoops(code) : LicmLoop(code, l) # code})
Licm(code) == LicmRounds(code, 12)

-----------------------------------------------------------------------------
(* strength_reduce: t = i * k in a loop that steps i becomes a counter.    *)

\* sr_loop.  Of a multiplication of a counter at i: the counter, the factor,
\* where it steps and by how much.
Candidate(code, defs, i) ==
    LET ins == code[i]
        iv == IF IsReg(ins.src1) THEN ins.src1 ELSE ins.src2
        k == IF IsReg(ins.src1) THEN ins.src2 ELSE ins.src1
        at == CHOOSE j \in defs[iv[2]] : TRUE
        inc == code[at]
    IN  IF /\ ins.op = "mul" /\ IsReg(iv) /\ IsImm(k) /\ Cardinality(defs[Def(ins)]) = 1
           /\ Cardinality(defs[iv[2]]) = 1
           /\ inc.op \in {"add", "sub"} /\ inc.src1 = iv /\ IsImm(inc.src2)
        THEN {[iv |-> iv, k |-> k[2], at |-> at,
               step |-> IF inc.op = "add" THEN inc.src2[2] ELSE -inc.src2[2]]}
        ELSE {}

SrLoop(code, loop) ==
    LET defs == DefsInLoop(code, loop)
        In == InLoop(code, loop)
        FirstAt(of, c) == Min({i \in DOMAIN of : c \in of[i]})
        Piece(of, counter, order, i) ==
            (IF of[i] = {} THEN <<code[i]>> ELSE <<Mov(code[i].dest, counter[CHOOSE c \in of[i] : TRUE])>>)
            \o LET here == SelectSeq(order, LAMBDA c : c.at = i)
               IN  [k \in DOMAIN here |->
                       Instr("add", counter[here[k]], counter[here[k]], C(Wrap(here[k].step * here[k].k)))]
        Reduced(of, counter, order) ==
            WithPreheader(code, loop,
                          [k \in DOMAIN order |-> Instr("mul", counter[order[k]], order[k].iv, C(order[k].k))],
                          LAMBDA i : Piece(of, counter, order, i))
        With(of, all) ==
            IF all = {} \/ ~Suited(code, loop) \/ code[loop.head].op # "label" THEN code
            ELSE Reduced(of, Table([c \in all |-> V(FreshReg(code) + FirstAt(of, c))]),
                         OrderedBy(all, LAMBDA c : FirstAt(of, c)))
    IN  Given(Table([i \in DOMAIN code |-> IF i \in In THEN Candidate(code, defs, i) ELSE {}]),
              LAMBDA of : With(of, UNION {of[i] : i \in DOMAIN of}))

RECURSIVE SrRounds(_, _)
SrRounds(code, rounds) ==
    LET First(ready) == CHOOSE l \in ready : \A m \in ready : l.found <= m.found
        From(ready) == IF rounds = 0 \/ ready = {} THEN code ELSE SrRounds(SrLoop(code, First(ready)), rounds - 1)
    IN  From({l \in FindLoops(code) : SrLoop(code, l) # code})
StrengthReduce(code) == SrRounds(code, 12)
=============================================================================
