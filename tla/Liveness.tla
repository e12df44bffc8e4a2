------------------------------ MODULE Liveness ------------------------------
(***************************************************************************)
(* What the register allocator knows about a function before the scan      *)
(* (build_cfg, compute_liveness and compute_intervals in                   *)
(* hygen/libhyregalloc/src/hyregalloc.c): which operands an instruction    *)
(* reads and writes, the blocks, the backward dataflow, which is the part  *)
(* with a state, and the live intervals.                                   *)
(*                                                                         *)
(* An instruction is a record                                              *)
(*   [op, dest, src1, src2 : an opcode and virtual registers, 0 when the   *)
(*    operand is anything else; args : a sequence of those; label : the    *)
(*    label defined or jumped to, and the parameter number of a getparam;  *)
(*    scaled : the store has an index].                                    *)
(* A block is named by the position of its first instruction.              *)
(***************************************************************************)
EXTENDS Naturals, Sequences, FiniteSets, FiniteSetsExt

CONSTANTS
    VReg,       \* the virtual registers
    Programs,   \* the functions the allocator may be given
    ArgRegs     \* arg_regs: the registers of the first parameters

VARIABLES
    prog,       \* the function
    block,      \* the block the dataflow visits next; 0 when it has settled
    changed,    \* whether the current round has changed a live_in
    liveIn,     \* per block
    liveOut

liveVars == <<prog, block, changed, liveIn, liveOut>>

Operand == VReg \union {0}
Real(S) == S \ {0}

Instruction == [op : STRING, dest : Operand, src1 : Operand, src2 : Operand, args : Seq(Operand),
                label : Nat, scaled : BOOLEAN]

\* A function has an instruction at least.
ASSUME LivenessAssumption ==
    /\ IsFiniteSet(VReg) /\ 0 \notin VReg
    /\ Programs \subseteq Seq(Instruction) \ {<<>>}
    /\ ArgRegs \in Seq(Nat)

-----------------------------------------------------------------------------
(* op_shape.  Opcodes that are not listed read src1 and src2, write dest.  *)

Opaque == {"label", "jmp", "cli", "sti", "iret", "sysret", "save_regs", "restore_regs",
           "nop", "asm_raw", "asm_text"}
DestIsUse == {"store", "memset", "memcpy"}
NoDef == Opaque \union DestIsUse \union
         {"jmp_if", "jmp_unless", "ret", "outb", "wrmsr", "lgdt", "lidt", "write_cr", "ltr", "invlpg"}
NoSrc1 == Opaque \union {"lea_local", "lea_global", "alloca_local", "getparam"}
NoSrc2 == NoSrc1 \union {"jmp_if", "jmp_unless", "call", "ret", "inb", "rdmsr", "read_cr",
                         "write_cr", "ltr", "invlpg"}

UsesSrc1(ins) == ins.op \notin NoSrc1
UsesSrc2(ins) == ins.op \notin NoSrc2 /\ (ins.op = "store" => ins.scaled)

Reads(ins) ==
    Real({ins.args[a] : a \in DOMAIN ins.args}
         \union (IF UsesSrc1(ins) THEN {ins.src1} ELSE {})
         \union (IF UsesSrc2(ins) THEN {ins.src2} ELSE {})
         \union (IF ins.op \in DestIsUse THEN {ins.dest} ELSE {}))

Writes(ins) == IF ins.op \in NoDef THEN {} ELSE Real({ins.dest})

\* Instructions that destroy every caller-saved register.
CallLike(ins) == ins.op \in {"call", "syscall", "memset", "memcpy"}

-----------------------------------------------------------------------------
(* build_cfg.                                                              *)

Jump == {"jmp", "jmp_if", "jmp_unless"}
Return == {"ret", "iret", "sysret"}

Positions == DOMAIN prog
Blocks == {i \in Positions : i = 1 \/ prog[i].op = "label" \/ prog[i - 1].op \in Jump \union Return}
LastOf(b) == Min({i - 1 : i \in {j \in Blocks \union {Len(prog) + 1} : j > b}})
Body(b) == b .. LastOf(b)

\* The labels a jump at position i may go to (none when it is not defined).
Targets(i) == {t \in Positions : prog[i].op \in Jump /\ prog[t].op = "label" /\ prog[t].label = prog[i].label}

\* Where control may be after position i; a block's successors are those of
\* its last instruction.
Succ(i) == Targets(i) \union
           (IF prog[i].op \in Return \union {"jmp"} THEN {} ELSE {i + 1} \cap Positions)

-----------------------------------------------------------------------------
(* compute_liveness.                                                       *)

\* (Mutant: a value written in the block counts as read there, too.)
UpwardReads(b) == UNION {Reads(prog[i]) : i \in Body(b)}

\* Read in the block before the block writes it; written in the block.
Use(b) == {v \in VReg : \E i \in Body(b) : v \in Reads(prog[i])
                                           /\ \A j \in b .. i - 1 : v \notin Writes(prog[j])}
Def(b) == UNION {Writes(prog[i]) : i \in Body(b)}

LiveInit ==
    /\ prog \in Programs
    /\ block = Max(Blocks)
    /\ changed = FALSE
    /\ liveIn = [b \in Blocks |-> {}]
    /\ liveOut = [b \in Blocks |-> {}]

\* One visit.  Blocks are visited from the last to the first, in rounds, until
\* a round changes nothing; the round ends in the same step as its last visit.
\* (Mutants: a change is forgotten by the next visit; a round starts out as
\* changed.)
VisitWith(noticed, fresh) ==
    /\ block # 0
    /\ LET out == liveOut[block] \union UNION {liveIn[s] : s \in Succ(LastOf(block))}
           in == Use(block) \union (out \ Def(block))
           dirty == noticed \/ in # liveIn[block]
       IN  /\ liveOut' = [liveOut EXCEPT ![block] = out]
           /\ liveIn' = [liveIn EXCEPT ![block] = in]
           /\ IF block > 1
                 THEN block' = Max({b \in Blocks : b < block}) /\ changed' = dirty
                 ELSE block' = (IF dirty THEN Max(Blocks) ELSE 0) /\ changed' = fresh
    /\ UNCHANGED prog

VisitForgetting == VisitWith(FALSE, FALSE)
VisitStaysChanged == VisitWith(changed, TRUE)
Visit == VisitWith(changed, FALSE)

-----------------------------------------------------------------------------
(* compute_intervals.                                                      *)

\* Positions enclosed by a jump back to a label, one level per jump.
Depth(i) == Cardinality({j \in Positions : \E t \in Targets(j) : t <= i /\ i <= j})
DepthWeight(d) == <<1, 8, 64, 512, 4096, 32768, 262144>>[(IF d < 6 THEN d ELSE 6) + 1]

\* Every occurrence of v at position i that counts as a use or a definition.
Occurrences(v, i) ==
    LET ins == prog[i] IN
    Cardinality({a \in DOMAIN ins.args : ins.args[a] = v})
    + (IF v = ins.src1 /\ UsesSrc1(ins) THEN 1 ELSE 0)
    + (IF v = ins.src2 /\ UsesSrc2(ins) THEN 1 ELSE 0)
    + (IF v = ins.dest /\ (ins.op \in DestIsUse \/ ins.op \notin NoDef) THEN 1 ELSE 0)

WeightUpTo(v) ==
    LET W[i \in 0 .. Len(prog)] == IF i = 0 THEN 0 ELSE W[i - 1] + Occurrences(v, i) * DepthWeight(Depth(i))
    IN  W
Weight(v) == WeightUpTo(v)[Len(prog)]

\* The positions an interval has to span: the occurrences, the edges of the
\* blocks the value is live at.
\* (Mutant: a value that is live out of a block reaches its last use there.)
TouchedInside(v) == {i \in Positions : v \in Reads(prog[i]) \union Writes(prog[i])}
                    \union {b \in Blocks : v \in liveIn[b]}
Touched(v) == {i \in Positions : v \in Reads(prog[i]) \union Writes(prog[i])}
              \union {b \in Blocks : v \in liveIn[b]}
              \union {LastOf(b) : b \in {c \in Blocks : v \in liveOut[c]}}

\* Strictly inside: the value must survive what happens there.
\* (Mutant: one instruction too few.)
InsideButOne(v) == Min(Touched(v)) + 1 .. Max(Touched(v)) - 2
Inside(v) == Min(Touched(v)) + 1 .. Max(Touched(v)) - 1

\* Hints: the first register a call or a parameter asks for stays; without
\* one, the last move partner counts.
AskedAt(v, i) ==
    IF prog[i].op = "call"
    THEN {ArgRegs[a] : a \in {b \in DOMAIN prog[i].args \cap DOMAIN ArgRegs :
                                 /\ prog[i].args[b] = v
                                 /\ \A c \in DOMAIN ArgRegs : c < b => prog[i].args[c] # v}}
    ELSE {ArgRegs[a] : a \in {b \in DOMAIN ArgRegs : prog[i].op = "getparam" /\ prog[i].dest = v
                                                     /\ prog[i].label = b}}
Hint(v) == LET asked == {i \in Positions : AskedAt(v, i) # {}}
           IN  IF asked = {} THEN {} ELSE AskedAt(v, Min(asked))

Moves(v) == {i \in Positions : prog[i].op = "mov" /\ v \in {prog[i].dest, prog[i].src1}
                               /\ 0 \notin {prog[i].dest, prog[i].src1}}
PartnerAt(v, i) == IF prog[i].src1 = v THEN prog[i].dest ELSE prog[i].src1
Follow(v) == IF Hint(v) # {} \/ Moves(v) = {} THEN {} ELSE {PartnerAt(v, Max(Moves(v)))}

-----------------------------------------------------------------------------

LiveSpec == LiveInit /\ [][Visit]_liveVars

LiveTypeOK ==
    /\ prog \in Programs
    /\ block \in Blocks \union {0}
    /\ changed \in BOOLEAN
    /\ liveIn \in [Blocks -> SUBSET VReg]
    /\ liveOut \in [Blocks -> SUBSET VReg]

\* The positions from which some path reads v before it writes it: liveness as
\* it is defined, one instruction at a time, by the length of the path.
Before(v, ahead) ==
    {i \in Positions : \/ v \in Reads(prog[i])
                       \/ v \notin Writes(prog[i]) /\ Succ(i) \cap ahead # {}}
ReadWithin(v) == LET R[k \in Nat] == IF k = 0 THEN {} ELSE Before(v, R[k - 1]) IN R
ReadAhead(v) == ReadWithin(v)[Len(prog)]

\* The dataflow neither misses a value that is still needed nor keeps one that
\* is not: when it has settled, live_in is exactly liveness by paths.  A round
\* that ends too early, or a visit that counts a read behind a write, breaks it.
LivenessIsExact ==
    block = 0 => \A b \in Blocks : liveIn[b] = {v \in VReg : b \in ReadAhead(v)}

\* A value needed on both sides of an instruction has that instruction strictly
\* inside its interval, so that what the instruction destroys is kept away from
\* it; also around the back edges of loops, where it is read at an earlier
\* position than it is written.  (Where nothing leads to, at the beginning and
\* behind a return, nobody comes with a value.)
IntervalsCoverLife ==
    block = 0 => \A v \in VReg : LET ahead == ReadAhead(v) IN
        \A i \in ahead \cap UNION {Succ(j) : j \in Positions} :
            v \notin Writes(prog[i]) /\ Succ(i) \cap ahead # {}
                => i \in Inside(v) \/ prog[i].op \in Jump \union {"label"}
=============================================================================
