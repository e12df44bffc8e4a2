------------------------------ MODULE ParMoves ------------------------------
(***************************************************************************)
(* emit_par_moves in hygen/libhyx64/src/lower_x64.c: the code that puts    *)
(* the arguments of a call, or the incoming parameters, where they belong, *)
(* all "at once".  It orders the moves so that no source is overwritten    *)
(* before it is read, and rotates cycles with xchg.                        *)
(*                                                                         *)
(* A register or memory slot starts out holding its own name, so that a    *)
(* value tells where it came from; rax, the scratch register, is neither a *)
(* source nor a destination.  One action is one iteration of a loop, which *)
(* emits at most one move; the moves take effect as they are emitted.      *)
(***************************************************************************)
EXTENDS Naturals, Sequences, FiniteSets

CONSTANTS
    Reg,    \* registers
    Mem,    \* memory slots
    Imm,    \* immediate values
    Lists   \* the lists of moves [dst, src] it may be given

Place == Reg \union Mem
Value == Place \union Imm

\* Destinations differ, and no memory slot is both read and written: stack
\* arguments are read, spill slots of parameters are written.
WellFormed(l) ==
    /\ l \in Seq([dst : Place, src : Value])
    /\ \A i, j \in DOMAIN l : i # j => l[i].dst # l[j].dst
    /\ \A i, j \in DOMAIN l : l[i].src \in Mem => l[j].dst # l[i].src

ASSUME MovesAssumption ==
    /\ Reg \cap Mem = {}
    /\ Place \cap Imm = {}
    /\ \A l \in Lists : WellFormed(l)

VARIABLES
    moves,      \* the list, as it was given
    src,        \* the source of each move now: a rotation renames sources
    done,       \* the moves that need nothing any more
    val,        \* what each place holds
    phase,      \* the loop: "mem", "reg", "load" and then "end"
    i,          \* its index
    progress    \* whether this pass over the register moves emitted any

vars == <<moves, src, done, val, phase, i, progress>>

Index == DOMAIN moves
dst(j) == moves[j].dst

\* Register moves that are still to be made.
Pending == {j \in Index \ done : src[j] \in Reg}

Init ==
    /\ moves \in Lists
    /\ src = [j \in Index |-> moves[j].src]
    /\ done = {}
    /\ val = [p \in Place |-> p]
    /\ phase = "mem"
    /\ i = 1
    /\ progress = FALSE

\* What a source yields when it is read now.
Read(s) == IF s \in Imm THEN s ELSE val[s]

Emit(j) ==
    /\ val' = [val EXCEPT ![dst(j)] = Read(src[j])]
    /\ done' = done \union {j}

-----------------------------------------------------------------------------

\* "memory destinations first: they only read registers"
StoreMem ==
    /\ phase = "mem"
    /\ i \in Index
    /\ IF dst(i) \in Mem THEN Emit(i) ELSE UNCHANGED <<val, done>>
    /\ i' = i + 1
    /\ UNCHANGED <<moves, src, phase, progress>>

\* Moves of a register to itself are done; the passes begin.
MarkSelf ==
    /\ phase = "mem"
    /\ i \notin Index
    /\ done' = done \union {j \in Pending : src[j] = dst(j)}
    /\ phase' = "reg"
    /\ i' = 1
    /\ UNCHANGED <<moves, src, val, progress>>

\* (Mutant: only the moves that come later in the list are looked at.)
BlockedByLater(j) == \E k \in Pending : k > j /\ src[k] = dst(j)

Blocked(j) == \E k \in Pending \ {j} : src[k] = dst(j)

MoveReg ==
    /\ phase = "reg"
    /\ i \in Index
    /\ IF i \in Pending /\ ~Blocked(i)
          THEN Emit(i) /\ progress' = TRUE
          ELSE UNCHANGED <<val, done, progress>>
    /\ i' = i + 1
    /\ UNCHANGED <<moves, src, phase>>

\* (Mutant: progress is not reset.)
NextPassKeepsProgress ==
    /\ phase = "reg"
    /\ i \notin Index
    /\ progress
    /\ i' = 1
    /\ UNCHANGED <<moves, src, done, val, phase, progress>>

NextPass ==
    /\ phase = "reg"
    /\ i \notin Index
    /\ progress
    /\ i' = 1
    /\ progress' = FALSE
    /\ UNCHANGED <<moves, src, done, val, phase>>

\* "only cycles are left: rotate one with xchg": the first pending move is made,
\* the pending moves that read either register now read the other one.
Rotate ==
    /\ phase = "reg"
    /\ i \notin Index
    /\ ~progress
    /\ \E j \in Pending :
          LET d == dst(j)
              s == src[j]
              swap(x) == IF x = d THEN s ELSE IF x = s THEN d ELSE x
              others == Pending \ {j}
          IN  /\ \A k \in Pending : j <= k
              /\ val' = [val EXCEPT ![d] = val[s], ![s] = val[d]]
              /\ src' = [k \in Index |-> IF k \in others THEN swap(src[k]) ELSE src[k]]
              /\ done' = done \union {j} \union {k \in others : src'[k] = dst(k)}
    /\ i' = 1
    /\ UNCHANGED <<moves, phase, progress>>

AllMoved ==
    /\ phase = "reg"
    /\ i \notin Index
    /\ ~progress
    /\ Pending = {}
    /\ phase' = "load"
    /\ i' = 1
    /\ UNCHANGED <<moves, src, done, val, progress>>

\* Constants and memory come last: they read no register.
Load ==
    /\ phase = "load"
    /\ i \in Index
    /\ IF i \notin done THEN Emit(i) ELSE UNCHANGED <<val, done>>
    /\ i' = i + 1
    /\ UNCHANGED <<moves, src, phase, progress>>

\* (Mutant: constants and memory are not waited for.)
FinishEarly ==
    /\ phase \in {"reg", "load"}
    /\ i \notin Index
    /\ phase' = "end"
    /\ UNCHANGED <<moves, src, done, val, i, progress>>

Finish ==
    /\ phase = "load"
    /\ i \notin Index
    /\ phase' = "end"
    /\ UNCHANGED <<moves, src, done, val, i, progress>>

Next == StoreMem \/ MarkSelf \/ MoveReg \/ NextPass \/ Rotate \/ AllMoved \/ Load \/ Finish

Spec == Init /\ [][Next]_vars

\* emit_par_moves is a sequential function: it goes on.
FairSpec == Spec /\ WF_vars(Next)

-----------------------------------------------------------------------------

TypeOK ==
    /\ WellFormed(moves)
    /\ src \in [Index -> Value]
    /\ done \subseteq Index
    /\ val \in [Place -> Value]
    /\ phase \in {"mem", "reg", "load", "end"}
    /\ i \in 1 .. Len(moves) + 1
    /\ progress \in BOOLEAN

\* In the end every destination holds what its source held in the beginning,
\* as if all moves had been made at once, and nothing else has changed: the
\* registers of values that live on, and the memory, are as they were.
AtOnce ==
    phase = "end" => /\ \A j \in Index : val[dst(j)] = moves[j].src
                     /\ \A p \in Place : (\A j \in Index : dst(j) # p) => val[p] = p

\* At any time what a move still has to read is where it will look for it: no
\* move, store or rotation has destroyed a value that somebody waits for.
SourcesWait == \A j \in Index \ done : Read(src[j]) = moves[j].src

\* Moves that are not done are done eventually: passes and rotations end.
EndsEventually == <>(phase = "end")
=============================================================================
