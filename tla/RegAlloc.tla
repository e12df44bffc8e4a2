------------------------------ MODULE RegAlloc ------------------------------
(***************************************************************************)
(* The whole allocator (regalloc_run in hygen/libhyregalloc/src/           *)
(* hyregalloc.c) for the integer registers: the dataflow of Liveness, then *)
(* the scan of LinearScan on the intervals it gives; and then the function *)
(* runs, with its values where the allocator put them.                     *)
(***************************************************************************)
EXTENDS Liveness, SequencesExt

CONSTANTS
    NumRegs, NumCalleeSaved, Rank,  \* see LinearScan
    Clobbers(_)                     \* clobber_mask: registers an instruction destroys

\* The mask of an instruction that only passes control on is empty.
ASSUME RegAllocAssumption ==
    /\ NumRegs \in Nat
    /\ NumCalleeSaved \in Nat
    /\ Rank \in [0 .. NumRegs - 1 -> Nat]
    /\ \A p \in Programs : \A i \in DOMAIN p :
           /\ Clobbers(p[i]) \subseteq Nat
           /\ p[i].op \in Jump \union {"label"} => Clobbers(p[i]) = {}

VARIABLES
    iv, queue, next, active, free, loc, nextSpill, csMask, csUsed, \* see LinearScan
    pc,     \* the instruction that runs next; 0 before the function runs, Len + 1 after
    intact, \* the values that still are where they were written last
    lost    \* the values that were written and are there no more

scanVars == <<iv, queue, next, active, free, loc, nextSpill, csMask, csUsed>>
runVars == <<pc, intact, lost>>
vars == <<liveVars, scanVars, runVars>>

LS == INSTANCE LinearScan WITH Inputs <- {}

Init ==
    /\ LiveInit
    /\ LS!Init
    /\ pc = 0
    /\ intact = {}
    /\ lost = {}

Dataflow == Visit /\ UNCHANGED <<scanVars, runVars>>

-----------------------------------------------------------------------------

\* "never referenced" registers have no interval.
Referenced == {v \in VReg : Touched(v) # {}}

IntervalOf(v) ==
    LET touched == Touched(v)
        inside == Inside(v)
    IN  IF touched = {}
        THEN [start |-> 0, end |-> 0, crosses |-> FALSE, weight |-> 0,
              forbid |-> {}, hint |-> {}, follow |-> {}]
        ELSE [start |-> Min(touched), end |-> Max(touched),
              crosses |-> \E i \in inside : CallLike(prog[i]),
              weight |-> Weight(v),
              forbid |-> UNION {Clobbers(prog[i]) : i \in inside},
              hint |-> Hint(v), follow |-> Follow(v)]

\* (Mutant: the scan takes the intervals in any order.)
LoadUnsorted ==
    /\ block = 0
    /\ next = 0
    /\ \E I \in {[v \in VReg |-> IntervalOf(v)]} : \E q \in SetToSeqs(Referenced) : LS!Load(I, q)
    /\ UNCHANGED <<liveVars, runVars>>

\* compute_intervals, and the sort by start that opens the scan.
LoadScan ==
    /\ block = 0
    /\ next = 0
    /\ \E I \in {[v \in VReg |-> IntervalOf(v)]} :
          \E q \in SetToSeqs(Referenced) :
              /\ \A i, j \in DOMAIN q : i <= j => I[q[i]].start <= I[q[j]].start
              /\ LS!Load(I, q)
    /\ UNCHANGED <<liveVars, runVars>>

Scan == LS!Scan /\ UNCHANGED <<liveVars, runVars>>

Allocated == next > Len(queue)

-----------------------------------------------------------------------------
(* The generated code, as far as places go.                                *)

Begin ==
    /\ next > 0
    /\ Allocated
    /\ pc = 0
    /\ pc' = 1
    /\ UNCHANGED <<liveVars, scanVars, intact, lost>>

\* The values that survive instruction ins where they are, but for its result.
Survivors(ins) ==
    {u \in intact : /\ \A w \in Writes(ins) : loc[u] # loc[w]
                    /\ loc[u].kind = "reg" => /\ loc[u].id \notin Clobbers(ins)
                                              /\ CallLike(ins) => loc[u].id < NumCalleeSaved}

Execute ==
    /\ pc \in Positions
    /\ LET ins == prog[pc] IN
          /\ pc' \in IF Succ(pc) = {} THEN {Len(prog) + 1} ELSE Succ(pc)
          /\ intact' = Survivors(ins) \union Writes(ins)
          /\ lost' = (lost \union (intact \ Survivors(ins))) \ Writes(ins)
    /\ UNCHANGED <<liveVars, scanVars>>

Next == Dataflow \/ LoadScan \/ Scan \/ Begin \/ Execute

Spec == Init /\ [][Next]_vars

\* The allocator is a sequential function: it takes its next step.
FairSpec == Spec /\ WF_vars(Dataflow \/ LoadScan \/ Scan)

-----------------------------------------------------------------------------

TypeOK ==
    /\ LiveTypeOK
    /\ LS!TypeOK
    /\ pc \in 0 .. Len(prog) + 1
    /\ intact \subseteq VReg
    /\ lost \subseteq VReg \ intact

\* What the rounds of the dataflow settle on, before the scan is loaded, is
\* exactly what the paths of the function define.
DataflowIsExact == next = 0 => LivenessIsExact

\* The intervals made from it cover what is live around every instruction.
IntervalsCover == next = 0 => IntervalsCoverLife

\* Whatever path the function takes, an instruction that reads a value finds
\* it where the value was written last: no call, divide, other value or stale
\* place has come between.  It takes the dataflow, the intervals and the scan
\* together.
ReadsOwnValue == pc \in Positions => Reads(prog[pc]) \cap lost = {}

\* One run of fetches, which the generated code does at once (MIR_GETPARAM in
\* lower_x64.c takes all of it at its first).
FetchedTogether(i, j) ==
    /\ i < j
    /\ prog[i].op = "getparam" /\ prog[j].op = "getparam"
    /\ \A k \in i .. j : prog[k].op \in {"getparam", "nop"}

\* Parameters that are received at once come to different places, as the moves
\* that receive them take for granted; but for one that is needed no more once
\* all are there, whose place the allocator may give to the next.
HomesApart ==
    next > 0 /\ Allocated =>
        \A i, j \in Positions : FetchedTogether(i, j) =>
            \A v \in Writes(prog[i]), w \in Writes(prog[j]) :
                v # w /\ Succ(j) \cap ReadAhead(v) # {} => loc[v] # loc[w]

\* The allocator comes to an end, whatever the function: the rounds of the
\* dataflow settle and the scan takes every interval once.
Terminates == <>(next > 0 /\ Allocated)
=============================================================================
