----------------------------- MODULE LinearScan -----------------------------
(***************************************************************************)
(* The register allocator's scan over live intervals, one register class   *)
(* at a time (linear_scan_class in hygen/libhyregalloc/src/hyregalloc.c).  *)
(*                                                                         *)
(* Intervals come sorted by start, in any order among equals (qsort is not *)
(* stable).  One action is one iteration of the loop: expire, then take a  *)
(* free register, or evict the cheapest interval in the way, or spill the  *)
(* current one.  free_regs is a set, since the code only ever looks a      *)
(* register up in it by number; `active` is a set too, so that which of    *)
(* several equally cheap victims goes is left open.                        *)
(***************************************************************************)
EXTENDS Naturals, Sequences, Functions

CONSTANTS
    VReg,           \* the virtual registers of the class that have an interval
    NumRegs,        \* num_regs; registers are 0 .. NumRegs - 1
    NumCalleeSaved, \* num_callee_saved: the first so many survive a call
    Rank,           \* position of each register in the preference order
    Inputs          \* the interval lists the scan may be given

Regs == 0 .. NumRegs - 1

\* An interval: the positions it spans, whether a call lies strictly inside,
\* its use count weighted by loop depth, the registers that instructions
\* strictly inside destroy, and the hint: a register, or a move partner whose
\* register to follow (`pref`; at most one of the two sets has an element).
Interval == [start : Nat, end : Nat, crosses : BOOLEAN, weight : Nat,
             forbid : SUBSET Nat, hint : SUBSET Nat, follow : SUBSET VReg]

\* What compute_intervals and qsort promise of a list.
WellFormed(I, q) ==
    /\ I \in [VReg -> Interval]
    /\ \A v \in VReg : I[v].start <= I[v].end
    /\ q \in Seq(VReg)
    /\ IsInjective(q)
    /\ \A i, j \in 1 .. Len(q) : i <= j => I[q[i]].start <= I[q[j]].start

ASSUME ScanAssumption ==
    /\ NumRegs \in Nat
    /\ NumCalleeSaved \in Nat
    /\ Rank \in [Regs -> Nat]
    /\ \A in \in Inputs : WellFormed(in.iv, in.queue)

VARIABLES
    iv,         \* the interval of each virtual register
    queue,      \* the intervals in the order of the scan
    next,       \* the iteration; 0 before there is a list
    active,     \* who occupies which register now: records [v, reg]
    free,       \* free_regs
    loc,        \* out_locs and assigned: where each virtual register lives
    nextSpill,  \* next_spill
    csMask,     \* g_cs_mask: the callee-saved registers handed out
    csUsed      \* callee_saved_used: the highest of them, plus one

vars == <<iv, queue, next, active, free, loc, nextSpill, csMask, csUsed>>

InReg(r) == [kind |-> "reg", id |-> r]
InSlot(s) == [kind |-> "spill", id |-> s]
Nowhere == [kind |-> "none", id |-> 0]

Init ==
    /\ iv = [v \in VReg |-> [start |-> 0, end |-> 0, crosses |-> FALSE, weight |-> 0,
                             forbid |-> {}, hint |-> {}, follow |-> {}]]
    /\ queue = <<>>
    /\ next = 0
    /\ active = {}
    /\ free = Regs
    /\ loc = [v \in VReg |-> Nowhere]
    /\ nextSpill = 0
    /\ csMask = {}
    /\ csUsed = 0

\* The scan is handed a list of intervals.
Load(I, q) ==
    /\ iv' = I
    /\ queue' = q
    /\ next' = 1
    /\ UNCHANGED <<active, free, loc, nextSpill, csMask, csUsed>>

-----------------------------------------------------------------------------
(* One iteration.                                                          *)

Scanning == next \in 1 .. Len(queue)
cur == queue[next]

\* Expiry: an interval is over when it ends before the current one starts.
\* (Mutant: an interval that ends where the current one starts is over, too.)
OverAtOnce(a) == iv[a.v].end <= iv[cur].start

Over(a) == iv[a.v].end < iv[cur].start
Survivors == {a \in active : ~Over(a)}
FreeNow == free \union {a.reg : a \in active \ Survivors}

\* A value that lives across a call or a clobbering instruction must not sit
\* in a register that does not survive it.
Usable(v, r) ==
    /\ iv[v].crosses => r < NumCalleeSaved
    /\ r \notin iv[v].forbid

Candidates == {r \in FreeNow : Usable(cur, r)}

\* The register the hint asks for: a partner counts once it is in a register.
Wanted == iv[cur].hint \union {loc[p].id : p \in {u \in iv[cur].follow : loc[u].kind = "reg"}}

Pick(r) ==
    /\ r \in Candidates
    /\ IF Wanted \cap Candidates # {} THEN r \in Wanted
                                      ELSE \A s \in Candidates : Rank[r] <= Rank[s]

\* (Mutant: the last callee-saved register is forgotten.)
NoteAllButLast(r) ==
    /\ csMask' = IF r + 1 < NumCalleeSaved THEN csMask \union {r} ELSE csMask
    /\ csUsed' = IF r + 1 < NumCalleeSaved /\ r + 1 > csUsed THEN r + 1 ELSE csUsed

\* set_reg, but for the write to loc.
NoteCalleeSaved(r) ==
    /\ csMask' = IF r < NumCalleeSaved THEN csMask \union {r} ELSE csMask
    /\ csUsed' = IF r < NumCalleeSaved /\ r + 1 > csUsed THEN r + 1 ELSE csUsed

\* (Mutant: the register handed out stays in the free list.)
AssignKeepsFree ==
    /\ Scanning
    /\ \E r \in Regs :
          /\ Pick(r)
          /\ loc' = [loc EXCEPT ![cur] = InReg(r)]
          /\ active' = Survivors \union {[v |-> cur, reg |-> r]}
          /\ free' = FreeNow
          /\ NoteCalleeSaved(r)
    /\ next' = next + 1
    /\ UNCHANGED <<iv, queue, nextSpill>>

Assign ==
    /\ Scanning
    /\ \E r \in Regs :
          /\ Pick(r)
          /\ loc' = [loc EXCEPT ![cur] = InReg(r)]
          /\ active' = Survivors \union {[v |-> cur, reg |-> r]}
          /\ free' = FreeNow \ {r}
          /\ NoteCalleeSaved(r)
    /\ next' = next + 1
    /\ UNCHANGED <<iv, queue, nextSpill>>

\* density(u) < density(v), the division cleared.
Span(v) == iv[v].end - iv[v].start + 1
Cheaper(u, v) == iv[u].weight * Span(v) < iv[v].weight * Span(u)

\* (Mutant: anyone may be evicted, whatever register that frees.)
AnyVictim == Survivors

Victims == {a \in Survivors : Usable(cur, a.reg)}

\* The cheapest interval whose register would do moves to memory for all of
\* its life, and the current one takes the register.
Evict ==
    /\ Scanning
    /\ Candidates = {}
    /\ \E a \in Victims :
          /\ \A b \in Victims : ~Cheaper(b.v, a.v)
          /\ Cheaper(a.v, cur)
          /\ loc' = [loc EXCEPT ![a.v] = InSlot(nextSpill), ![cur] = InReg(a.reg)]
          /\ active' = (Survivors \ {a}) \union {[v |-> cur, reg |-> a.reg]}
          /\ NoteCalleeSaved(a.reg)
    /\ free' = FreeNow
    /\ nextSpill' = nextSpill + 1
    /\ next' = next + 1
    /\ UNCHANGED <<iv, queue>>

SpillCurrent ==
    /\ Scanning
    /\ Candidates = {}
    /\ \A a \in Victims : ~Cheaper(a.v, cur)
    /\ loc' = [loc EXCEPT ![cur] = InSlot(nextSpill)]
    /\ active' = Survivors
    /\ free' = FreeNow
    /\ nextSpill' = nextSpill + 1
    /\ next' = next + 1
    /\ UNCHANGED <<iv, queue, csMask, csUsed>>

Scan == Assign \/ Evict \/ SpillCurrent

Start == next = 0 /\ \E in \in Inputs : Load(in.iv, in.queue)

Next == Start \/ Scan

Spec == Init /\ [][Next]_vars

-----------------------------------------------------------------------------

Holds(v, r) == loc[v] = InReg(r)

\* The intervals share a position.
Overlap(u, v) == iv[u].start <= iv[v].end /\ iv[v].start <= iv[u].end

TypeOK ==
    /\ iv \in [VReg -> Interval]
    /\ queue \in Seq(VReg)
    /\ next \in 0 .. Len(queue) + 1
    /\ active \subseteq [v : VReg, reg : Regs]
    /\ free \subseteq Regs
    /\ loc \in [VReg -> [kind : {"none", "reg", "spill"}, id : Nat]]
    /\ nextSpill \in Nat
    /\ csMask \subseteq Regs
    /\ csUsed \in Nat

\* Two values that are live at the same position never share a register: what
\* the rest of the back end takes for granted of every MCLoc it is handed.
\* Expiry, hints and eviction all bear on it.
NoTwoInOneRegister ==
    \A u, v \in VReg : \A r \in Regs :
        Holds(u, r) /\ Holds(v, r) /\ u # v => ~Overlap(u, v)

\* Nobody is left where a call or a divide would destroy it, by way of a
\* hint, of the preference order or of an eviction.
SurvivesClobbers == \A v \in VReg : \A r \in Regs : Holds(v, r) => Usable(v, r)

\* Spill slots are never shared and stay below spill_count, which sizes the
\* frame.
SpillSlotsDistinct ==
    /\ \A v \in VReg : loc[v].kind = "spill" => loc[v].id < nextSpill
    /\ \A u, v \in VReg : loc[u].kind = "spill" /\ loc[u] = loc[v] => u = v

\* Every register is either free or occupied by exactly one interval, which
\* knows it: none is lost on the way through evictions, none is given twice.
RegistersPartitioned ==
    /\ \A r \in Regs : r \in free <=> ~\E a \in active : a.reg = r
    /\ \A a, b \in active : a.reg = b.reg \/ a.v = b.v => a = b
    /\ \A a \in active : Holds(a.v, a.reg)

\* The prologue saves every callee-saved register a value was ever put in,
\* one that was evicted later included.
CalleeSavedNoted ==
    \A v \in VReg : \A r \in Regs :
        Holds(v, r) /\ r < NumCalleeSaved => r \in csMask /\ r < csUsed
=============================================================================
