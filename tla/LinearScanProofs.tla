-------------------------- MODULE LinearScanProofs --------------------------
(***************************************************************************)
(* For any number of virtual registers and registers, any split into caller*)
(* and callee saved, any preference order and any list of intervals sorted *)
(* by start, the scan never puts two values that are live together into    *)
(* one register, nor a value where a call or a divide would destroy it.    *)
(***************************************************************************)
EXTENDS LinearScan, TLAPS

\* Before the list arrives nothing is placed; afterwards it is well formed.
Loaded ==
    /\ next = 0 => queue = <<>> /\ active = {} /\ loc = [v \in VReg |-> Nowhere]
    /\ next > 0 => WellFormed(iv, queue)

\* Only intervals that the scan has passed have a place.
PassedOnly == \A i \in 1 .. Len(queue) : i >= next => loc[queue[i]] = Nowhere

\* A value that has a register either occupies it still or is over before
\* every interval to come.  This is what makes the invariant inductive: the
\* scan forgets the intervals it expires, and may do so because the starts it
\* will meet only grow.
Settled ==
    \A v \in VReg : \A r \in Regs : Holds(v, r) =>
        \/ [v |-> v, reg |-> r] \in active
        \/ \A i \in 1 .. Len(queue) : i >= next => iv[v].end < iv[queue[i]].start

IInv ==
    /\ TypeOK
    /\ Loaded
    /\ PassedOnly
    /\ Settled
    /\ RegistersPartitioned
    /\ NoTwoInOneRegister
    /\ SurvivesClobbers
    /\ SpillSlotsDistinct
    /\ CalleeSavedNoted

-----------------------------------------------------------------------------

\* A place is one thing only.
LEMMA Places ==
    /\ \A r : InReg(r) # Nowhere
    /\ \A s : InSlot(s) # Nowhere
    /\ \A r, s : InReg(r) # InSlot(s)
    /\ \A r, s : InReg(r) = InReg(s) => r = s
    /\ \A r, s : InSlot(r) = InSlot(s) => r = s
    /\ \A r : InReg(r).kind = "reg" /\ InReg(r).id = r
    /\ \A s : InSlot(s).kind = "spill" /\ InSlot(s).id = s
<1>1. \A r : InReg(r).kind = "reg" /\ InReg(r).id = r
  BY DEF InReg
<1>2. \A s : InSlot(s).kind = "spill" /\ InSlot(s).id = s
  BY DEF InSlot
<1>3. Nowhere.kind = "none"
  BY DEF Nowhere
<1>4. "none" # "reg" /\ "none" # "spill" /\ "reg" # "spill"
  OBVIOUS
<1>5. ASSUME NEW r PROVE InReg(r) # Nowhere /\ InSlot(r) # Nowhere
  BY <1>1, <1>2, <1>3, <1>4
<1>6. ASSUME NEW r, NEW s PROVE InReg(r) # InSlot(s)
  BY <1>1, <1>2, <1>4
<1>7. ASSUME NEW r, NEW s PROVE (InReg(r) = InReg(s) => r = s) /\ (InSlot(r) = InSlot(s) => r = s)
  <2>1. InReg(r).id = r /\ InReg(s).id = s /\ InSlot(r).id = r /\ InSlot(s).id = s
    BY <1>1, <1>2
  <2> QED BY <2>1
<1> QED BY <1>1, <1>2, <1>5, <1>6, <1>7, Zenon

\* The interval under the scan is new, and starts before all that follow.
LEMMA CurrentFacts ==
    ASSUME IInv, Scanning
    PROVE  /\ cur \in VReg
           /\ loc[cur] = Nowhere
           /\ \A a \in active : a.v # cur
           /\ \A i \in 1 .. Len(queue) : i >= next => iv[cur].start <= iv[queue[i]].start
           /\ \A i \in 1 .. Len(queue) : i >= next + 1 => queue[i] # cur
           /\ WellFormed(iv, queue)
           /\ next \in Nat /\ Len(queue) \in Nat
<1>1. /\ next \in 1 .. Len(queue) /\ queue \in Seq(VReg) /\ WellFormed(iv, queue)
      /\ Len(queue) \in Nat /\ next \in Nat
  BY DEF IInv, TypeOK, Loaded, Scanning
<1>2. cur \in VReg /\ loc[cur] = Nowhere
  BY <1>1 DEF IInv, PassedOnly, cur
<1>3. \A a \in active : a.v # cur
  BY <1>2, Places DEF IInv, RegistersPartitioned, Holds
<1>4. \A i \in 1 .. Len(queue) : i >= next => iv[cur].start <= iv[queue[i]].start
  BY <1>1 DEF WellFormed, cur
<1>5. \A i \in 1 .. Len(queue) : i >= next + 1 => queue[i] # cur
  BY <1>1 DEF WellFormed, cur, IsInjective
<1> QED BY <1>1, <1>2, <1>3, <1>4, <1>5

\* Expiry: the freed registers are exactly those no survivor occupies, and
\* whoever held one is over before the current interval starts.
LEMMA ExpiryFacts ==
    ASSUME IInv, Scanning
    PROVE  /\ FreeNow \subseteq Regs
           /\ Survivors \subseteq active
           /\ \A r \in Regs : r \in FreeNow <=> ~\E a \in Survivors : a.reg = r
           /\ \A v \in VReg : \A r \in Regs : Holds(v, r) =>
                 \/ [v |-> v, reg |-> r] \in Survivors
                 \/ \A i \in 1 .. Len(queue) : i >= next => iv[v].end < iv[queue[i]].start
<1>1. /\ active \subseteq [v : VReg, reg : Regs] /\ free \subseteq Regs
      /\ \A r \in Regs : r \in free <=> ~\E a \in active : a.reg = r
      /\ \A a, b \in active : a.reg = b.reg \/ a.v = b.v => a = b
  BY DEF IInv, TypeOK, RegistersPartitioned
<1>2. FreeNow \subseteq Regs /\ Survivors \subseteq active
  BY <1>1 DEF FreeNow, Survivors
<1>3. \A r \in Regs : r \in FreeNow <=> ~\E a \in Survivors : a.reg = r
  BY <1>1 DEF FreeNow, Survivors
<1>4. ASSUME NEW v \in VReg, NEW r \in Regs, Holds(v, r),
             [v |-> v, reg |-> r] \notin Survivors
      PROVE  \A i \in 1 .. Len(queue) : i >= next => iv[v].end < iv[queue[i]].start
  <2>1. CASE [v |-> v, reg |-> r] \in active
    <3>1. iv[v].end < iv[cur].start
      BY <1>4, <2>1 DEF Survivors, Over
    <3>2. /\ \A i \in 1 .. Len(queue) : i >= next => iv[cur].start <= iv[queue[i]].start
          /\ cur \in VReg /\ queue \in Seq(VReg) /\ iv \in [VReg -> Interval]
      BY CurrentFacts DEF IInv, TypeOK
    <3>3. ASSUME NEW i \in 1 .. Len(queue), i >= next PROVE iv[v].end < iv[queue[i]].start
      <4>1. queue[i] \in VReg /\ iv[cur].start <= iv[queue[i]].start
        BY <3>2, <3>3
      <4>2. iv[v].end \in Nat /\ iv[cur].start \in Nat /\ iv[queue[i]].start \in Nat
        BY <3>2, <4>1 DEF Interval
      <4> QED BY <3>1, <4>1, <4>2
    <3> QED BY <3>3
  <2>2. CASE [v |-> v, reg |-> r] \notin active
    BY <1>4, <2>2 DEF IInv, Settled
  <2> QED BY <2>1, <2>2
<1> QED BY <1>2, <1>3, <1>4

\* Whoever holds a register that no survivor occupies is over by now.
LEMMA HolderIsOver ==
    ASSUME IInv, Scanning, NEW v \in VReg, NEW r \in Regs, Holds(v, r),
           [v |-> v, reg |-> r] \notin Survivors
    PROVE  ~Overlap(v, cur) /\ ~Overlap(cur, v)
<1>1. iv[v].end < iv[cur].start
  <2>1. next \in 1 .. Len(queue) /\ next >= next
    BY DEF Scanning, IInv, TypeOK
  <2> QED BY <2>1, ExpiryFacts DEF cur
<1>2. cur \in VReg /\ iv \in [VReg -> Interval]
  BY CurrentFacts DEF IInv, TypeOK
<1>3. iv[v].end \in Nat /\ iv[cur].start \in Nat
  BY <1>2 DEF Interval
<1> QED BY <1>1, <1>3 DEF Overlap

-----------------------------------------------------------------------------
(* One iteration.  Assign and Evict both put cur into a register r that no *)
(* survivor other than the victim occupies; Evict and SpillCurrent both    *)
(* move one interval to the next slot.                                     *)

\* What every iteration does to the list and the index.
LEMMA StepFacts ==
    ASSUME IInv, Scan
    PROVE  /\ Scanning /\ iv' = iv /\ queue' = queue /\ next' = next + 1
           /\ next' \in 0 .. Len(queue') + 1
           /\ Loaded'
<1>1. Scanning /\ iv' = iv /\ queue' = queue /\ next' = next + 1
  BY DEF Scan, Assign, Evict, SpillCurrent
<1>2. next \in 1 .. Len(queue) /\ WellFormed(iv, queue) /\ Len(queue) \in Nat
  BY <1>1, CurrentFacts DEF Scanning
<1> QED BY <1>1, <1>2 DEF Loaded, WellFormed

\* cur gets register r, which nobody else keeps.  `gone` are the intervals
\* that lose theirs to it (none, or the victim).
LEMMA PlaceInRegister ==
    ASSUME IInv, Scanning, NEW r \in Regs, Usable(cur, r), NEW gone \in SUBSET VReg,
           cur \notin gone,
           iv' = iv,
           loc'[cur] = InReg(r),
           \A v \in VReg \ (gone \union {cur}) : loc'[v] = loc[v],
           \A v \in gone : loc'[v].kind = "spill",
           \A v \in VReg : Holds(v, r) /\ [v |-> v, reg |-> r] \in Survivors => v \in gone,
           NoteCalleeSaved(r)
    PROVE  /\ NoTwoInOneRegister'
           /\ SurvivesClobbers'
           /\ CalleeSavedNoted'
<1>1. cur \in VReg /\ WellFormed(iv, queue)
  BY CurrentFacts
<1>2. ASSUME NEW v \in VReg, NEW q \in Regs, loc'[v] = InReg(q)
      PROVE  (v = cur /\ q = r) \/ (v # cur /\ Holds(v, q) /\ loc'[v] = loc[v] /\ v \notin gone)
  <2>1. v \notin gone
    BY <1>2, Places
  <2> QED BY <1>2, <2>1, Places DEF Holds
<1>3. NoTwoInOneRegister'
  <2> SUFFICES ASSUME NEW u \in VReg, NEW v \in VReg, NEW q \in Regs, u # v,
                      loc'[u] = InReg(q), loc'[v] = InReg(q)
               PROVE  ~Overlap(u, v)
    BY DEF NoTwoInOneRegister, Holds, Overlap
  <2>1. CASE u # cur /\ v # cur
    BY <1>2, <2>1 DEF IInv, NoTwoInOneRegister
  <2>2. CASE v = cur
    <3>1. q = r /\ Holds(u, r) /\ u \notin gone
      BY <1>2, <2>2
    <3> QED BY <3>1, <2>2, HolderIsOver
  <2>3. CASE u = cur
    <3>1. q = r /\ Holds(v, r) /\ v \notin gone
      BY <1>2, <2>3
    <3> QED BY <3>1, <2>3, HolderIsOver
  <2> QED BY <2>1, <2>2, <2>3
<1>4. SurvivesClobbers'
  <2> SUFFICES ASSUME NEW v \in VReg, NEW q \in Regs, loc'[v] = InReg(q) PROVE Usable(v, q)
    BY DEF SurvivesClobbers, Holds, Usable
  <2> QED BY <1>2 DEF IInv, SurvivesClobbers
<1>5. CalleeSavedNoted'
  <2> SUFFICES ASSUME NEW v \in VReg, NEW q \in Regs, loc'[v] = InReg(q), q < NumCalleeSaved
               PROVE  q \in csMask' /\ q < csUsed'
    BY DEF CalleeSavedNoted, Holds
  <2>1. /\ csMask' = IF r < NumCalleeSaved THEN csMask \union {r} ELSE csMask
        /\ csUsed' = IF r < NumCalleeSaved /\ r + 1 > csUsed THEN r + 1 ELSE csUsed
        /\ csUsed \in Nat /\ q \in Nat /\ r \in Nat
    BY ScanAssumption DEF NoteCalleeSaved, IInv, TypeOK, Regs
  <2>2. CASE v = cur
    BY <1>2, <2>1, <2>2
  <2>3. CASE v # cur
    <3>1. q \in csMask /\ q < csUsed
      BY <1>2, <2>3 DEF IInv, CalleeSavedNoted
    <3> QED BY <3>1, <2>1
  <2> QED BY <2>2, <2>3
<1> QED BY <1>3, <1>4, <1>5

\* Whoever holds a register after the iteration occupies it or is over before
\* every interval that is still to come; those have no place yet.
LEMMA SettledNext ==
    ASSUME IInv, Scanning, iv' = iv, queue' = queue, next' = next + 1,
           NEW gone \in SUBSET VReg,
           \A v \in VReg \ (gone \union {cur}) : loc'[v] = loc[v],
           \A v \in gone : loc'[v].kind = "spill" /\ loc[v] # Nowhere,
           \A v \in VReg : \A r \in Regs :
               [v |-> v, reg |-> r] \in Survivors /\ v \notin gone
                  => [v |-> v, reg |-> r] \in active',
           \A r \in Regs : loc'[cur] = InReg(r) => [v |-> cur, reg |-> r] \in active'
    PROVE  Settled' /\ PassedOnly'
<1>1. /\ WellFormed(iv, queue) /\ next \in Nat /\ Len(queue) \in Nat /\ cur \in VReg
      /\ \A i \in 1 .. Len(queue) : i >= next + 1 => queue[i] # cur
  BY CurrentFacts
<1>2. Settled'
  <2> SUFFICES ASSUME NEW v \in VReg, NEW r \in Regs, loc'[v] = InReg(r),
                      [v |-> v, reg |-> r] \notin active',
                      NEW i \in 1 .. Len(queue), i >= next + 1
               PROVE  iv[v].end < iv[queue[i]].start
    BY DEF Settled, Holds
  <2>1. v \notin gone /\ v # cur
    BY Places
  <2>2. Holds(v, r) /\ [v |-> v, reg |-> r] \notin Survivors
    BY <2>1 DEF Holds
  <2>3. i >= next
    BY <1>1
  <2> QED BY <2>2, <2>3, ExpiryFacts
<1>3. PassedOnly'
  <2> SUFFICES ASSUME NEW i \in 1 .. Len(queue), i >= next + 1 PROVE loc'[queue[i]] = Nowhere
    BY DEF PassedOnly
  <2>1. queue[i] # cur /\ queue[i] \in VReg /\ loc[queue[i]] = Nowhere
    BY <1>1 DEF WellFormed, IInv, PassedOnly
  <2> QED BY <2>1
<1> QED BY <1>2, <1>3

\* Slots stay distinct when one interval, which had none, gets the next one.
LEMMA NextSlot ==
    ASSUME IInv, NEW w \in VReg, loc[w].kind # "spill",
           loc'[w] = InSlot(nextSpill), nextSpill' = nextSpill + 1,
           \A v \in VReg : v # w => loc'[v] = loc[v] \/ loc'[v].kind = "reg"
    PROVE  SpillSlotsDistinct'
<1>1. nextSpill \in Nat /\ loc \in [VReg -> [kind : {"none", "reg", "spill"}, id : Nat]]
  BY DEF IInv, TypeOK
<1>2. ASSUME NEW v \in VReg, loc'[v].kind = "spill", v # w
      PROVE  loc'[v] = loc[v] /\ loc'[v].id < nextSpill /\ loc'[v].id \in Nat
  <2>1. loc'[v] = loc[v]
    BY <1>2
  <2> QED BY <1>1, <1>2, <2>1 DEF IInv, SpillSlotsDistinct
<1>3. loc'[w].id = nextSpill
  BY Places
<1>4. ASSUME NEW v \in VReg, loc'[v].kind = "spill" PROVE loc'[v].id < nextSpill'
  BY <1>1, <1>2, <1>3, <1>4
<1>5. ASSUME NEW u \in VReg, NEW v \in VReg, loc'[u].kind = "spill", loc'[u] = loc'[v]
      PROVE  u = v
  <2>1. CASE u # w /\ v # w
    BY <1>2, <1>5, <2>1 DEF IInv, SpillSlotsDistinct
  <2>2. CASE u = w /\ v # w
    BY <1>1, <1>2, <1>3, <1>5, <2>2
  <2>3. CASE v = w /\ u # w
    BY <1>1, <1>2, <1>3, <1>5, <2>3
  <2> QED BY <2>1, <2>2, <2>3
<1> QED BY <1>4, <1>5 DEF SpillSlotsDistinct

\* No slot changes hands when an interval that had no place gets a register.
LEMMA SameSlots ==
    ASSUME IInv, NEW w \in VReg, NEW r, loc'[w] = InReg(r), nextSpill' = nextSpill,
           \A v \in VReg : v # w => loc'[v] = loc[v]
    PROVE  SpillSlotsDistinct'
<1>1. \A v \in VReg : loc'[v].kind = "spill" => loc'[v] = loc[v]
  BY Places
<1> QED BY <1>1 DEF IInv, SpillSlotsDistinct

\* Giving one interval a well-typed place keeps the table well typed.
LEMMA PlaceTypes ==
    /\ \A r \in Nat : InReg(r) \in [kind : {"none", "reg", "spill"}, id : Nat]
    /\ \A s \in Nat : InSlot(s) \in [kind : {"none", "reg", "spill"}, id : Nat]
BY DEF InReg, InSlot

\* The bookkeeping of callee-saved registers is well typed.
LEMMA NoteTypes ==
    ASSUME IInv, NEW r \in Regs, NoteCalleeSaved(r)
    PROVE  csMask' \subseteq Regs /\ csUsed' \in Nat
<1>1. r \in Nat /\ csMask \subseteq Regs /\ csUsed \in Nat
  BY ScanAssumption DEF IInv, TypeOK, Regs
<1> QED BY <1>1 DEF NoteCalleeSaved

-----------------------------------------------------------------------------

\* Taking a free register keeps the invariant.
LEMMA AssignIInv ==
    ASSUME IInv, Assign
    PROVE  IInv'
<1>0. Scan
  BY DEF Scan
<1>1. /\ Scanning /\ iv' = iv /\ queue' = queue /\ next' = next + 1
      /\ next' \in 0 .. Len(queue') + 1 /\ Loaded'
  BY <1>0, StepFacts
<1>2. PICK r \in Regs : /\ r \in FreeNow /\ Usable(cur, r)
                        /\ loc' = [loc EXCEPT ![cur] = InReg(r)]
                        /\ active' = Survivors \union {[v |-> cur, reg |-> r]}
                        /\ free' = FreeNow \ {r}
                        /\ NoteCalleeSaved(r)
                        /\ nextSpill' = nextSpill
  BY DEF Assign, Pick, Candidates
<1>3. /\ cur \in VReg /\ loc[cur] = Nowhere /\ \A a \in active : a.v # cur
  BY <1>1, CurrentFacts
<1>4. /\ FreeNow \subseteq Regs /\ Survivors \subseteq active
      /\ \A q \in Regs : q \in FreeNow <=> ~\E a \in Survivors : a.reg = q
  BY <1>1, ExpiryFacts
<1>5. /\ loc'[cur] = InReg(r) /\ \A v \in VReg : v # cur => loc'[v] = loc[v]
      /\ r \in Nat
  BY <1>2, <1>3, ScanAssumption DEF IInv, TypeOK, Regs
<1>6. TypeOK'
  <2>1. loc' \in [VReg -> [kind : {"none", "reg", "spill"}, id : Nat]]
    BY <1>2, <1>3, <1>5, PlaceTypes DEF IInv, TypeOK
  <2>2. active' \subseteq [v : VReg, reg : Regs]
    BY <1>2, <1>3, <1>4 DEF IInv, TypeOK
  <2>3. csMask' \subseteq Regs /\ csUsed' \in Nat
    BY <1>2, NoteTypes
  <2> QED BY <1>1, <1>2, <1>4, <2>1, <2>2, <2>3 DEF IInv, TypeOK
<1>7. NoTwoInOneRegister' /\ SurvivesClobbers' /\ CalleeSavedNoted'
  <2>1. \A v \in VReg : [v |-> v, reg |-> r] \notin Survivors
    BY <1>2, <1>4
  <2> DEFINE gone == {}
  <2>2. /\ gone \in SUBSET VReg /\ cur \notin gone
        /\ \A v \in VReg \ (gone \union {cur}) : loc'[v] = loc[v]
        /\ \A v \in gone : loc'[v].kind = "spill"
        /\ \A v \in VReg : Holds(v, r) /\ [v |-> v, reg |-> r] \in Survivors => v \in gone
    BY <1>5, <2>1
  <2> HIDE DEF gone
  <2> QED BY <1>1, <1>2, <1>5, <2>2, PlaceInRegister
<1>8. Settled' /\ PassedOnly'
  <2>1. \A q \in Regs : loc'[cur] = InReg(q) => [v |-> cur, reg |-> q] \in active'
    BY <1>2, <1>5, Places
  <2>2. \A v \in VReg : \A q \in Regs :
           [v |-> v, reg |-> q] \in Survivors => [v |-> v, reg |-> q] \in active'
    BY <1>2
  <2> DEFINE gone == {}
  <2>3. /\ gone \in SUBSET VReg
        /\ \A v \in VReg \ (gone \union {cur}) : loc'[v] = loc[v]
        /\ \A v \in gone : loc'[v].kind = "spill" /\ loc[v] # Nowhere
    BY <1>5
  <2>4. \A v \in VReg : \A q \in Regs :
           [v |-> v, reg |-> q] \in Survivors /\ v \notin gone => [v |-> v, reg |-> q] \in active'
    BY <2>2
  <2> HIDE DEF gone
  <2> QED BY <1>1, <2>1, <2>3, <2>4, SettledNext
<1>9. SpillSlotsDistinct'
  BY <1>2, <1>3, <1>5, SameSlots
<1>10. RegistersPartitioned'
  <2>1. \A q \in Regs : q \in free' <=> ~\E a \in active' : a.reg = q
    <3> DEFINE e == [v |-> cur, reg |-> r]
    <3>0. active' = Survivors \union {e} /\ e.reg = r
      BY <1>2
    <3> HIDE DEF e
    <3>1. \A q \in Regs : (\E a \in active' : a.reg = q) <=> q = r \/ \E a \in Survivors : a.reg = q
      BY <3>0
    <3> QED BY <3>1, <1>2, <1>4
  <2>2. \A a, b \in active' : a.reg = b.reg \/ a.v = b.v => a = b
    BY <1>2, <1>3, <1>4 DEF IInv, RegistersPartitioned, TypeOK
  <2>3. \A a \in active' : loc'[a.v] = InReg(a.reg)
    BY <1>2, <1>3, <1>4, <1>5 DEF IInv, RegistersPartitioned, Holds, TypeOK
  <2> QED BY <2>1, <2>2, <2>3 DEF RegistersPartitioned, Holds
<1> QED BY <1>1, <1>6, <1>7, <1>8, <1>9, <1>10 DEF IInv

\* Spilling the current interval keeps the invariant.
LEMMA SpillCurrentIInv ==
    ASSUME IInv, SpillCurrent
    PROVE  IInv'
<1>0. Scan
  BY DEF Scan
<1>1. /\ Scanning /\ iv' = iv /\ queue' = queue /\ next' = next + 1
      /\ next' \in 0 .. Len(queue') + 1 /\ Loaded'
  BY <1>0, StepFacts
<1>2. /\ loc' = [loc EXCEPT ![cur] = InSlot(nextSpill)]
      /\ active' = Survivors /\ free' = FreeNow /\ nextSpill' = nextSpill + 1
      /\ csMask' = csMask /\ csUsed' = csUsed
  BY DEF SpillCurrent
<1>3. /\ cur \in VReg /\ loc[cur] = Nowhere /\ \A a \in active : a.v # cur
  BY <1>1, CurrentFacts
<1>4. /\ FreeNow \subseteq Regs /\ Survivors \subseteq active
      /\ \A q \in Regs : q \in FreeNow <=> ~\E a \in Survivors : a.reg = q
  BY <1>1, ExpiryFacts
<1>5. loc'[cur] = InSlot(nextSpill) /\ \A v \in VReg : v # cur => loc'[v] = loc[v]
  BY <1>2, <1>3 DEF IInv, TypeOK
<1>6. TypeOK'
  <2>1. loc' \in [VReg -> [kind : {"none", "reg", "spill"}, id : Nat]]
    BY <1>2, <1>3, PlaceTypes DEF IInv, TypeOK
  <2> QED BY <1>1, <1>2, <1>4, <2>1 DEF IInv, TypeOK
<1>7. \A v \in VReg : \A q \in Regs : loc'[v] = InReg(q) => v # cur /\ Holds(v, q)
  BY <1>5, Places DEF Holds
<1>8. NoTwoInOneRegister' /\ SurvivesClobbers' /\ CalleeSavedNoted'
  <2>1. NoTwoInOneRegister'
    BY <1>1, <1>7 DEF IInv, NoTwoInOneRegister, Holds, Overlap
  <2>2. SurvivesClobbers'
    BY <1>1, <1>7 DEF IInv, SurvivesClobbers, Holds, Usable
  <2>3. CalleeSavedNoted'
    BY <1>2, <1>7 DEF IInv, CalleeSavedNoted, Holds
  <2> QED BY <2>1, <2>2, <2>3
<1>9. Settled' /\ PassedOnly'
  <2> DEFINE gone == {}
  <2>1. /\ gone \in SUBSET VReg
        /\ \A v \in VReg \ (gone \union {cur}) : loc'[v] = loc[v]
        /\ \A v \in gone : loc'[v].kind = "spill" /\ loc[v] # Nowhere
    BY <1>5
  <2>2. \A v \in VReg : \A q \in Regs :
           [v |-> v, reg |-> q] \in Survivors /\ v \notin gone => [v |-> v, reg |-> q] \in active'
    BY <1>2
  <2>3. \A q \in Regs : loc'[cur] = InReg(q) => [v |-> cur, reg |-> q] \in active'
    BY <1>5, Places
  <2> HIDE DEF gone
  <2> QED BY <1>1, <2>1, <2>2, <2>3, SettledNext
<1>10. SpillSlotsDistinct'
  <2>1. loc[cur].kind # "spill"
    BY <1>3 DEF Nowhere
  <2> QED BY <1>2, <1>3, <1>5, <2>1, NextSlot
<1>11. RegistersPartitioned'
  <2>1. \A q \in Regs : q \in free' <=> ~\E a \in active' : a.reg = q
    BY <1>2, <1>4
  <2>2. \A a, b \in active' : a.reg = b.reg \/ a.v = b.v => a = b
    BY <1>2, <1>4 DEF IInv, RegistersPartitioned
  <2>3. \A a \in active' : loc'[a.v] = InReg(a.reg)
    BY <1>2, <1>3, <1>4, <1>5 DEF IInv, RegistersPartitioned, Holds, TypeOK
  <2> QED BY <2>1, <2>2, <2>3 DEF RegistersPartitioned, Holds
<1> QED BY <1>1, <1>6, <1>8, <1>9, <1>10, <1>11 DEF IInv

\* Evicting a victim keeps the invariant.
LEMMA EvictIInv ==
    ASSUME IInv, Evict
    PROVE  IInv'
<1>0. Scan
  BY DEF Scan
<1>1. /\ Scanning /\ iv' = iv /\ queue' = queue /\ next' = next + 1
      /\ next' \in 0 .. Len(queue') + 1 /\ Loaded'
  BY <1>0, StepFacts
<1>2. PICK a \in Survivors :
          /\ Usable(cur, a.reg)
          /\ loc' = [loc EXCEPT ![a.v] = InSlot(nextSpill), ![cur] = InReg(a.reg)]
          /\ active' = (Survivors \ {a}) \union {[v |-> cur, reg |-> a.reg]}
          /\ NoteCalleeSaved(a.reg)
          /\ free' = FreeNow
          /\ nextSpill' = nextSpill + 1
  BY DEF Evict, Victims
<1>3. /\ cur \in VReg /\ loc[cur] = Nowhere /\ \A b \in active : b.v # cur
  BY <1>1, CurrentFacts
<1>4. /\ FreeNow \subseteq Regs /\ Survivors \subseteq active
      /\ \A q \in Regs : q \in FreeNow <=> ~\E b \in Survivors : b.reg = q
  BY <1>1, ExpiryFacts
<1>5. /\ a \in active /\ a.v \in VReg /\ a.reg \in Regs /\ a.v # cur
      /\ Holds(a.v, a.reg) /\ a.reg \in Nat
      /\ \A b, c \in active : b.reg = c.reg \/ b.v = c.v => b = c
  BY <1>2, <1>3, <1>4, ScanAssumption DEF IInv, TypeOK, RegistersPartitioned, Regs
<1> DEFINE r == a.reg
           w == a.v
           e == [v |-> cur, reg |-> r]
<1>6. /\ loc'[cur] = InReg(r) /\ loc'[w] = InSlot(nextSpill)
      /\ \A v \in VReg : v # cur /\ v # w => loc'[v] = loc[v]
  BY <1>2, <1>3, <1>5 DEF IInv, TypeOK
<1>7. active' = (Survivors \ {a}) \union {e} /\ e.reg = r /\ e.v = cur /\ e \in [v : VReg, reg : Regs]
  BY <1>2, <1>3, <1>5
<1> HIDE DEF e
<1>8. TypeOK'
  <2>1. loc' \in [VReg -> [kind : {"none", "reg", "spill"}, id : Nat]]
    BY <1>2, <1>3, <1>5, PlaceTypes DEF IInv, TypeOK
  <2>2. active' \subseteq [v : VReg, reg : Regs]
    BY <1>4, <1>7 DEF IInv, TypeOK
  <2>3. csMask' \subseteq Regs /\ csUsed' \in Nat
    BY <1>2, <1>5, NoteTypes
  <2>4. iv' \in [VReg -> Interval] /\ queue' \in Seq(VReg) /\ next' \in 0 .. Len(queue') + 1
    BY <1>1 DEF IInv, TypeOK
  <2>5. free' \subseteq Regs
    BY <1>2, <1>4
  <2>6. nextSpill' \in Nat
    <3>1. nextSpill' = nextSpill + 1 /\ nextSpill \in Nat
      BY <1>2 DEF IInv, TypeOK
    <3> QED BY <3>1
  <2> QED BY <2>1, <2>2, <2>3, <2>4, <2>5, <2>6 DEF TypeOK
<1> DEFINE gone == {w}
<1>9. /\ gone \in SUBSET VReg /\ cur \notin gone
      /\ \A v \in VReg \ (gone \union {cur}) : loc'[v] = loc[v]
      /\ \A v \in gone : loc'[v].kind = "spill" /\ loc[v] # Nowhere
  BY <1>5, <1>6, Places DEF Holds
<1>10. \A v \in VReg : \A q \in Regs :
          [v |-> v, reg |-> q] \in Survivors /\ v \notin gone
             => [v |-> v, reg |-> q] \in active' /\ q # r
  <2> SUFFICES ASSUME NEW v \in VReg, NEW q \in Regs, [v |-> v, reg |-> q] \in Survivors, v # w
               PROVE  [v |-> v, reg |-> q] \in active' /\ q # r
    OBVIOUS
  <2>1. [v |-> v, reg |-> q] # a
    OBVIOUS
  <2>2. [v |-> v, reg |-> q] \in active /\ [v |-> v, reg |-> q].reg = q
    BY <1>4
  <2>3. q # r
    BY <2>1, <2>2, <1>5
  <2> QED BY <2>1, <2>3, <1>7
<1>11. \A q \in Regs : loc'[cur] = InReg(q) => [v |-> cur, reg |-> q] \in active'
  BY <1>6, <1>7, Places DEF e
<1> HIDE DEF gone
<1>12. NoTwoInOneRegister' /\ SurvivesClobbers' /\ CalleeSavedNoted'
  BY <1>1, <1>2, <1>5, <1>6, <1>9, <1>10, PlaceInRegister
<1>13. Settled' /\ PassedOnly'
  BY <1>1, <1>9, <1>10, <1>11, SettledNext
<1>14. SpillSlotsDistinct'
  <2>1. loc[w].kind # "spill"
    BY <1>5, Places DEF Holds
  <2>2. \A v \in VReg : v # w => loc'[v] = loc[v] \/ loc'[v].kind = "reg"
    BY <1>6, Places
  <2> QED BY <1>2, <1>5, <1>6, <2>1, <2>2, NextSlot
<1>15. RegistersPartitioned'
  <2>1. \A q \in Regs : q \in free' <=> ~\E b \in active' : b.reg = q
    <3>1. \A q \in Regs : (\E b \in active' : b.reg = q) <=> (\E b \in Survivors : b.reg = q)
      BY <1>2, <1>7
    <3> QED BY <3>1, <1>2, <1>4
  <2>2. \A b, c \in active' : b.reg = c.reg \/ b.v = c.v => b = c
    BY <1>2, <1>3, <1>4, <1>5, <1>7
  <2>3. \A b \in active' : loc'[b.v] = InReg(b.reg)
    <3>1. ASSUME NEW b \in Survivors, b # a PROVE loc'[b.v] = InReg(b.reg)
      <4>1. b \in active /\ b.v \in VReg /\ b.v # cur /\ b.v # w /\ Holds(b.v, b.reg)
        BY <3>1, <1>3, <1>4, <1>5 DEF IInv, TypeOK, RegistersPartitioned
      <4> QED BY <4>1, <1>6 DEF Holds
    <3> QED BY <3>1, <1>6, <1>7
  <2> QED BY <2>1, <2>2, <2>3 DEF RegistersPartitioned, Holds
<1> QED BY <1>1, <1>8, <1>12, <1>13, <1>14, <1>15 DEF IInv

-----------------------------------------------------------------------------

\* Before the list arrives there is nothing to hold a place.
LEMMA InitIInv == Init => IInv
<1> SUFFICES ASSUME Init PROVE IInv
  OBVIOUS
<1> USE DEF Init
<1>1. /\ loc \in [VReg -> [kind : {"none", "reg", "spill"}, id : Nat]]
      /\ \A v \in VReg : loc[v] = Nowhere
  BY DEF Nowhere
<1>2. iv \in [VReg -> Interval]
  BY DEF Interval
<1>3. Len(queue) = 0 /\ queue \in Seq(VReg)
  OBVIOUS
<1>4. TypeOK
  BY <1>1, <1>2, <1>3 DEF TypeOK
<1>5. \A v \in VReg : \A r \in Regs : ~Holds(v, r)
  BY <1>1, Places DEF Holds
<1>6. \A v \in VReg : loc[v].kind # "spill"
  BY <1>1 DEF Nowhere
<1>7. Loaded /\ PassedOnly
  BY <1>3 DEF Loaded, PassedOnly
<1>8. RegistersPartitioned
  BY DEF RegistersPartitioned
<1> QED
  BY <1>4, <1>5, <1>6, <1>7, <1>8 DEF IInv, Settled, NoTwoInOneRegister, SurvivesClobbers,
     SpillSlotsDistinct, CalleeSavedNoted

\* The list arrives when nothing is placed yet.
LEMMA LoadIInv ==
    ASSUME IInv, next = 0, NEW I, NEW q, WellFormed(I, q), Load(I, q)
    PROVE  IInv'
<1>2. /\ iv' = I /\ queue' = q /\ next' = 1 /\ WellFormed(iv', queue')
      /\ UNCHANGED <<active, free, loc, nextSpill, csMask, csUsed>>
  BY DEF Load
<1>3. \A v \in VReg : loc[v] = Nowhere
  BY DEF IInv, Loaded
<1>4. \A v \in VReg : \A r \in Regs : ~Holds(v, r)
  BY <1>3, Places DEF Holds
<1>5. TypeOK'
  BY <1>2 DEF IInv, TypeOK, WellFormed
<1>6. Loaded' /\ PassedOnly'
  BY <1>2, <1>3 DEF Loaded, PassedOnly, WellFormed
<1>7. RegistersPartitioned' /\ SpillSlotsDistinct'
  BY <1>2 DEF IInv, RegistersPartitioned, SpillSlotsDistinct, Holds
<1>8. Settled' /\ NoTwoInOneRegister' /\ SurvivesClobbers' /\ CalleeSavedNoted'
  BY <1>2, <1>4 DEF Settled, NoTwoInOneRegister, SurvivesClobbers, CalleeSavedNoted, Holds
<1> QED BY <1>5, <1>6, <1>7, <1>8 DEF IInv

\* Where the scan does nothing, nothing changes.
LEMMA StutterIInv ==
    ASSUME IInv, UNCHANGED vars
    PROVE  IInv'
BY DEF vars, IInv, TypeOK, Loaded, WellFormed, PassedOnly, Settled, RegistersPartitioned,
   NoTwoInOneRegister, SurvivesClobbers, SpillSlotsDistinct, CalleeSavedNoted, Holds, Overlap, Usable

\* The list's arrival and every iteration keep IInv.
LEMMA NextIInv == IInv /\ [Next]_vars => IInv'
<1> SUFFICES ASSUME IInv, [Next]_vars PROVE IInv'
  OBVIOUS
<1>1. ASSUME Start PROVE IInv'
  <2>1. PICK in \in Inputs : next = 0 /\ Load(in.iv, in.queue)
    BY <1>1 DEF Start
  <2>2. WellFormed(in.iv, in.queue)
    BY ScanAssumption
  <2> QED BY <2>1, <2>2, LoadIInv
<1>2. CASE Assign
  BY <1>2, AssignIInv
<1>3. CASE Evict
  BY <1>3, EvictIInv
<1>4. CASE SpillCurrent
  BY <1>4, SpillCurrentIInv
<1>5. CASE UNCHANGED vars
  BY <1>5, StutterIInv
<1> QED BY <1>1, <1>2, <1>3, <1>4, <1>5 DEF Next, Scan

-----------------------------------------------------------------------------
\* Whoever has a register has one of the machine's, and whoever the scan has
\* passed has a place.
Placed ==
    /\ \A v \in VReg : loc[v].kind = "reg" => \E r \in Regs : loc[v] = InReg(r)
    /\ \A i \in 1 .. Len(queue) : i < next => loc[queue[i]].kind # "none"

\* At first nobody has.
LEMMA InitPlaced == Init => Placed
<1>1. Nowhere.kind # "reg" /\ Len(<<>>) = 0
  BY DEF Nowhere
<1> QED BY <1>1 DEF Init, Placed

\* An iteration gives places, and moves none away.
LEMMA ScanPlaced ==
    ASSUME IInv, Placed, Scan
    PROVE  Placed'
<1>1. /\ Scanning /\ iv' = iv /\ queue' = queue /\ next' = next + 1 /\ cur \in VReg
      /\ queue \in Seq(VReg) /\ next \in Nat /\ Len(queue) \in Nat
  BY StepFacts, CurrentFacts DEF WellFormed
<1>2. /\ loc'[cur].kind # "none"
      /\ \A v \in VReg : loc[v].kind # "none" => loc'[v].kind # "none"
      /\ \A v \in VReg : loc'[v].kind = "reg" => loc'[v] = loc[v] \/ \E r \in Regs : loc'[v] = InReg(r)
  <2>0. loc \in [VReg -> [kind : {"none", "reg", "spill"}, id : Nat]]
    BY DEF IInv, TypeOK
  <2>1. CASE Assign
    <3>1. PICK r \in Regs : loc' = [loc EXCEPT ![cur] = InReg(r)]
      BY <2>1 DEF Assign
    <3>2. \A v \in VReg : loc'[v] = IF v = cur THEN InReg(r) ELSE loc[v]
      BY <2>0, <3>1
    <3> QED BY <1>1, <3>2, Places
  <2>2. CASE Evict
    <3>1. PICK a \in Victims : loc' = [loc EXCEPT ![a.v] = InSlot(nextSpill), ![cur] = InReg(a.reg)]
      BY <2>2 DEF Evict
    <3>2. a.reg \in Regs /\ a.v \in VReg
      BY DEF IInv, TypeOK, Victims, Survivors
    <3>3. \A v \in VReg : loc'[v] = IF v = cur THEN InReg(a.reg)
                                 ELSE IF v = a.v THEN InSlot(nextSpill) ELSE loc[v]
      BY <2>0, <3>1, <3>2
    <3> QED BY <1>1, <3>2, <3>3, Places
  <2>3. CASE SpillCurrent
    <3>1. loc' = [loc EXCEPT ![cur] = InSlot(nextSpill)]
      BY <2>3 DEF SpillCurrent
    <3>2. \A v \in VReg : loc'[v] = IF v = cur THEN InSlot(nextSpill) ELSE loc[v]
      BY <2>0, <3>1
    <3> QED BY <1>1, <3>2, Places
  <2> QED BY <2>1, <2>2, <2>3 DEF Scan
<1>3. ASSUME NEW v \in VReg, loc'[v].kind = "reg" PROVE \E r \in Regs : loc'[v] = InReg(r)
  BY <1>2, <1>3 DEF Placed
<1>4. ASSUME NEW i \in 1 .. Len(queue'), i < next' PROVE loc'[queue'[i]].kind # "none"
  <2>1. i \in 1 .. Len(queue) /\ queue[i] \in VReg /\ queue'[i] = queue[i]
    BY <1>1, <1>4
  <2>2. i < next \/ i = next
    BY <1>1, <1>4
  <2>3. CASE i < next
    BY <1>2, <2>1, <2>3 DEF Placed
  <2>4. CASE i = next
    BY <1>2, <2>1, <2>4 DEF cur
  <2> QED BY <2>2, <2>3, <2>4
<1>5. \A v \in VReg : loc'[v].kind = "reg" => \E r \in Regs' : loc'[v] = InReg(r)'
  BY <1>3 DEF Regs, InReg
<1>6. \A i \in 1 .. Len(queue') : i < next' => loc'[queue'[i]].kind # "none"
  BY <1>4
<1> QED BY <1>5, <1>6 DEF Placed

\* The list comes before anyone has a place.
LEMMA LoadPlaced ==
    ASSUME Placed, NEW I, NEW q, Load(I, q), q \in Seq(VReg)
    PROVE  Placed'
<1>1. queue' = q /\ next' = 1 /\ loc' = loc
  BY DEF Load
<1>2. \A i \in 1 .. Len(q) : ~(i < 1)
  OBVIOUS
<1> QED BY <1>1, <1>2 DEF Placed

-----------------------------------------------------------------------------
\* IInv holds in every state of the scan.
THEOREM Invariance == Spec => []IInv
<1> QED BY InitIInv, NextIInv, PTL DEF Spec

\* Two intervals that share a position never share a register.
THEOREM Interference == Spec => []NoTwoInOneRegister
<1>1. IInv => NoTwoInOneRegister
  BY DEF IInv
<1> QED BY <1>1, Invariance, PTL

\* No value sits where a call or a clobbering instruction would destroy it.
THEOREM Clobbers == Spec => []SurvivesClobbers
<1>1. IInv => SurvivesClobbers
  BY DEF IInv
<1> QED BY <1>1, Invariance, PTL

\* Slots are not shared, and registers are neither lost nor doubled.
THEOREM Bookkeeping == Spec => [](SpillSlotsDistinct /\ RegistersPartitioned)
<1>1. IInv => SpillSlotsDistinct /\ RegistersPartitioned
  BY DEF IInv
<1> QED BY <1>1, Invariance, PTL

\* The prologue's mask covers the callee-saved registers that were handed out.
THEOREM Saved == Spec => []CalleeSavedNoted
<1>1. IInv => CalleeSavedNoted
  BY DEF IInv
<1> QED BY <1>1, Invariance, PTL
=============================================================================
