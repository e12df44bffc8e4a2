--------------------------- MODULE ParMovesProofs ---------------------------
(***************************************************************************)
(* Whatever well-formed list emit_par_moves is given, over any number of   *)
(* registers and slots, no value is destroyed that somebody still has to   *)
(* read, and in the end everything has moved at once.                      *)
(***************************************************************************)
EXTENDS ParMoves, Descent, FiniteSetTheorems, TLAPS

\* Constants and memory slots are read where the list says: only registers are
\* renamed, to registers.
OnlyRegistersRenamed == \A j \in Index : src[j] \in Reg \/ src[j] = moves[j].src

\* A move that is done has put the value where it belongs.
DoneIsMoved == \A j \in done : val[dst(j)] = moves[j].src

\* What is nobody's destination is as it was.
OthersKept == \A p \in Place : (\A j \in Index : dst(j) # p) => val[p] = p

\* The first loop is through with the memory destinations before i, and with
\* nothing else.
StoresFirst ==
    /\ phase = "mem" => done \subseteq 1 .. i - 1
    /\ \A j \in Index : dst(j) \in Mem /\ (phase = "mem" => j < i) => j \in done

\* A pass that has emitted nothing so far has met blocked moves only.
StuckMeansBlocked ==
    phase = "reg" /\ ~progress => \A j \in Pending : j < i => Blocked(j)

\* The last loop has constants and memory to load, and loads all of it.
LoadsLast ==
    /\ phase \in {"load", "end"} => Pending = {}
    /\ phase = "load" => \A j \in Index : j < i => j \in done
    /\ phase = "end" => Index \subseteq done

\* The inductive invariant.
IInv ==
    /\ TypeOK
    /\ OnlyRegistersRenamed
    /\ SourcesWait
    /\ DoneIsMoved
    /\ OthersKept
    /\ StoresFirst
    /\ StuckMeansBlocked
    /\ LoadsLast

-----------------------------------------------------------------------------
(* Lists of moves.                                                         *)

\* What a well-formed list is good for.
LEMMA MoveFacts ==
    ASSUME WellFormed(moves)
    PROVE  /\ Len(moves) \in Nat /\ Index = 1 .. Len(moves)
           /\ \A j \in Index : dst(j) \in Place /\ moves[j].src \in Value
           /\ \A j, k \in Index : dst(j) = dst(k) => j = k
           /\ \A j, k \in Index : moves[j].src \in Mem => dst(k) # moves[j].src
<1> DEFINE Move == [dst : Place, src : Value]
<1>1. moves \in Seq(Move)
  BY DEF WellFormed
<1>2. Len(moves) \in Nat /\ Index = 1 .. Len(moves)
  BY <1>1 DEF Index
<1>3. \A j \in Index : moves[j] \in Move
  <2> HIDE DEF Move
  <2> QED BY <1>1, <1>2
<1>4. \A j \in Index : dst(j) \in Place /\ moves[j].src \in Value
  BY <1>3 DEF dst
<1>5. /\ \A j, k \in Index : dst(j) = dst(k) => j = k
      /\ \A j, k \in Index : moves[j].src \in Mem => dst(k) # moves[j].src
  BY DEF WellFormed, Index, dst
<1> QED BY <1>2, <1>4, <1>5

\* Where registers, slots and constants cannot be confused.
LEMMA PlaceFacts ==
    /\ Reg \cap Mem = {} /\ Reg \cap Imm = {} /\ Mem \cap Imm = {}
    /\ Reg \subseteq Place /\ Mem \subseteq Place
    /\ \A p \in Place : p \in Reg \/ p \in Mem
    /\ \A v \in Value : v \in Reg \/ v \in Mem \/ v \in Imm
BY MovesAssumption DEF Place, Value

\* When every pending move is blocked, what a pending move reads is what a
\* pending move writes: they form cycles.  (Each move leads to one that reads
\* its destination; destinations differ, so that this is an injection of a
\* finite set into itself, and comes by every move.)
LEMMA OnlyCycles ==
    ASSUME TypeOK, \A j \in Pending : Blocked(j)
    PROVE  \A j \in Pending : \E k \in Pending : src[j] = dst(k)
<1> DEFINE reader == [j \in Pending |-> CHOOSE k \in Pending : src[k] = dst(j)]
<1>1. \A j \in Pending : reader[j] \in Pending /\ src[reader[j]] = dst(j)
  BY DEF Blocked
<1>2. IsFiniteSet(Pending)
  <2>1. IsFiniteSet(1 .. Len(moves))
    BY MoveFacts, FS_Interval DEF TypeOK
  <2>2. Pending \in SUBSET (1 .. Len(moves))
    BY MoveFacts DEF Pending, TypeOK
  <2> QED BY <2>1, <2>2, FS_Subset
<1>3. \A j, k \in Pending : reader[j] = reader[k] => j = k
  <2>1. SUFFICES ASSUME NEW j \in Pending, NEW k \in Pending, reader[j] = reader[k]
                 PROVE  j = k
    OBVIOUS
  <2>2. dst(j) = dst(k)
    BY <1>1, <2>1
  <2> QED BY <2>2, MoveFacts DEF Pending, TypeOK
<1>4. reader \in Injection(Pending, Pending)
  <2>1. reader \in [Pending -> Pending]
    BY <1>1
  <2> QED BY <2>1, <1>3, Zenon DEF Injection, IsInjective
<1>5. reader \in Surjection(Pending, Pending)
  <2> HIDE DEF reader
  <2> QED BY <1>2, <1>4, FS_Injection
<1>6. \A j \in Pending : \E k \in Pending : reader[k] = j
  <2> HIDE DEF reader
  <2> QED BY <1>5 DEF Surjection
<1> QED BY <1>1, <1>6

-----------------------------------------------------------------------------
(* The invariant.                                                          *)

\* The invariant holds of every list as its callers build it.
LEMMA Initially == Init => IInv
<1> SUFFICES ASSUME Init PROVE IInv
  OBVIOUS
<1>1. WellFormed(moves)
  BY MovesAssumption DEF Init
<1> USE <1>1, MoveFacts, PlaceFacts
<1>2. TypeOK
  <2>1. src \in [Index -> Value] /\ val \in [Place -> Value]
    BY DEF Init, Value
  <2>2. phase \in {"mem", "reg", "load", "end"} /\ i \in 1 .. Len(moves) + 1 /\ done \subseteq Index
    BY DEF Init
  <2>3. progress \in BOOLEAN
    BY DEF Init
  <2> QED BY <2>1, <2>2, <2>3 DEF TypeOK
<1>3. SourcesWait
  BY DEF Init, SourcesWait, Read, Value
<1> QED BY <1>2, <1>3 DEF IInv, Init, OnlyRegistersRenamed, DoneIsMoved, OthersKept, StoresFirst,
                          StuckMeansBlocked, LoadsLast, Index

\* A move that is made when nobody else waits for what its destination holds.
LEMMA Moved ==
    ASSUME IInv, NEW j \in Index \ done, Emit(j), moves' = moves, src' = src,
           \A k \in Index \ done : k # j => src[k] # dst(j)
    PROVE  /\ val' \in [Place -> Value] /\ done' \subseteq Index
           /\ OnlyRegistersRenamed' /\ SourcesWait' /\ DoneIsMoved' /\ OthersKept'
<1> USE DEF IInv, TypeOK
<1> USE MoveFacts, PlaceFacts
<1>1. Index' = Index /\ done' = done \union {j} /\ \A k \in Index : dst(k)' = dst(k)
  BY DEF Index, dst, Emit
<1>2. Read(src[j]) = moves[j].src /\ moves[j].src \in Value
  BY DEF SourcesWait
<1>3. val' = [val EXCEPT ![dst(j)] = moves[j].src]
  BY <1>2 DEF Emit
<1>4. SourcesWait'
  <2> SUFFICES ASSUME NEW k \in Index \ done, k # j
               PROVE  Read(src[k])' = moves[k].src
    BY <1>1 DEF SourcesWait
  <2>1. Read(src[k])' = Read(src[k])
    BY <1>3 DEF Read, Value, Place
  <2> QED BY <2>1 DEF SourcesWait
<1>5. DoneIsMoved'
  <2> SUFFICES ASSUME NEW k \in done' PROVE val'[dst(k)] = moves[k].src
    BY <1>1 DEF DoneIsMoved
  <2>1. CASE k = j
    BY <2>1, <1>3
  <2>2. CASE k # j
    BY <2>2, <1>1, <1>3 DEF DoneIsMoved
  <2> QED BY <2>1, <2>2
<1>6. OthersKept'
  BY <1>1, <1>3 DEF OthersKept
<1> QED BY <1>1, <1>2, <1>3, <1>4, <1>5, <1>6 DEF OnlyRegistersRenamed

\* A step that moves nothing.
LEMMA Unmoved ==
    ASSUME IInv, UNCHANGED <<moves, src, done, val>>
    PROVE  OnlyRegistersRenamed' /\ SourcesWait' /\ DoneIsMoved' /\ OthersKept'
BY DEF IInv, OnlyRegistersRenamed, SourcesWait, DoneIsMoved, OthersKept, Index, dst, Read

\* Pending moves have a register to fill.
LEMMA PendingInRegisters ==
    ASSUME IInv, phase # "mem"
    PROVE  \A j \in Pending : j \in Index \ done /\ src[j] \in Reg /\ dst(j) \in Reg
BY MoveFacts, PlaceFacts DEF IInv, TypeOK, StoresFirst, Pending

\* A store reads a source that is still where its move looks for it.
LEMMA StoreMemKeeps == ASSUME IInv, StoreMem PROVE IInv'
<1> USE MoveFacts, PlaceFacts
<1>1. WellFormed(moves)' /\ Index' = Index /\ i \in 1 .. Len(moves) /\ phase' = "mem"
  BY DEF IInv, TypeOK, StoreMem, Index, WellFormed
<1>2. CASE dst(i) \in Mem
  <2>1. i \in Index \ done /\ Emit(i)
    BY <1>2 DEF StoreMem, IInv, StoresFirst, TypeOK
  <2>2. \A k \in Index \ done : k # i => src[k] # dst(i)
    <3> SUFFICES ASSUME NEW k \in Index, src[k] = dst(i) PROVE FALSE
      OBVIOUS
    <3>1. moves[k].src = dst(i)
      BY <1>2 DEF IInv, OnlyRegistersRenamed
    <3> QED BY <1>1, <1>2, <3>1 DEF IInv, TypeOK
  <2>3. /\ val' \in [Place -> Value] /\ done' \subseteq Index
        /\ OnlyRegistersRenamed' /\ SourcesWait' /\ DoneIsMoved' /\ OthersKept'
    BY <2>1, <2>2, Moved DEF StoreMem
  <2>4. TypeOK'
    BY <1>1, <2>3 DEF IInv, TypeOK, StoreMem
  <2>5. StoresFirst'
    BY <1>1, <2>1 DEF IInv, TypeOK, StoresFirst, StoreMem, Emit, dst
  <2> QED BY <1>1, <2>3, <2>4, <2>5 DEF IInv, StuckMeansBlocked, LoadsLast
<1>3. CASE dst(i) \notin Mem
  <2>1. UNCHANGED <<moves, src, done, val>>
    BY <1>3 DEF StoreMem
  <2>2. OnlyRegistersRenamed' /\ SourcesWait' /\ DoneIsMoved' /\ OthersKept'
    BY <2>1, Unmoved
  <2>3. TypeOK'
    BY <1>1, <2>1 DEF IInv, TypeOK, StoreMem
  <2>4. StoresFirst'
    BY <1>1, <1>3, <2>1 DEF IInv, TypeOK, StoresFirst, StoreMem, dst
  <2> QED BY <1>1, <2>2, <2>3, <2>4 DEF IInv, StuckMeansBlocked, LoadsLast
<1> QED BY <1>2, <1>3

\* A move onto itself is done already.
LEMMA MarkSelfKeeps == ASSUME IInv, MarkSelf PROVE IInv'
<1> USE MoveFacts, PlaceFacts
<1>1. /\ WellFormed(moves)' /\ Index' = Index /\ \A k : dst(k)' = dst(k)
      /\ \A k : Read(src[k])' = Read(src[k])
  BY DEF IInv, TypeOK, MarkSelf, Index, WellFormed, dst, Read
<1>2. done \subseteq done' /\ done' \subseteq Index
      /\ \A k \in done' \ done : src[k] = dst(k) /\ src[k] \in Reg
  BY DEF IInv, TypeOK, MarkSelf, Pending
<1>3. TypeOK'
  BY <1>1, <1>2 DEF IInv, TypeOK, MarkSelf
<1>4. OnlyRegistersRenamed' /\ OthersKept'
  BY <1>1 DEF IInv, MarkSelf, OnlyRegistersRenamed, OthersKept
<1>5. SourcesWait'
  BY <1>1, <1>2 DEF IInv, MarkSelf, SourcesWait
<1>6. DoneIsMoved'
  <2> SUFFICES ASSUME NEW k \in done' PROVE val[dst(k)] = moves[k].src
    BY <1>1 DEF DoneIsMoved, MarkSelf
  <2>1. CASE k \in done
    BY <2>1 DEF IInv, DoneIsMoved
  <2>2. CASE k \notin done
    BY <2>2, <1>2 DEF IInv, SourcesWait, Read
  <2> QED BY <2>1, <2>2
<1>7. StoresFirst'
  <2>1. i = Len(moves) + 1
    BY DEF IInv, TypeOK, MarkSelf
  <2> QED BY <1>1, <1>2, <2>1 DEF IInv, TypeOK, StoresFirst, MarkSelf
<1> QED BY <1>1, <1>3, <1>4, <1>5, <1>6, <1>7 DEF IInv, TypeOK, StuckMeansBlocked, LoadsLast, MarkSelf, Pending

\* A move overwrites a register that no move has still to read.
LEMMA MoveRegKeeps == ASSUME IInv, MoveReg PROVE IInv'
<1> USE MoveFacts, PlaceFacts
<1>1. /\ WellFormed(moves)' /\ Index' = Index /\ i \in 1 .. Len(moves) /\ phase' = "reg"
      /\ \A k : dst(k)' = dst(k)
  BY DEF IInv, TypeOK, MoveReg, Index, WellFormed, dst
<1>2. CASE i \in Pending /\ ~Blocked(i)
  <2>1. i \in Index \ done /\ Emit(i) /\ dst(i) \in Reg
    BY <1>2, PendingInRegisters DEF MoveReg
  <2>2. \A k \in Index \ done : k # i => src[k] # dst(i)
    BY <1>2, <2>1 DEF Blocked, Pending
  <2>3. /\ val' \in [Place -> Value] /\ done' \subseteq Index
        /\ OnlyRegistersRenamed' /\ SourcesWait' /\ DoneIsMoved' /\ OthersKept'
    BY <2>1, <2>2, Moved DEF MoveReg
  <2>4. progress' = TRUE
    BY <1>2 DEF MoveReg
  <2>5. TypeOK'
    BY <1>1, <2>3, <2>4 DEF IInv, TypeOK, MoveReg
  <2>6. StoresFirst'
    BY <1>1, <2>1 DEF IInv, StoresFirst, MoveReg, Emit
  <2> QED BY <1>1, <2>3, <2>4, <2>5, <2>6 DEF IInv, StuckMeansBlocked, LoadsLast
<1>3. CASE ~(i \in Pending /\ ~Blocked(i))
  <2>1. UNCHANGED <<moves, src, done, val, progress>>
    BY <1>3 DEF MoveReg
  <2>2. OnlyRegistersRenamed' /\ SourcesWait' /\ DoneIsMoved' /\ OthersKept'
    BY <2>1, Unmoved
  <2>3. TypeOK'
    BY <1>1, <2>1 DEF IInv, TypeOK, MoveReg
  <2>4. StoresFirst'
    BY <1>1, <2>1 DEF IInv, StoresFirst, MoveReg
  <2>5. Pending' = Pending /\ \A k : Blocked(k)' = Blocked(k)
    BY <1>1, <2>1 DEF Pending, Blocked, dst
  <2>6. StuckMeansBlocked'
    BY <1>1, <1>3, <2>1, <2>5 DEF IInv, TypeOK, StuckMeansBlocked, MoveReg, Pending
  <2> QED BY <1>1, <2>2, <2>3, <2>4, <2>6 DEF IInv, LoadsLast
<1> QED BY <1>2, <1>3

\* The heart of the matter: xchg on a cycle.  What the first pending move reads
\* is a pending destination, so that neither register belongs to a move that is
\* done or to nobody.
LEMMA RotateKeeps == ASSUME IInv, Rotate PROVE IInv'
<1> USE MoveFacts, PlaceFacts
<1>1. PICK j \in Pending :
         LET d == dst(j)
             s == src[j]
             swap(x) == IF x = d THEN s ELSE IF x = s THEN d ELSE x
             others == Pending \ {j}
         IN  /\ val' = [val EXCEPT ![d] = val[s], ![s] = val[d]]
             /\ src' = [k \in Index |-> IF k \in others THEN swap(src[k]) ELSE src[k]]
             /\ done' = done \union {j} \union {k \in others : src'[k] = dst(k)}
  BY DEF Rotate
<1> DEFINE d == dst(j)
           s == src[j]
           swap(x) == IF x = d THEN s ELSE IF x = s THEN d ELSE x
           others == Pending \ {j}
<1>2. /\ val' = [val EXCEPT ![d] = val[s], ![s] = val[d]]
      /\ src' = [k \in Index |-> IF k \in others THEN swap(src[k]) ELSE src[k]]
      /\ done' = done \union {j} \union {k \in others : src'[k] = dst(k)}
  BY <1>1
<1>3. /\ WellFormed(moves)' /\ Index' = Index /\ \A k : dst(k)' = dst(k)
      /\ moves' = moves /\ phase = "reg" /\ phase' = "reg" /\ i' = 1
  BY DEF IInv, TypeOK, Rotate, Index, WellFormed, dst
<1>4. \A k \in Pending : k \in Index \ done /\ src[k] \in Reg /\ dst(k) \in Reg
  BY <1>3, PendingInRegisters
<1>5. PICK w \in Pending : s = dst(w)
  <2>1. \A k \in Pending : Blocked(k)
    BY <1>3, <1>4 DEF IInv, TypeOK, Rotate, StuckMeansBlocked
  <2> QED BY <2>1, OnlyCycles DEF IInv
<1>6. \A x \in Reg : swap(x) \in Reg /\ val'[swap(x)] = val[x]
  <2>1. d \in Reg /\ s \in Reg
    BY <1>4
  <2>2. \A x \in Reg : swap(x) \in Reg
    BY <2>1
  <2>3. val'[s] = val[d] /\ val'[d] = val[s] /\ \A x \in Place : x # d /\ x # s => val'[x] = val[x]
    BY <1>2, <2>1 DEF IInv, TypeOK
  <2> QED BY <2>2, <2>3
<1>7. \A p \in Place : p # d /\ p # s => val'[p] = val[p]
  BY <1>2 DEF IInv, TypeOK
<1>8. /\ \A k \in others : src'[k] = swap(src[k]) /\ src'[k] \in Reg
      /\ \A k \in Index \ others : src'[k] = src[k]
  BY <1>2, <1>4, <1>6
<1> HIDE DEF d, s, swap
<1>9. TypeOK'
  <2>1. src' \in [Index -> Value]
    BY <1>2, <1>8 DEF IInv, TypeOK, Value
  <2>2. val' \in [Place -> Value]
    BY <1>2, <1>4 DEF IInv, TypeOK, d, s
  <2>3. done' \subseteq Index
    BY <1>2, <1>4 DEF IInv, TypeOK
  <2>4. progress' \in BOOLEAN
    BY DEF IInv, TypeOK, Rotate
  <2> QED BY <1>3, <2>1, <2>2, <2>3, <2>4 DEF TypeOK, IInv
<1>10. OnlyRegistersRenamed'
  BY <1>3, <1>8 DEF IInv, OnlyRegistersRenamed
<1>11. \A k \in (Index \ done) \ {j} : Read(src[k])' = moves[k].src
  <2> SUFFICES ASSUME NEW k \in (Index \ done) \ {j} PROVE Read(src[k])' = moves[k].src
    OBVIOUS
  <2>1. Read(src[k]) = moves[k].src
    BY DEF IInv, SourcesWait
  <2>2. CASE k \in others
    BY <2>1, <2>2, <1>4, <1>6, <1>8 DEF Read
  <2>3. CASE k \notin others
    <3>1. src[k] \notin Reg /\ src'[k] = src[k]
      BY <2>3, <1>8 DEF Pending
    <3>2. src[k] # d /\ src[k] # s
      BY <3>1, <1>4 DEF d, s
    <3> QED BY <2>1, <3>1, <3>2, <1>7 DEF Read, IInv, TypeOK, Value
  <2> QED BY <2>2, <2>3
<1>12. SourcesWait'
  BY <1>2, <1>3, <1>11 DEF SourcesWait
<1>13. DoneIsMoved'
  <2> SUFFICES ASSUME NEW k \in done' PROVE val'[dst(k)] = moves[k].src
    BY <1>3 DEF DoneIsMoved
  <2>1. CASE k \in done
    <3>1. dst(k) # d /\ dst(k) # s
      BY <2>1, <1>4, <1>5 DEF d, IInv, TypeOK
    <3> QED BY <2>1, <3>1, <1>7 DEF IInv, TypeOK, DoneIsMoved
  <2>2. CASE k = j
    <3>1. val'[swap(s)] = val[s] /\ swap(s) = d
      BY <1>4, <1>6 DEF s, swap, d
    <3>2. val[s] = moves[j].src
      BY <1>4 DEF IInv, SourcesWait, Read, s
    <3> QED BY <2>2, <3>1, <3>2 DEF d
  <2>3. CASE k \in others /\ src'[k] = dst(k)
    <3>1. k \in (Index \ done) \ {j} /\ dst(k) \in Reg
      BY <2>3, <1>4
    <3> QED BY <2>3, <3>1, <1>11 DEF Read
  <2> QED BY <2>1, <2>2, <2>3, <1>2
<1>14. OthersKept'
  <2> SUFFICES ASSUME NEW p \in Place, \A k \in Index : dst(k) # p PROVE val'[p] = p
    BY <1>3 DEF OthersKept
  <2>1. p # d /\ p # s
    BY <1>4, <1>5 DEF d
  <2> QED BY <2>1, <1>7 DEF IInv, OthersKept
<1>15. StoresFirst'
  BY <1>2, <1>3 DEF IInv, StoresFirst
<1> QED BY <1>3, <1>9, <1>10, <1>12, <1>13, <1>14, <1>15 DEF IInv, TypeOK, StuckMeansBlocked, LoadsLast, Pending

\* A load overwrites a register that no move reads: all other moves are done.
LEMMA LoadKeeps == ASSUME IInv, Load PROVE IInv'
<1> USE MoveFacts, PlaceFacts
<1>1. /\ WellFormed(moves)' /\ Index' = Index /\ i \in 1 .. Len(moves) /\ phase' = "load"
      /\ \A k : dst(k)' = dst(k)
  BY DEF IInv, TypeOK, Load, Index, WellFormed, dst
<1>2. Pending = {}
  BY DEF IInv, LoadsLast, Load
<1>3. CASE i \notin done
  <2>1. i \in Index \ done /\ Emit(i)
    BY <1>3 DEF Load
  <2>2. \A k \in Index \ done : k # i => src[k] # dst(i)
    <3> SUFFICES ASSUME NEW k \in Index \ done, src[k] = dst(i) PROVE FALSE
      OBVIOUS
    <3>1. src[k] \notin Reg /\ dst(i) \in Place
      BY <1>1, <1>2 DEF Pending, IInv, TypeOK
    <3>2. moves[k].src = dst(i)
      BY <3>1 DEF IInv, OnlyRegistersRenamed
    <3> QED BY <1>1, <3>1, <3>2 DEF IInv, TypeOK
  <2>3. /\ val' \in [Place -> Value] /\ done' \subseteq Index
        /\ OnlyRegistersRenamed' /\ SourcesWait' /\ DoneIsMoved' /\ OthersKept'
    BY <2>1, <2>2, Moved DEF Load
  <2>4. TypeOK'
    BY <1>1, <2>3 DEF IInv, TypeOK, Load
  <2>5. StoresFirst'
    BY <1>1, <2>1 DEF IInv, StoresFirst, Load, Emit
  <2>6. LoadsLast'
    BY <1>1, <1>2, <2>1 DEF IInv, TypeOK, LoadsLast, Load, Emit, Pending
  <2> QED BY <1>1, <2>3, <2>4, <2>5, <2>6 DEF IInv, StuckMeansBlocked
<1>4. CASE i \in done
  <2>1. UNCHANGED <<moves, src, done, val>>
    BY <1>4 DEF Load
  <2>2. OnlyRegistersRenamed' /\ SourcesWait' /\ DoneIsMoved' /\ OthersKept'
    BY <2>1, Unmoved
  <2>3. TypeOK'
    BY <1>1, <2>1 DEF IInv, TypeOK, Load
  <2>4. StoresFirst'
    BY <1>1, <2>1 DEF IInv, StoresFirst, Load
  <2>5. LoadsLast'
    BY <1>1, <1>2, <1>4, <2>1 DEF IInv, TypeOK, LoadsLast, Load, Pending
  <2> QED BY <1>1, <2>2, <2>3, <2>4, <2>5 DEF IInv, StuckMeansBlocked
<1> QED BY <1>3, <1>4

\* The steps between the loops.
LEMMA NextPhaseKeeps ==
    ASSUME IInv, NextPass \/ AllMoved \/ Finish \/ UNCHANGED vars
    PROVE  IInv'
<1> USE MoveFacts, PlaceFacts
<1>1. UNCHANGED <<moves, src, done, val>>
  BY DEF NextPass, AllMoved, Finish, vars
<1>2. /\ WellFormed(moves)' /\ Index' = Index /\ Pending' = Pending /\ \A k : dst(k)' = dst(k)
      /\ \A k : Blocked(k)' = Blocked(k)
  BY <1>1 DEF IInv, TypeOK, Index, WellFormed, Pending, dst, Blocked
<1>3. OnlyRegistersRenamed' /\ SourcesWait' /\ DoneIsMoved' /\ OthersKept'
  BY <1>1, Unmoved
<1>4. CASE NextPass
  <2>1. TypeOK'
    <3>1. progress' \in BOOLEAN /\ i' = 1 /\ phase' = phase
      BY <1>4 DEF NextPass
    <3> QED BY <1>1, <1>2, <3>1 DEF IInv, TypeOK
  <2> QED BY <1>1, <1>2, <1>3, <1>4, <2>1
          DEF IInv, TypeOK, StoresFirst, StuckMeansBlocked, LoadsLast, NextPass, Pending
<1>5. CASE AllMoved
  <2>1. TypeOK'
    BY <1>1, <1>2, <1>5 DEF IInv, TypeOK, AllMoved
  <2> QED BY <1>1, <1>2, <1>3, <1>5, <2>1
          DEF IInv, TypeOK, StoresFirst, StuckMeansBlocked, LoadsLast, AllMoved
<1>6. CASE Finish
  <2>1. TypeOK'
    BY <1>1, <1>2, <1>6 DEF IInv, TypeOK, Finish
  <2>2. Index \subseteq done
    BY <1>6 DEF IInv, TypeOK, LoadsLast, Finish
  <2> QED BY <1>1, <1>2, <1>3, <1>6, <2>1, <2>2
          DEF IInv, StoresFirst, StuckMeansBlocked, LoadsLast, Finish
<1>7. CASE UNCHANGED vars
  BY <1>1, <1>2, <1>3, <1>7 DEF IInv, TypeOK, StoresFirst, StuckMeansBlocked, LoadsLast, vars
<1> QED BY <1>4, <1>5, <1>6, <1>7

\* All steps together.
LEMMA StepKeeps == IInv /\ [Next]_vars => IInv'
BY StoreMemKeeps, MarkSelfKeeps, MoveRegKeeps, RotateKeeps, LoadKeeps, NextPhaseKeeps DEF Next

-----------------------------------------------------------------------------
(* The loops end.                                                          *)

Stage == [mem |-> 3, reg |-> 2, load |-> 1, end |-> 0][phase]

\* What is left to do: phases, moves in them, another pass when this one has
\* emitted any, moves to look at in the pass.
Left == <<Stage, Cardinality(Index \ done), IF progress THEN 1 ELSE 0, Len(moves) + 1 - i>>

\* Making moves brings down how many are left.
LEMMA FewerLeft ==
    ASSUME IInv, IInv', moves' = moves, done \subseteq done'
    PROVE  /\ Cardinality(Index \ done) \in Nat /\ Cardinality(Index' \ done') \in Nat
           /\ Cardinality(Index' \ done') <= Cardinality(Index \ done)
           /\ done' # done => Cardinality(Index' \ done') < Cardinality(Index \ done)
<1>1. Index' = Index /\ done' \subseteq Index /\ Index = 1 .. Len(moves) /\ Len(moves) \in Nat
  BY MoveFacts DEF Index, IInv, TypeOK
<1>2. IsFiniteSet(Index \ done)
  <2>1. IsFiniteSet(Index)
    BY <1>1, FS_Interval
  <2> QED BY <2>1, FS_Subset
<1>3. Index \ done' \in SUBSET (Index \ done) /\ (done' # done => Index \ done' # Index \ done)
  BY <1>1
<1>4. IsFiniteSet(Index \ done') /\ Cardinality(Index \ done') <= Cardinality(Index \ done)
      /\ (Cardinality(Index \ done) = Cardinality(Index \ done') => Index \ done = Index \ done')
  BY <1>2, <1>3, FS_Subset
<1>5. Cardinality(Index \ done) \in Nat /\ Cardinality(Index \ done') \in Nat
  BY <1>2, <1>4, FS_CardinalityType
<1> QED BY <1>1, <1>3, <1>4, <1>5

\* What is left of the moves is a quadruple of natural numbers.
LEMMA LeftIsMeasure == IInv => Left \in Measure
<1> SUFFICES ASSUME IInv PROVE Left \in Measure
  OBVIOUS
<1>1. Len(moves) \in Nat /\ i \in 1 .. Len(moves) + 1 /\ Index = 1 .. Len(moves)
  BY MoveFacts DEF IInv, TypeOK
<1>2. Cardinality(Index \ done) \in Nat
  <2>1. IsFiniteSet(Index)
    BY <1>1, FS_Interval
  <2>2. IsFiniteSet(Index \ done)
    BY <2>1, FS_Subset
  <2> QED BY <2>2, FS_CardinalityType
<1>3. Stage \in Nat
  BY DEF Stage, IInv, TypeOK
<1> QED BY <1>1, <1>2, <1>3 DEF Left, Measure

\* Every step makes what is left smaller.
LEMMA StepEnds ==
    ASSUME IInv, IInv', Next
    PROVE  Below(Left', Left)
<1> DEFINE n == Cardinality(Index \ done)
           m == Cardinality(Index' \ done')
<1>1. Len(moves) \in Nat /\ Index = 1 .. Len(moves) /\ i \in Nat /\ moves' = moves /\ done \subseteq done'
  <2>1. moves' = moves /\ done \subseteq done'
    BY DEF Next, StoreMem, MarkSelf, MoveReg, NextPass, Rotate, AllMoved, Load, Finish, Emit
  <2> QED BY <2>1, MoveFacts DEF IInv, TypeOK
<1>2. n \in Nat /\ m \in Nat /\ m <= n /\ (done' # done => m < n)
  BY <1>1, FewerLeft
<1> HIDE DEF n, m
<1>3. /\ Left = <<Stage, n, IF progress THEN 1 ELSE 0, Len(moves) + 1 - i>>
      /\ Left' = <<Stage', m, IF progress' THEN 1 ELSE 0, Len(moves) + 1 - i'>>
  BY <1>1 DEF Left, n, m
<1>4. CASE Stage' < Stage
  BY <1>3, <1>4 DEF Below
<1>5. CASE Stage' = Stage /\ done' # done
  BY <1>2, <1>3, <1>5 DEF Below
<1>6. CASE Stage' = Stage /\ done' = done /\ progress /\ ~progress'
  <2>1. m = n
    BY <1>1, <1>6 DEF m, n, Index
  <2> QED BY <1>3, <1>6, <2>1 DEF Below
<1>7. CASE Stage' = Stage /\ done' = done /\ progress' = progress /\ i' = i + 1
  <2>1. m = n
    BY <1>1, <1>7 DEF m, n, Index
  <2>2. (IF progress' THEN 1 ELSE 0) = (IF progress THEN 1 ELSE 0)
    BY <1>7
  <2>3. Len(moves) + 1 - i' < Len(moves) + 1 - i
    BY <1>1, <1>7
  <2> QED BY <1>3, <1>7, <2>1, <2>2, <2>3 DEF Below
<1>8. CASE StoreMem \/ Load
  BY <1>5, <1>7, <1>8 DEF StoreMem, Load, Stage
<1>9. CASE MarkSelf \/ AllMoved \/ Finish
  BY <1>4, <1>9 DEF MarkSelf, AllMoved, Finish, Stage
<1>10. CASE MoveReg
  <2>1. CASE i \in Pending /\ ~Blocked(i)
    BY <1>5, <1>10, <2>1 DEF MoveReg, Emit, Pending, Stage
  <2>2. CASE ~(i \in Pending /\ ~Blocked(i))
    BY <1>7, <1>10, <2>2 DEF MoveReg, Stage
  <2> QED BY <2>1, <2>2
<1>11. CASE NextPass
  BY <1>6, <1>11 DEF NextPass, Stage
<1>12. CASE Rotate
  <2>1. PICK j \in Pending : done \union {j} \subseteq done'
    BY <1>12 DEF Rotate
  <2>2. done' # done /\ phase' = phase
    BY <1>12, <2>1 DEF Pending, Rotate
  <2> QED BY <1>5, <2>2 DEF Stage
<1> QED BY <1>8, <1>9, <1>10, <1>11, <1>12 DEF Next

-----------------------------------------------------------------------------
(* Theorems.                                                               *)

\* The inductive invariant, the type invariant included, holds for every set of
\* lists, however emit_par_moves goes through its loops.
THEOREM Invariance == Spec => []IInv
<1> QED BY Initially, StepKeeps, PTL DEF Spec

\* No move, store or rotation destroys a value that a move still has to read.
THEOREM NothingLost == Spec => []SourcesWait
<1>1. IInv => SourcesWait
  BY DEF IInv
<1> QED BY <1>1, Invariance, PTL

\* When emit_par_moves is through, every destination holds what its source held
\* in the beginning, and nothing else has changed.
THEOREM MovedAtOnce == Spec => []AtOnce
<1>1. IInv => AtOnce
  BY DEF IInv, AtOnce, DoneIsMoved, OthersKept, LoadsLast
<1> QED BY <1>1, Invariance, PTL

\* The passes over the moves (emit_par_moves loops until none is left) and the
\* rotations cannot go on for ever: every step makes what is left smaller.
THEOREM Ends == Spec => [](Left \in Measure) /\ [][Below(Left', Left)]_vars
<1>1. IInv /\ IInv' /\ [Next]_vars => [Below(Left', Left)]_vars
  BY StepEnds
<1> QED BY <1>1, LeftIsMeasure, Invariance, PTL DEF Spec
=============================================================================
