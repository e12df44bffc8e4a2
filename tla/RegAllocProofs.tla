--------------------------- MODULE RegAllocProofs ---------------------------
(***************************************************************************)
(* For every function, any number of values and registers: the dataflow    *)
(* finds exactly what is live, the intervals made from it cover it,        *)
(* parameters come to different places, and the function, run with its     *)
(* values where the scan put them, reads every value where it was written  *)
(* last.                                                                   *)
(***************************************************************************)
EXTENDS RegAlloc, Descent, FiniteSetTheorems, SequenceTheorems, TLAPS

-----------------------------------------------------------------------------
(* Induction, and functions defined by recursion over the natural numbers. *)

\* A set of natural numbers has a least element.  (Otherwise the numbers below
\* the whole set, which are finitely many, could be counted up by one and would
\* stay among themselves, without 0.)
LEMMA Least ==
    ASSUME NEW T \in SUBSET Nat, T # {}
    PROVE  \E x \in T : \A y \in T : x <= y
<1> SUFFICES ASSUME \A x \in T : \E y \in T : y < x
             PROVE  FALSE
  OBVIOUS
<1>1. PICK t \in T : TRUE
  OBVIOUS
<1> DEFINE D == {x \in 0 .. t : \A y \in T : x < y}
           up == [x \in D |-> x + 1]
<1>2. \A x \in D : x + 1 \in D
  <2> SUFFICES ASSUME NEW x \in D PROVE x + 1 \in D
    OBVIOUS
  <2>1. x < t /\ x \in Nat /\ t \in Nat
    BY <1>1
  <2>2. x + 1 \notin T
    OBVIOUS
  <2>3. \A y \in T : x + 1 < y
    BY <2>2
  <2> QED BY <2>1, <2>3
<1>3. IsFiniteSet(D)
  <2>1. IsFiniteSet(0 .. t)
    BY <1>1, FS_Interval
  <2> QED BY <2>1, FS_Subset
<1>4. up \in Injection(D, D)
  <2>1. up \in [D -> D]
    BY <1>2
  <2>2. \A a, b \in D : up[a] = up[b] => a = b
    OBVIOUS
  <2> QED BY <2>1, <2>2, Zenon DEF Injection, IsInjective
<1>5. up \in Surjection(D, D)
  <2> HIDE DEF up, D
  <2> QED BY <1>3, <1>4, FS_Injection
<1>6. 0 \in D
  <2>1. 0 \notin T
    OBVIOUS
  <2> QED BY <1>1, <2>1
<1>7. \E x \in D : up[x] = 0
  <2> HIDE DEF up, D
  <2> QED BY <1>5, <1>6 DEF Surjection
<1> QED BY <1>7

\* A set of natural numbers below some bound has a greatest one.
LEMMA Greatest ==
    ASSUME NEW n \in Nat, NEW T \in SUBSET (0 .. n), T # {}
    PROVE  \E x \in T : \A y \in T : y <= x
<1> DEFINE D == {d \in 0 .. n : n - d \in T}
<1>1. D \in SUBSET Nat /\ D # {}
  <2>1. PICK t \in T : TRUE
    OBVIOUS
  <2>2. n - t \in 0 .. n /\ n - (n - t) = t
    BY <2>1
  <2> QED BY <2>1, <2>2
<1>2. PICK d \in D : \A e \in D : d <= e
  <2> HIDE DEF D
  <2> QED BY <1>1, Least
<1>3. ASSUME NEW y \in T PROVE y <= n - d
  <2>1. n - y \in D
    OBVIOUS
  <2>2. d <= n - y
    BY <1>2, <2>1
  <2>3. d \in Nat /\ y \in Nat
    BY <1>2
  <2> QED BY <2>2, <2>3
<1> QED BY <1>2, <1>3

\* Induction.
LEMMA Induction ==
    ASSUME NEW S, 0 \in S, \A n \in Nat : n \in S => n + 1 \in S
    PROVE  \A n \in Nat : n \in S
<1> SUFFICES ASSUME NEW m \in Nat, m \notin S PROVE FALSE
  OBVIOUS
<1> DEFINE T == {n \in Nat : n \notin S}
<1>1. PICK n \in T : \A k \in T : n <= k
  <2>1. T \in SUBSET Nat /\ T # {}
    OBVIOUS
  <2> HIDE DEF T
  <2> QED BY <2>1, Least
<1>2. n - 1 \in Nat /\ (n - 1) + 1 = n
  <2>1. n # 0
    BY <1>1
  <2> QED BY <1>1, <2>1
<1>3. n - 1 \in S
  BY <1>1, <1>2
<1> QED BY <1>1, <1>2, <1>3

\* Min and Max are what they are called.
LEMMA MinFacts ==
    ASSUME NEW T \in SUBSET Nat, T # {}
    PROVE  Min(T) \in T /\ \A y \in T : Min(T) <= y
<1>1. \E x \in T : \A y \in T : x <= y
  BY Least
<1> QED BY <1>1 DEF Min

\* A set of positions that is not empty has a greatest one.
LEMMA MaxFacts ==
    ASSUME NEW n \in Nat, NEW T \in SUBSET (0 .. n), T # {}
    PROVE  Max(T) \in T /\ \A y \in T : y <= Max(T)
<1>1. \E x \in T : \A y \in T : x >= y
  BY Greatest
<1> QED BY <1>1 DEF Max

\* f takes the value c at 0 and steps by F.
StepsBy(f, c, F) == \A n \in Nat : f[n] = IF n = 0 THEN c ELSE F[<<f[n - 1], n>>]

\* The step of a recursion, given as a function, determines one value for every
\* number: the values up to n exist by induction, and those for different n
\* agree.
LEMMA Recursion ==
    ASSUME NEW S, NEW c \in S, NEW F \in [S \X Nat -> S]
    PROVE  \E f \in [Nat -> S] : StepsBy(f, c, F)
<1> DEFINE G(n) == {g \in [0 .. n -> S] : g[0] = c /\ \A i \in 1 .. n : g[i] = F[<<g[i - 1], i>>]}
           Some == {n \in Nat : G(n) # {}}
           Same == {i \in Nat : \A m, n \in Nat : i <= m /\ i <= n =>
                                   \A g \in G(m), h \in G(n) : g[i] = h[i]}
<1>1. \A n \in Nat : G(n) # {}
  <2>1. 0 \in Some
    <3>1. [i \in 0 .. 0 |-> c] \in G(0)
      OBVIOUS
    <3> QED BY <3>1
  <2>2. ASSUME NEW n \in Nat, n \in Some PROVE n + 1 \in Some
    <3>1. PICK g \in G(n) : TRUE
      BY <2>2
    <3>2. g \in [0 .. n -> S] /\ g[0] = c /\ \A i \in 1 .. n : g[i] = F[<<g[i - 1], i>>]
      BY <3>1
    <3> DEFINE h == [i \in 0 .. n + 1 |-> IF i <= n THEN g[i] ELSE F[<<g[n], n + 1>>]]
    <3>3. h \in [0 .. n + 1 -> S]
      <4>1. ASSUME NEW i \in 0 .. n + 1 PROVE (IF i <= n THEN g[i] ELSE F[<<g[n], n + 1>>]) \in S
        <5>1. CASE i <= n
          BY <3>2, <5>1
        <5>2. CASE ~(i <= n)
          <6>1. <<g[n], n + 1>> \in S \X Nat
            BY <3>2
          <6> QED BY <5>2, <6>1
        <5> QED BY <5>1, <5>2
      <4> QED BY <4>1
    <3>4. h[0] = c
      BY <3>2
    <3>5. ASSUME NEW i \in 1 .. n + 1 PROVE h[i] = F[<<h[i - 1], i>>]
      <4>1. h[i - 1] = g[i - 1] /\ i - 1 \in 0 .. n
        OBVIOUS
      <4>2. CASE i <= n
        <5>1. i \in 1 .. n /\ h[i] = g[i]
          BY <4>2
        <5> QED BY <3>2, <4>1, <5>1
      <4>3. CASE ~(i <= n)
        <5>1. i = n + 1 /\ i - 1 = n
          BY <4>3
        <5>2. h[i] = F[<<g[n], n + 1>>]
          BY <5>1
        <5> QED BY <4>1, <5>1, <5>2
      <4> QED BY <4>2, <4>3
    <3>6. h \in G(n + 1)
      <4> HIDE DEF h
      <4> QED BY <3>3, <3>4, <3>5
    <3>7. G(n + 1) # {} /\ n + 1 \in Nat
      <4> HIDE DEF h, G
      <4> QED BY <3>6
    <3> HIDE DEF G
    <3> QED BY <3>7
  <2> HIDE DEF Some
  <2>3. \A n \in Nat : n \in Some
    BY <2>1, <2>2, Induction
  <2> USE DEF Some
  <2> QED BY <2>3
<1>2. \A i \in Nat : i \in Same
  <2>1. 0 \in Same
    OBVIOUS
  <2>2. ASSUME NEW i \in Nat, i \in Same PROVE i + 1 \in Same
    <3>1. ASSUME NEW m \in Nat, NEW n \in Nat, i + 1 <= m, i + 1 <= n, NEW g \in G(m), NEW h \in G(n)
          PROVE  g[i + 1] = h[i + 1]
      <4>1. g[i] = h[i]
        <5>1. i <= m /\ i <= n
          BY <3>1
        <5> HIDE DEF G
        <5> QED BY <2>2, <3>1, <5>1
      <4>2. i + 1 \in 1 .. m /\ i + 1 \in 1 .. n /\ (i + 1) - 1 = i
        BY <3>1
      <4> QED BY <4>1, <4>2
    <3>2. i + 1 \in Nat
      OBVIOUS
    <3> HIDE DEF G
    <3> QED BY <3>1, <3>2
  <2> HIDE DEF Same
  <2> QED BY <2>1, <2>2, Induction
<1> DEFINE pick == [n \in Nat |-> CHOOSE g \in G(n) : TRUE]
           f == [n \in Nat |-> pick[n][n]]
<1>3. \A n \in Nat : pick[n] \in G(n)
  BY <1>1
<1> HIDE DEF pick
<1>4. f \in [Nat -> S]
  <2>1. ASSUME NEW n \in Nat PROVE pick[n][n] \in S
    BY <1>3
  <2> QED BY <2>1
<1>5. ASSUME NEW n \in Nat PROVE f[n] = IF n = 0 THEN c ELSE F[<<f[n - 1], n>>]
  <2>1. CASE n = 0
    BY <1>3, <2>1
  <2>2. CASE n # 0
    <3>1. n - 1 \in Nat /\ n \in 1 .. n /\ n - 1 <= n /\ n - 1 <= n - 1
      BY <2>2
    <3>2. pick[n] \in G(n) /\ pick[n - 1] \in G(n - 1)
      BY <1>3, <3>1
    <3>3. pick[n][n] = F[<<pick[n][n - 1], n>>]
      BY <3>1, <3>2
    <3>4. pick[n][n - 1] = pick[n - 1][n - 1]
      <4>1. n - 1 \in Same
        BY <1>2, <3>1
      <4> HIDE DEF G
      <4> QED BY <3>1, <3>2, <4>1
    <3>5. f[n] = pick[n][n] /\ f[n - 1] = pick[n - 1][n - 1]
      BY <3>1
    <3> QED BY <2>2, <3>3, <3>4, <3>5
  <2> QED BY <2>1, <2>2
<1> HIDE DEF f
<1> QED BY <1>4, <1>5 DEF StepsBy

-----------------------------------------------------------------------------
(* Functions and their blocks.                                             *)

\* What a function is made of.
LEMMA ProgramFacts ==
    ASSUME prog \in Programs
    PROVE  /\ Len(prog) \in Nat /\ Len(prog) >= 1
           /\ Positions = 1 .. Len(prog)
           /\ \A i \in Positions : prog[i] \in Instruction
           /\ \A i \in Positions : Reads(prog[i]) \subseteq VReg /\ Writes(prog[i]) \subseteq VReg
<1>1. prog \in Seq(Instruction) /\ prog # <<>>
  BY LivenessAssumption
<1>2. Len(prog) \in Nat /\ Len(prog) # 0 /\ DOMAIN prog = 1 .. Len(prog)
  BY <1>1, EmptySeq, LenProperties
<1>3. \A i \in 1 .. Len(prog) : prog[i] \in Instruction
  BY <1>1, ElementOfSeq
<1>4. ASSUME NEW ins \in Instruction PROVE Reads(ins) \subseteq VReg /\ Writes(ins) \subseteq VReg
  <2>1. /\ ins.src1 \in Operand /\ ins.src2 \in Operand /\ ins.dest \in Operand /\ ins.args \in Seq(Operand)
    BY DEF Instruction
  <2>2. \A a \in DOMAIN ins.args : ins.args[a] \in Operand
    BY <2>1, LenProperties, ElementOfSeq
  <2> QED BY <2>1, <2>2 DEF Reads, Writes, Real, Operand
<1> QED BY <1>2, <1>3, <1>4 DEF Positions

\* A block reaches from its first position to the one before the next block.
LEMMA BlockFacts ==
    ASSUME prog \in Programs
    PROVE  /\ Blocks \subseteq Positions /\ 1 \in Blocks
           /\ \A b \in Blocks : /\ LastOf(b) \in Positions /\ b <= LastOf(b)
                                /\ \A i \in b + 1 .. LastOf(b) : i \notin Blocks
                                /\ LastOf(b) + 1 \in Positions => LastOf(b) + 1 \in Blocks
<1>1. Len(prog) \in Nat /\ Len(prog) >= 1 /\ Positions = 1 .. Len(prog)
  BY ProgramFacts
<1>2. Blocks \subseteq Positions /\ 1 \in Blocks
  BY <1>1 DEF Blocks
<1>3. ASSUME NEW b \in Blocks
      PROVE  /\ LastOf(b) \in Positions /\ b <= LastOf(b)
             /\ \A i \in b + 1 .. LastOf(b) : i \notin Blocks
             /\ LastOf(b) + 1 \in Positions => LastOf(b) + 1 \in Blocks
  <2> DEFINE T == {i - 1 : i \in {j \in Blocks \union {Len(prog) + 1} : j > b}}
  <2>1. b \in 1 .. Len(prog)
    BY <1>1, <1>2
  <2>2. \A i \in Blocks : i \in 1 .. Len(prog)
    BY <1>1, <1>2
  <2>3. T \in SUBSET Nat
    <3>1. ASSUME NEW j \in Blocks \union {Len(prog) + 1} PROVE j - 1 \in Nat
      BY <1>1, <2>2
    <3> QED BY <3>1
  <2>4. Len(prog) \in T
    <3>1. Len(prog) + 1 \in {j \in Blocks \union {Len(prog) + 1} : j > b} /\ (Len(prog) + 1) - 1 = Len(prog)
      BY <1>1, <2>1
    <3> QED BY <3>1
  <2>5. LastOf(b) \in T /\ \A y \in T : LastOf(b) <= y
    <3> HIDE DEF T
    <3>1. Min(T) \in T /\ \A y \in T : Min(T) <= y
      BY <2>3, <2>4, MinFacts
    <3>2. LastOf(b) = Min(T)
      BY DEF LastOf, T
    <3> QED BY <3>1, <3>2
  <2>6. PICK n \in Blocks \union {Len(prog) + 1} : n > b /\ LastOf(b) = n - 1
    BY <2>5
  <2>7. n \in Nat /\ n <= Len(prog) + 1
    BY <1>1, <2>2
  <2>8. LastOf(b) \in Positions /\ b <= LastOf(b)
    BY <1>1, <2>1, <2>6, <2>7
  <2>9. ASSUME NEW i \in b + 1 .. LastOf(b), i \in Blocks PROVE FALSE
    <3>1. i - 1 \in T
      BY <2>1, <2>9
    <3>2. LastOf(b) <= i - 1 /\ i \in Nat /\ LastOf(b) \in Nat
      BY <1>1, <2>2, <2>5, <2>8, <3>1
    <3> QED BY <2>9, <3>2
  <2>10. ASSUME LastOf(b) + 1 \in Positions PROVE LastOf(b) + 1 \in Blocks
    <3>1. LastOf(b) + 1 = n /\ n # Len(prog) + 1
      BY <1>1, <2>6, <2>7, <2>10
    <3> QED BY <3>1
  <2> QED BY <2>8, <2>9, <2>10
<1> QED BY <1>2, <1>3

\* Every position is in one block.
LEMMA BlockOf ==
    ASSUME prog \in Programs, NEW i \in Positions
    PROVE  \E b \in Blocks : i \in Body(b) /\ \A c \in Blocks : i \in Body(c) => c = b
<1>1. Len(prog) \in Nat /\ Positions = 1 .. Len(prog) /\ Blocks \subseteq Positions /\ 1 \in Blocks
  BY ProgramFacts, BlockFacts
<1>0. i \in 1 .. Len(prog)
  BY <1>1
<1> DEFINE T == {b \in Blocks : b <= i}
<1>2. PICK b \in T : \A y \in T : y <= b
  <2>1. T \in SUBSET (0 .. Len(prog))
    <3>1. \A b \in T : b \in 0 .. Len(prog)
      BY <1>1
    <3> HIDE DEF T
    <3> QED BY <3>1
  <2>2. 1 \in T
    BY <1>0, <1>1
  <2> HIDE DEF T
  <2> QED BY <1>1, <2>1, <2>2, Greatest
<1>3. i <= LastOf(b)
  <2>1. LastOf(b) \in Positions
    BY BlockFacts
  <2> SUFFICES ASSUME LastOf(b) < i PROVE FALSE
    BY <1>1, <2>1
  <2>2. LastOf(b) + 1 \in Positions /\ LastOf(b) + 1 <= i
    BY <1>1, <2>1
  <2>3. LastOf(b) + 1 \in T
    <3>1. LastOf(b) + 1 \in Blocks
      BY <1>2, <2>2, BlockFacts
    <3> QED BY <2>2, <3>1
  <2>4. b <= LastOf(b) /\ LastOf(b) + 1 <= b /\ b \in Nat /\ LastOf(b) \in Nat
    BY <1>1, <1>2, <2>1, <2>3, BlockFacts
  <2> QED BY <2>4
<1>4. i \in Body(b)
  BY <1>1, <1>3, BlockFacts DEF Body
<1>5. ASSUME NEW c \in Blocks, i \in Body(c) PROVE c = b
  <2>1. c \in Nat /\ b \in Nat /\ LastOf(c) \in Nat /\ i \in Nat
    BY <1>1, BlockFacts
  <2>2. c <= i /\ i <= LastOf(c)
    BY <1>5, <2>1 DEF Body
  <2>3. c <= b /\ b \notin c + 1 .. LastOf(c) /\ b <= i
    BY <1>2, <2>2, BlockFacts
  <2> QED BY <2>1, <2>2, <2>3
<1> QED BY <1>4, <1>5

\* Control leaves a block at its end only, for the beginning of a block.
LEMMA Edges ==
    ASSUME prog \in Programs, NEW b \in Blocks
    PROVE  /\ \A i \in Body(b) : i # LastOf(b) => Succ(i) = {i + 1} /\ i + 1 \in Body(b)
           /\ Succ(LastOf(b)) \subseteq Blocks
<1>1. /\ Len(prog) \in Nat /\ Positions = 1 .. Len(prog) /\ Blocks \subseteq Positions
      /\ LastOf(b) \in Positions /\ b <= LastOf(b)
  BY ProgramFacts, BlockFacts
<1>2. \A i \in Positions : Targets(i) \subseteq Blocks
  BY DEF Targets, Blocks
<1>3. ASSUME NEW i \in Body(b), i # LastOf(b) PROVE Succ(i) = {i + 1} /\ i + 1 \in Body(b)
  <2>1. i \in Nat /\ i >= b /\ i + 1 <= LastOf(b) /\ i \in Positions /\ i + 1 \in Positions /\ b < i + 1
    BY <1>1, <1>3 DEF Body
  <2>2. i + 1 \notin Blocks
    <3>1. i + 1 \in b + 1 .. LastOf(b)
      BY <1>1, <2>1
    <3> QED BY <3>1, BlockFacts
  <2>3. (i + 1) - 1 = i
    BY <2>1
  <2>4. prog[i].op \notin Jump \union Return
    BY <2>1, <2>2, <2>3 DEF Blocks
  <2>5. Targets(i) = {}
    BY <2>4 DEF Targets
  <2>6. prog[i].op \notin Return \union {"jmp"}
    BY <2>4 DEF Jump
  <2>7. Succ(i) = {i + 1}
    BY <2>1, <2>5, <2>6 DEF Succ
  <2> QED BY <1>1, <2>1, <2>7 DEF Body
<1>4. Succ(LastOf(b)) \subseteq Blocks
  BY <1>1, <1>2, BlockFacts DEF Succ
<1> QED BY <1>3, <1>4

-----------------------------------------------------------------------------
(* Liveness by paths.                                                      *)

\* The recursion over the length of a path.
LEMMA ReadWithinDef ==
    ASSUME NEW v
    PROVE  /\ ReadWithin(v) \in [Nat -> SUBSET Positions]
           /\ \A k \in Nat : ReadWithin(v)[k] = IF k = 0 THEN {} ELSE Before(v, ReadWithin(v)[k - 1])
<1> DEFINE S == SUBSET Positions
           F == [x \in S \X Nat |-> Before(v, x[1])]
           none == {}
<1>1. none \in S /\ F \in [S \X Nat -> S]
  <2>1. \A x : Before(v, x) \in S
    BY DEF Before
  <2> QED BY <2>1
<1>2. \A x \in S, k \in Nat : F[<<x, k>>] = Before(v, x)
  OBVIOUS
<1>3. PICK f \in [Nat -> S] : StepsBy(f, none, F)
  <2> HIDE DEF S, F, none
  <2> QED BY <1>1, Recursion
<1>4. f = [k \in Nat |-> IF k = 0 THEN {} ELSE Before(v, f[k - 1])]
  <2>1. ASSUME NEW k \in Nat
        PROVE  f[k] = IF k = 0 THEN {} ELSE Before(v, f[k - 1])
    <3>1. CASE k = 0
      BY <1>3, <3>1 DEF StepsBy
    <3>2. CASE k # 0
      <4>1. k - 1 \in Nat
        BY <3>2
      <4>2. f[k - 1] \in S
        BY <4>1
      <4> HIDE DEF S, F
      <4> QED BY <1>2, <1>3, <3>2, <4>2 DEF StepsBy
    <3> QED BY <3>1, <3>2
  <2>2. f = [k \in Nat |-> f[k]]
    OBVIOUS
  <2> QED BY <2>1, <2>2
<1> HIDE DEF F
<1>5. ReadWithin(v) = CHOOSE g : g = [k \in Nat |-> IF k = 0 THEN {} ELSE Before(v, g[k - 1])]
  BY DEF ReadWithin
<1>6. ReadWithin(v) = [k \in Nat |-> IF k = 0 THEN {} ELSE Before(v, ReadWithin(v)[k - 1])]
  BY <1>4, <1>5
<1>7. \A x : Before(v, x) \in S
  BY DEF Before
<1>8. \A k \in Nat : ReadWithin(v)[k] = IF k = 0 THEN {} ELSE Before(v, ReadWithin(v)[k - 1])
  BY <1>6
<1>9. \A k \in Nat : ReadWithin(v)[k] \in S
  BY <1>7, <1>8
<1>10. ReadWithin(v) \in [Nat -> S]
  <2> HIDE DEF S
  <2> QED BY <1>6, <1>9
<1> QED BY <1>8, <1>10

\* A value that is read ahead of more positions is read ahead of more before.
LEMMA BeforeMonotone ==
    ASSUME NEW v, NEW S, NEW T, S \subseteq T
    PROVE  Before(v, S) \subseteq Before(v, T)
BY DEF Before

\* Paths longer than the function show nothing new: ReadAhead is liveness, the
\* fixed point of the step from the positions behind to the ones before.
LEMMA AheadFixpoint ==
    ASSUME prog \in Programs, NEW v
    PROVE  /\ ReadAhead(v) \subseteq Positions
           /\ ReadAhead(v) = Before(v, ReadAhead(v))
<1> DEFINE R == ReadWithin(v)
           Grows == {k \in Nat : R[k] \subseteq R[k + 1]}
           Full == {k \in Nat : R[k + 1] = R[k] \/ Cardinality(R[k]) >= k}
<1>1. /\ R \in [Nat -> SUBSET Positions]
      /\ R[0] = {}
      /\ \A k \in Nat : R[k + 1] = Before(v, R[k])
  <2>1. \A k \in Nat : k + 1 \in Nat /\ k + 1 # 0 /\ (k + 1) - 1 = k
    OBVIOUS
  <2> QED BY <2>1, ReadWithinDef
<1>2. Len(prog) \in Nat /\ Positions = 1 .. Len(prog) /\ IsFiniteSet(Positions)
      /\ Cardinality(Positions) = Len(prog)
  <2>1. Len(prog) \in Nat /\ Positions = 1 .. Len(prog)
    BY ProgramFacts
  <2>2. IsFiniteSet(1 .. Len(prog)) /\ Cardinality(1 .. Len(prog)) = IF 1 > Len(prog) THEN 0 ELSE Len(prog) - 1 + 1
    BY <2>1, FS_Interval
  <2> QED BY <2>1, <2>2
<1> HIDE DEF R
<1>3. \A k \in Nat : IsFiniteSet(R[k]) /\ Cardinality(R[k]) \in Nat
  <2>1. \A k \in Nat : R[k] \subseteq Positions
    BY <1>1
  <2> QED BY <1>2, <2>1, FS_Subset, FS_CardinalityType
<1>4. \A k \in Nat : k \in Grows
  <2>1. 0 \in Grows
    BY <1>1
  <2>2. ASSUME NEW k \in Nat, k \in Grows PROVE k + 1 \in Grows
    <3>1. Before(v, R[k]) \subseteq Before(v, R[k + 1])
      BY <2>2, BeforeMonotone
    <3>2. k + 1 \in Nat
      OBVIOUS
    <3> QED BY <1>1, <3>1, <3>2
  <2> HIDE DEF Grows
  <2> QED BY <2>1, <2>2, Induction
<1>5. \A k \in Nat : k \in Full
  <2>1. 0 \in Full
    BY <1>3
  <2>2. ASSUME NEW k \in Nat, k \in Full PROVE k + 1 \in Full
    <3>0. k + 1 \in Nat
      OBVIOUS
    <3>1. CASE R[k + 1] = R[k]
      <4>1. R[(k + 1) + 1] = Before(v, R[k + 1]) /\ R[k + 1] = Before(v, R[k])
        BY <1>1, <3>0
      <4> QED BY <3>0, <3>1, <4>1
    <3>2. CASE R[k + 1] # R[k]
      <4>1. Cardinality(R[k]) >= k
        BY <2>2, <3>2
      <4>2. R[k] \subseteq R[k + 1]
        BY <1>4
      <4>3. Cardinality(R[k]) <= Cardinality(R[k + 1]) /\ Cardinality(R[k]) # Cardinality(R[k + 1])
        BY <1>3, <3>0, <3>2, <4>2, FS_Subset
      <4>4. Cardinality(R[k + 1]) \in Nat /\ Cardinality(R[k]) \in Nat
        BY <1>3, <3>0
      <4>5. Cardinality(R[k + 1]) >= k + 1
        BY <4>1, <4>3, <4>4
      <4> QED BY <3>0, <4>5
    <3> QED BY <3>1, <3>2
  <2> HIDE DEF Full
  <2> QED BY <2>1, <2>2, Induction
<1>6. R[Len(prog) + 1] = R[Len(prog)]
  <2>1. R[Len(prog) + 1] \subseteq Positions /\ R[Len(prog)] \subseteq R[Len(prog) + 1] /\ R[Len(prog)] \subseteq Positions
    <3>1. Len(prog) + 1 \in Nat
      BY <1>2
    <3> QED BY <1>1, <1>2, <1>4, <3>1
  <2>2. CASE Cardinality(R[Len(prog)]) >= Len(prog)
    <3>1. Cardinality(R[Len(prog)]) <= Cardinality(Positions) /\ Cardinality(R[Len(prog)]) \in Nat
      BY <1>2, <1>3, <2>1, FS_Subset
    <3>2. Cardinality(R[Len(prog)]) = Cardinality(Positions)
      BY <1>2, <2>2, <3>1
    <3>3. R[Len(prog)] = Positions
      BY <1>2, <2>1, <3>2, FS_Subset
    <3> QED BY <2>1, <3>3
  <2> QED BY <1>2, <1>5, <2>2
<1>7. ReadAhead(v) = R[Len(prog)]
  BY DEF ReadAhead, R
<1>8. R[Len(prog)] \subseteq Positions
  BY <1>1, <1>2
<1>9. R[Len(prog) + 1] = Before(v, R[Len(prog)])
  BY <1>1, <1>2
<1> QED BY <1>6, <1>7, <1>8, <1>9

\* It is the least one.
LEMMA AheadLeast ==
    ASSUME prog \in Programs, NEW v, NEW C, Before(v, C) \subseteq C
    PROVE  ReadAhead(v) \subseteq C
<1> DEFINE R == ReadWithin(v)
           Within == {k \in Nat : R[k] \subseteq C}
<1>1. R[0] = {} /\ \A k \in Nat : R[k + 1] = Before(v, R[k])
  <2>1. \A k \in Nat : k + 1 \in Nat /\ k + 1 # 0 /\ (k + 1) - 1 = k
    OBVIOUS
  <2> QED BY <2>1, ReadWithinDef
<1> HIDE DEF R
<1>2. \A k \in Nat : k \in Within
  <2>1. 0 \in Within
    BY <1>1
  <2>2. ASSUME NEW k \in Nat, k \in Within PROVE k + 1 \in Within
    <3>1. Before(v, R[k]) \subseteq Before(v, C)
      BY <2>2, BeforeMonotone
    <3>2. k + 1 \in Nat
      OBVIOUS
    <3> QED BY <1>1, <3>1, <3>2
  <2> HIDE DEF Within
  <2> QED BY <2>1, <2>2, Induction
<1>3. Len(prog) \in Nat /\ ReadAhead(v) = R[Len(prog)]
  BY ProgramFacts DEF ReadAhead, R
<1> QED BY <1>2, <1>3

\* A value read ahead of a position of a block, and not written before it in the
\* block, is read ahead of the block's first position.
LEMMA BackIn ==
    ASSUME prog \in Programs, NEW v, NEW b \in Blocks, NEW i \in Body(b), i \in ReadAhead(v),
           \A j \in b .. i - 1 : v \notin Writes(prog[j])
    PROVE  b \in ReadAhead(v)
<1> DEFINE T == {j \in b .. i : j \in ReadAhead(v)}
<1>1. b \in Nat /\ i \in Nat /\ b <= i /\ LastOf(b) \in Nat /\ i <= LastOf(b)
  BY ProgramFacts, BlockFacts DEF Body
<1>2. PICK m \in T : \A y \in T : m <= y
  <2>1. T \in SUBSET Nat /\ i \in T
    BY <1>1
  <2> HIDE DEF T
  <2> QED BY <2>1, Least
<1> SUFFICES ASSUME m # b PROVE FALSE
  BY <1>2
<1>3. m \in Nat /\ m - 1 \in b .. i - 1 /\ m - 1 \in Body(b) /\ m - 1 # LastOf(b) /\ (m - 1) + 1 = m
  BY <1>1, <1>2 DEF Body
<1>4. Succ(m - 1) = {m}
  BY <1>3, Edges
<1>5. m - 1 \in Positions
  BY <1>1, <1>3, ProgramFacts, BlockFacts DEF Body
<1>6. m - 1 \in Before(v, ReadAhead(v))
  <2>1. v \notin Writes(prog[m - 1])
    BY <1>3
  <2> QED BY <1>2, <1>4, <1>5, <2>1 DEF Before
<1>7. m - 1 \in T
  BY <1>1, <1>3, <1>6, AheadFixpoint
<1> QED BY <1>2, <1>3, <1>7

-----------------------------------------------------------------------------
(* The dataflow.                                                           *)

\* Nothing is taken for live that is not.
Sound ==
    \A v \in VReg : \A b \in Blocks :
        /\ v \in liveIn[b] => b \in ReadAhead(v)
        /\ v \in liveOut[b] => Succ(LastOf(b)) \cap ReadAhead(v) # {}

\* The equations of a block hold.
Balanced(b) ==
    /\ liveIn[b] = Use(b) \union (liveOut[b] \ Def(b))
    /\ \A s \in Succ(LastOf(b)) : liveIn[s] \subseteq liveOut[b]

\* While a round has changed nothing, they hold of the blocks it has visited.
Settling ==
    /\ ~changed => \A b \in Blocks : b > block => Balanced(b)
    /\ block = 0 => ~changed

LiveIInv == LiveTypeOK /\ Sound /\ Settling

\* A block and the values used and written there.
LEMMA UseDef ==
    ASSUME prog \in Programs, NEW b \in Blocks
    PROVE  Use(b) \subseteq VReg /\ Def(b) \subseteq VReg
<1>1. ASSUME NEW i \in Body(b) PROVE Writes(prog[i]) \subseteq VReg
  <2>1. i \in Positions
    BY ProgramFacts, BlockFacts DEF Body
  <2> QED BY <2>1, ProgramFacts
<1> QED BY <1>1 DEF Use, Def

\* The greatest block, and the one before a block.
LEMMA BlockMax ==
    ASSUME prog \in Programs
    PROVE  /\ Max(Blocks) \in Blocks /\ \A b \in Blocks : b <= Max(Blocks)
           /\ \A c \in Blocks : c > 1 =>
                 LET d == Max({b \in Blocks : b < c})
                 IN  d \in Blocks /\ d < c /\ \A b \in Blocks : b < c => b <= d
<1>1. Len(prog) \in Nat /\ Blocks \subseteq 0 .. Len(prog) /\ 1 \in Blocks
  BY ProgramFacts, BlockFacts
<1>2. ASSUME NEW c \in Blocks, c > 1
      PROVE  LET d == Max({b \in Blocks : b < c})
             IN  d \in Blocks /\ d < c /\ \A b \in Blocks : b < c => b <= d
  <2> DEFINE T == {b \in Blocks : b < c}
  <2>1. T \in SUBSET (0 .. Len(prog)) /\ 1 \in T
    BY <1>1, <1>2
  <2> HIDE DEF T
  <2>2. Max(T) \in T /\ \A y \in T : y <= Max(T)
    BY <1>1, <2>1, MaxFacts
  <2> USE DEF T
  <2> QED BY <2>2
<1>3. Max(Blocks) \in Blocks /\ \A b \in Blocks : b <= Max(Blocks)
  BY <1>1, MaxFacts
<1> QED BY <1>2, <1>3

\* The dataflow starts with nothing, and with every round yet to come.
LEMMA LiveStart ==
    ASSUME LiveInit
    PROVE  LiveIInv
<1>1. prog \in Programs /\ block = Max(Blocks) /\ changed = FALSE
      /\ liveIn = [b \in Blocks |-> {}] /\ liveOut = [b \in Blocks |-> {}]
  BY DEF LiveInit
<1>2. block \in Blocks /\ block # 0 /\ \A b \in Blocks : b \in Nat /\ b <= block
  BY <1>1, BlockMax, BlockFacts, ProgramFacts
<1>3. LiveTypeOK
  BY <1>1, <1>2 DEF LiveTypeOK
<1>4. Sound
  BY <1>1 DEF Sound
<1>5. Settling
  BY <1>2 DEF Settling
<1> QED BY <1>3, <1>4, <1>5 DEF LiveIInv

\* A visit keeps all of it.  What it adds is live; it leaves its block balanced
\* if it changes no live_in, and then disturbs no other.
LEMMA VisitInvariant ==
    ASSUME LiveIInv, Visit
    PROVE  LiveIInv'
<1> DEFINE B == block
           out == liveOut[B] \union UNION {liveIn[s] : s \in Succ(LastOf(B))}
           in == Use(B) \union (out \ Def(B))
           dirty == changed \/ in # liveIn[B]
<1>0. LiveTypeOK /\ Sound /\ Settling /\ prog \in Programs
  BY DEF LiveIInv, LiveTypeOK
<1>1. /\ B # 0
      /\ liveOut' = [liveOut EXCEPT ![B] = out]
      /\ liveIn' = [liveIn EXCEPT ![B] = in]
      /\ prog' = prog
      /\ B > 1 => block' = Max({b \in Blocks : b < B}) /\ changed' = dirty
      /\ ~(B > 1) => block' = (IF dirty THEN Max(Blocks) ELSE 0) /\ changed' = FALSE
  BY DEF Visit, VisitWith
<1>2. B \in Blocks /\ B \in Nat /\ \A b \in Blocks : b \in Nat /\ b >= 1
  BY <1>0, <1>1, BlockFacts, ProgramFacts DEF LiveTypeOK
<1>3. Succ(LastOf(B)) \subseteq Blocks /\ LastOf(B) \in Body(B) /\ LastOf(B) \in Positions /\ LastOf(B) \in Nat
  BY <1>0, <1>2, Edges, BlockFacts, ProgramFacts DEF Body
<1>4. /\ Blocks' = Blocks /\ \A b : (LastOf(b))' = LastOf(b)
      /\ \A v : (ReadAhead(v))' = ReadAhead(v)
      /\ \A i : (Succ(i))' = Succ(i)
      /\ \A b : (Use(b))' = Use(b) /\ (Def(b))' = Def(b)
  <2>1. Positions' = Positions /\ Blocks' = Blocks /\ \A b : (LastOf(b))' = LastOf(b)
    BY <1>1 DEF Blocks, Positions, LastOf
  <2>2. \A i : (Succ(i))' = Succ(i)
    BY <1>1 DEF Positions, Succ, Targets
  <2>3. \A v : (ReadAhead(v))' = ReadAhead(v)
    BY <1>1 DEF Positions, ReadAhead, ReadWithin, Before, Succ, Targets
  <2>4. \A b : (Use(b))' = Use(b) /\ (Def(b))' = Def(b)
    BY <1>1 DEF Positions, Blocks, LastOf, Use, Def, Body
  <2> QED BY <2>1, <2>2, <2>3, <2>4
<1>5. /\ liveIn \in [Blocks -> SUBSET VReg] /\ liveOut \in [Blocks -> SUBSET VReg] /\ changed \in BOOLEAN
  BY <1>0 DEF LiveTypeOK
<1>6. out \subseteq VReg /\ in \subseteq VReg
  <2>1. \A s \in Succ(LastOf(B)) : liveIn[s] \subseteq VReg
    BY <1>3, <1>5
  <2>2. liveOut[B] \subseteq VReg
    BY <1>2, <1>5
  <2>3. Use(B) \subseteq VReg
    BY <1>0, <1>2, UseDef
  <2> QED BY <2>1, <2>2, <2>3
<1>7. ASSUME NEW v \in out PROVE Succ(LastOf(B)) \cap ReadAhead(v) # {}
  <2>0. v \in VReg
    BY <1>6
  <2>1. CASE v \in liveOut[B]
    BY <1>0, <1>2, <2>0, <2>1 DEF Sound
  <2>2. CASE \E s \in Succ(LastOf(B)) : v \in liveIn[s]
    BY <1>0, <1>3, <2>0, <2>2 DEF Sound
  <2> QED BY <2>1, <2>2
<1>8. ASSUME NEW v \in in PROVE B \in ReadAhead(v)
  <2>1. CASE v \in Use(B)
    <3>1. PICK i \in Body(B) : v \in Reads(prog[i]) /\ \A j \in B .. i - 1 : v \notin Writes(prog[j])
      BY <2>1 DEF Use
    <3>2. i \in Positions
      BY <1>0, <1>2, ProgramFacts, BlockFacts DEF Body
    <3>3. i \in ReadAhead(v)
      BY <1>0, <3>1, <3>2, AheadFixpoint DEF Before
    <3> QED BY <1>0, <1>2, <3>1, <3>3, BackIn
  <2>2. CASE v \in out /\ v \notin Def(B)
    <3>1. \A j \in Body(B) : v \notin Writes(prog[j])
      BY <2>2 DEF Def
    <3>2. LastOf(B) \in ReadAhead(v)
      BY <1>0, <1>3, <1>7, <2>2, <3>1, AheadFixpoint DEF Before
    <3>3. \A j \in B .. LastOf(B) - 1 : j \in Body(B)
      BY <1>2, <1>3 DEF Body
    <3> QED BY <1>0, <1>2, <1>3, <3>1, <3>2, <3>3, BackIn
  <2> QED BY <2>1, <2>2
<1> HIDE DEF in, out
<1>9. LiveTypeOK'
  <2>1. block' \in Blocks \union {0}
    BY <1>0, <1>1, <1>2, BlockMax
  <2>2. changed' \in BOOLEAN
    BY <1>1, <1>5
  <2>3. liveIn' \in [Blocks -> SUBSET VReg] /\ liveOut' \in [Blocks -> SUBSET VReg]
    BY <1>1, <1>5, <1>6
  <2> QED BY <1>0, <1>1, <1>4, <2>1, <2>2, <2>3 DEF LiveTypeOK
<1>10. Sound'
  <2> SUFFICES ASSUME NEW v \in VReg, NEW b \in Blocks
               PROVE  /\ v \in liveIn'[b] => b \in ReadAhead(v)
                      /\ v \in liveOut'[b] => Succ(LastOf(b)) \cap ReadAhead(v) # {}
    BY <1>4 DEF Sound
  <2>1. CASE b = B
    BY <1>1, <1>2, <1>5, <1>7, <1>8, <2>1
  <2>2. CASE b # B
    <3>1. liveIn'[b] = liveIn[b] /\ liveOut'[b] = liveOut[b]
      BY <1>1, <1>2, <1>5, <2>2
    <3> QED BY <1>0, <3>1 DEF Sound
  <2> QED BY <2>1, <2>2
<1>11. ASSUME ~dirty, NEW b \in Blocks, b >= B PROVE Balanced(b)'
  <2>1. liveIn' = liveIn /\ in = liveIn[B] /\ ~changed
    BY <1>1, <1>2, <1>5, <1>11
  <2>2. CASE b = B
    <3>1. liveOut'[b] = out
      BY <1>1, <1>2, <1>5, <2>2
    <3>2. liveIn'[b] = Use(b) \union (liveOut'[b] \ Def(b))
      BY <2>1, <2>2, <3>1 DEF in
    <3>3. \A s \in Succ(LastOf(b)) : liveIn'[s] \subseteq liveOut'[b]
      BY <2>1, <2>2, <3>1 DEF out
    <3> QED BY <1>4, <3>2, <3>3 DEF Balanced
  <2>3. CASE b # B
    <3>1. liveOut'[b] = liveOut[b]
      BY <1>1, <1>2, <1>5, <2>3
    <3>2. Balanced(b)
      BY <1>0, <1>2, <1>11, <2>1, <2>3 DEF Settling
    <3> QED BY <1>4, <2>1, <3>1, <3>2 DEF Balanced
  <2> QED BY <2>2, <2>3
<1>12. Settling'
  <2>1. ASSUME ~changed', NEW b \in Blocks, b > block' PROVE Balanced(b)'
    <3>1. CASE B > 1
      <4>1. ~dirty /\ (b < B => b <= block') /\ block' \in Nat
        <5>1. ~dirty
          BY <1>1, <2>1, <3>1
        <5> HIDE DEF dirty
        <5> QED BY <1>0, <1>1, <1>2, <3>1, <5>1, BlockMax
      <4>2. b >= B
        BY <1>2, <2>1, <4>1
      <4> QED BY <1>11, <4>1, <4>2
    <3>2. CASE ~(B > 1)
      <4>1. CASE dirty
        <5>1. block' \in Blocks /\ b <= block'
          BY <1>0, <1>1, <3>2, <4>1, BlockMax
        <5>2. b \in Nat /\ block' \in Nat
          BY <1>2, <5>1
        <5> QED BY <2>1, <5>1, <5>2
      <4>2. CASE ~dirty
        <5>1. b >= B
          BY <1>2, <3>2
        <5> QED BY <1>11, <4>2, <5>1
      <4> QED BY <4>1, <4>2
    <3> QED BY <3>1, <3>2
  <2>2. block' = 0 => ~changed'
    <3>1. B > 1 => block' # 0
      <4> HIDE DEF dirty
      <4> QED BY <1>0, <1>1, <1>2, BlockMax
    <3> QED BY <1>1, <3>1
  <2> QED BY <1>4, <2>1, <2>2 DEF Settling
<1> QED BY <1>9, <1>10, <1>12 DEF LiveIInv

-----------------------------------------------------------------------------
(* What has settled is exact.                                              *)

\* v is needed at position i of block b: the rest of the block reads it before
\* it writes it, or passes it on to the blocks behind.
NeededAt(v, b, i) ==
    \/ \E k \in i .. LastOf(b) : v \in Reads(prog[k]) /\ \A j \in i .. k - 1 : v \notin Writes(prog[j])
    \/ v \in liveOut[b] /\ \A j \in i .. LastOf(b) : v \notin Writes(prog[j])

\* What is needed at the first position of a balanced block is in its live_in.
LEMMA NeededAtStart ==
    ASSUME prog \in Programs, NEW b \in Blocks, Balanced(b), NEW v \in VReg, NeededAt(v, b, b)
    PROVE  v \in liveIn[b]
<1>1. CASE \E k \in b .. LastOf(b) : v \in Reads(prog[k]) /\ \A j \in b .. k - 1 : v \notin Writes(prog[j])
  BY <1>1 DEF Balanced, Use, Body
<1>2. CASE v \in liveOut[b] /\ \A j \in b .. LastOf(b) : v \notin Writes(prog[j])
  BY <1>2 DEF Balanced, Def, Body
<1> QED BY <1>1, <1>2 DEF NeededAt

\* Where every block is balanced, the places where a value is needed hold the
\* paths to its reads: they are closed against the direction of control.
LEMMA NeededWhereAhead ==
    ASSUME prog \in Programs, NEW v \in VReg, \A b \in Blocks : Balanced(b),
           NEW b \in Blocks, NEW i \in Body(b), i \in ReadAhead(v)
    PROVE  NeededAt(v, b, i)
<1> DEFINE C == {p \in Positions : \A c \in Blocks : p \in Body(c) => NeededAt(v, c, p)}
<1>1. ASSUME NEW p \in Before(v, C) PROVE p \in C
  <2>0. p \in Positions
    BY DEF Before
  <2> SUFFICES ASSUME NEW c \in Blocks, p \in Body(c) PROVE NeededAt(v, c, p)
    BY <2>0
  <2>1. p \in Nat /\ LastOf(c) \in Nat /\ p <= LastOf(c) /\ c \in Nat /\ c <= p /\ LastOf(c) \in Body(c)
    BY ProgramFacts, BlockFacts DEF Body
  <2>2. CASE v \in Reads(prog[p])
    <3>1. p \in p .. LastOf(c) /\ p .. p - 1 = {}
      BY <2>1
    <3> QED BY <2>2, <3>1 DEF NeededAt
  <2>3. CASE v \notin Writes(prog[p]) /\ Succ(p) \cap C # {}
    <3>1. PICK s \in Succ(p) : s \in C
      BY <2>3
    <3>2. CASE p = LastOf(c)
      <4>1. s \in Blocks /\ s \in Body(s)
        <5>1. s \in Blocks
          BY <3>1, <3>2, Edges
        <5>2. s \in Nat /\ LastOf(s) \in Nat /\ s <= LastOf(s)
          BY <5>1, ProgramFacts, BlockFacts
        <5> QED BY <5>1, <5>2 DEF Body
      <4>2. NeededAt(v, s, s)
        BY <3>1, <4>1
      <4>3. v \in liveIn[s]
        BY <4>1, <4>2, NeededAtStart
      <4>4. v \in liveOut[c]
        BY <3>1, <3>2, <4>3 DEF Balanced
      <4>5. p .. LastOf(c) = {p}
        BY <2>1, <3>2
      <4> QED BY <2>3, <4>4, <4>5 DEF NeededAt
    <3>3. CASE p # LastOf(c)
      <4>1. s = p + 1 /\ s \in Body(c)
        BY <3>1, <3>3, Edges
      <4>2. NeededAt(v, c, p + 1)
        BY <3>1, <4>1
      <4>3. CASE \E k \in p + 1 .. LastOf(c) :
                    v \in Reads(prog[k]) /\ \A j \in p + 1 .. k - 1 : v \notin Writes(prog[j])
        <5>1. PICK k \in p + 1 .. LastOf(c) :
                    v \in Reads(prog[k]) /\ \A j \in p + 1 .. k - 1 : v \notin Writes(prog[j])
          BY <4>3
        <5>2. k \in p .. LastOf(c) /\ \A j \in p .. k - 1 : j = p \/ j \in p + 1 .. k - 1
          BY <2>1, <5>1
        <5> QED BY <2>3, <5>1, <5>2 DEF NeededAt
      <4>4. CASE v \in liveOut[c] /\ \A j \in p + 1 .. LastOf(c) : v \notin Writes(prog[j])
        <5>1. \A j \in p .. LastOf(c) : j = p \/ j \in p + 1 .. LastOf(c)
          BY <2>1
        <5> QED BY <2>3, <4>4, <5>1 DEF NeededAt
      <4> QED BY <4>2, <4>3, <4>4 DEF NeededAt
    <3> QED BY <3>2, <3>3
  <2> QED BY <2>2, <2>3 DEF Before
<1>2. ReadAhead(v) \subseteq C
  <2> HIDE DEF C
  <2> QED BY <1>1, AheadLeast
<1> QED BY <1>2

\* A dataflow that has settled is liveness.
LEMMA Exact ==
    ASSUME LiveIInv
    PROVE  LivenessIsExact
<1> SUFFICES ASSUME block = 0, NEW b \in Blocks
             PROVE  liveIn[b] = {v \in VReg : b \in ReadAhead(v)}
  BY DEF LivenessIsExact
<1>1. LiveTypeOK /\ Sound /\ prog \in Programs /\ liveIn[b] \subseteq VReg
  BY DEF LiveIInv, LiveTypeOK
<1>2. \A c \in Blocks : c \in Nat /\ c > 0
  BY <1>1, BlockFacts, ProgramFacts
<1>3. \A c \in Blocks : Balanced(c)
  BY <1>2 DEF LiveIInv, Settling
<1>4. b \in Body(b)
  BY <1>1, BlockFacts, ProgramFacts DEF Body
<1>5. ASSUME NEW v \in VReg, b \in ReadAhead(v) PROVE v \in liveIn[b]
  <2>1. NeededAt(v, b, b)
    BY <1>1, <1>3, <1>4, <1>5, NeededWhereAhead
  <2> QED BY <1>1, <1>3, <2>1, NeededAtStart
<1> QED BY <1>1, <1>5 DEF Sound

\* What an interval has to span are positions.
LEMMA TouchedType ==
    ASSUME prog \in Programs, NEW v
    PROVE  /\ Touched(v) \subseteq Positions
           /\ Touched(v) # {} =>
                 /\ Min(Touched(v)) \in Touched(v) /\ \A t \in Touched(v) : Min(Touched(v)) <= t
                 /\ Max(Touched(v)) \in Touched(v) /\ \A t \in Touched(v) : t <= Max(Touched(v))
<1>1. Touched(v) \subseteq Positions
  BY BlockFacts DEF Touched
<1>2. Len(prog) \in Nat /\ Touched(v) \in SUBSET Nat /\ Touched(v) \in SUBSET (0 .. Len(prog))
  BY <1>1, ProgramFacts
<1> QED BY <1>1, <1>2, MinFacts, MaxFacts

\* A value that is needed on both sides of an instruction is touched before it
\* and behind it.
LEMMA TouchedAround ==
    ASSUME LiveIInv, block = 0, NEW v \in VReg, NEW i \in ReadAhead(v), NEW p \in Positions, i \in Succ(p),
           v \notin Writes(prog[i]), Succ(i) \cap ReadAhead(v) # {}, prog[i].op \notin Jump \union {"label"}
    PROVE  (\E t \in Touched(v) : t < i) /\ (\E t \in Touched(v) : i < t)
<1>1. LiveTypeOK /\ Sound /\ prog \in Programs /\ i \in Positions
  BY AheadFixpoint DEF LiveIInv, LiveTypeOK
<1>2. Len(prog) \in Nat /\ \A c \in Positions : c \in Nat /\ c > 0
  BY <1>1, ProgramFacts
<1>3. \A c \in Blocks : Balanced(c) /\ liveIn[c] = {u \in VReg : c \in ReadAhead(u)}
  BY <1>1, <1>2, BlockFacts, Exact DEF LiveIInv, Settling, LivenessIsExact
<1>4. PICK b \in Blocks : i \in Body(b)
  BY <1>1, BlockOf
<1>5. b \in Nat /\ LastOf(b) \in Nat /\ b <= i /\ i <= LastOf(b) /\ i \in Nat
  <2>1. b \in Nat /\ LastOf(b) \in Nat /\ i \in Nat
    BY <1>1, <1>2, BlockFacts
  <2> QED BY <1>4, <2>1 DEF Body
<1>6. \E t \in Touched(v) : t < i
  <2>1. CASE i \in Blocks
    <3>1. p + 1 = i
      BY <2>1 DEF Succ, Targets
    <3>2. PICK c \in Blocks : p \in Body(c)
      BY <1>1, BlockOf
    <3>3. p = LastOf(c)
      <4> SUFFICES ASSUME p # LastOf(c) PROVE FALSE
        OBVIOUS
      <4>0. c \in Nat /\ LastOf(c) \in Nat /\ p \in Nat
        BY <1>1, <1>2, BlockFacts
      <4>1. c <= p /\ p <= LastOf(c)
        BY <3>2, <4>0 DEF Body
      <4>2. i \in c + 1 .. LastOf(c)
        BY <3>1, <4>0, <4>1
      <4> QED BY <1>1, <2>1, <4>2, BlockFacts
    <3>4. v \in liveOut[c]
      BY <1>3, <2>1, <3>3 DEF Balanced
    <3>5. p \in Touched(v) /\ p < i
      BY <1>2, <3>1, <3>3, <3>4 DEF Touched
    <3> QED BY <3>5
  <2>2. CASE i \notin Blocks
    <3>1. b < i
      BY <1>4, <1>5, <2>2
    <3>2. CASE \E j \in b .. i - 1 : v \in Writes(prog[j])
      <4>1. PICK j \in b .. i - 1 : v \in Writes(prog[j])
        BY <3>2
      <4>2. j \in Positions /\ j < i
        BY <1>1, <1>5, <4>1, ProgramFacts, BlockFacts
      <4> QED BY <4>1, <4>2 DEF Touched
    <3>3. CASE \A j \in b .. i - 1 : v \notin Writes(prog[j])
      <4>1. b \in ReadAhead(v)
        BY <1>1, <1>4, <3>3, BackIn
      <4>2. b \in Touched(v)
        BY <1>1, <1>3, <4>1, BlockFacts DEF Touched
      <4> QED BY <3>1, <4>2
    <3> QED BY <3>2, <3>3
  <2> QED BY <2>1, <2>2
<1>7. \E t \in Touched(v) : i < t
  <2>1. PICK s \in Succ(i) : s \in ReadAhead(v)
    OBVIOUS
  <2>2. s = i + 1 /\ s \in Positions
    BY <2>1 DEF Succ, Targets
  <2>3. CASE i = LastOf(b)
    <3>1. s \in Blocks
      BY <1>1, <2>1, <2>3, Edges
    <3>2. s \in Touched(v)
      BY <1>3, <2>1, <2>2, <3>1 DEF Touched
    <3> QED BY <1>5, <2>2, <3>2
  <2>4. CASE i # LastOf(b)
    <3>1. s \in Body(b)
      BY <1>1, <1>4, <2>2, <2>4, Edges
    <3>2. NeededAt(v, b, s)
      BY <1>1, <1>3, <2>1, <3>1, NeededWhereAhead
    <3>3. CASE \E k \in s .. LastOf(b) : v \in Reads(prog[k])
      <4>1. PICK k \in s .. LastOf(b) : v \in Reads(prog[k])
        BY <3>3
      <4>2. k \in Positions /\ i < k
        BY <1>1, <1>5, <2>2, <4>1, ProgramFacts, BlockFacts
      <4> QED BY <4>1, <4>2 DEF Touched
    <3>4. CASE v \in liveOut[b]
      <4>1. LastOf(b) \in Touched(v)
        BY <3>4 DEF Touched
      <4> QED BY <1>5, <2>4, <4>1
    <3> QED BY <3>2, <3>3, <3>4 DEF NeededAt
  <2> QED BY <2>3, <2>4
<1> QED BY <1>6, <1>7

\* It is strictly inside the interval, then.
LEMMA InsideAround ==
    ASSUME LiveIInv, block = 0, NEW v \in VReg, NEW i \in ReadAhead(v), NEW p \in Positions, i \in Succ(p),
           v \notin Writes(prog[i]), Succ(i) \cap ReadAhead(v) # {}, prog[i].op \notin Jump \union {"label"}
    PROVE  i \in Inside(v)
<1>1. prog \in Programs
  BY DEF LiveIInv, LiveTypeOK
<1>2. PICK s \in Touched(v) : s < i
  BY TouchedAround
<1>3. PICK t \in Touched(v) : i < t
  BY TouchedAround
<1>4. /\ Touched(v) \subseteq Nat /\ i \in Nat
      /\ Min(Touched(v)) \in Nat /\ Min(Touched(v)) <= s
      /\ Max(Touched(v)) \in Nat /\ t <= Max(Touched(v))
  BY <1>1, <1>2, TouchedType, ProgramFacts, AheadFixpoint
<1>5. s \in Nat /\ t \in Nat
  BY <1>4
<1> QED BY <1>2, <1>3, <1>4, <1>5 DEF Inside

\* The intervals cover what is live around the instructions.
LEMMA Covers ==
    ASSUME LiveIInv
    PROVE  IntervalsCoverLife
<1> SUFFICES ASSUME block = 0, NEW v \in VReg, NEW i \in ReadAhead(v), NEW p \in Positions, i \in Succ(p),
                    v \notin Writes(prog[i]), Succ(i) \cap ReadAhead(v) # {}
             PROVE  i \in Inside(v) \/ prog[i].op \in Jump \union {"label"}
  BY DEF IntervalsCoverLife
<1> QED BY InsideAround

-----------------------------------------------------------------------------
(* The intervals are what the scan relies on.                              *)

\* w adds up the numbers of d.
Sums(w, d, n) == \A i \in 0 .. n : w[i] = IF i = 0 THEN 0 ELSE w[i - 1] + d[i]

\* There is such a table, and it holds numbers.
LEMMA SumsExist ==
    ASSUME NEW n \in Nat, NEW d \in [1 .. n -> Nat]
    PROVE  \E w \in [0 .. n -> Nat] : Sums(w, d, n)
<1> DEFINE F == [x \in Nat \X Nat |-> IF x[2] \in 1 .. n THEN x[1] + d[x[2]] ELSE 0]
           zero == 0
<1>1. zero \in Nat /\ F \in [Nat \X Nat -> Nat]
  <2>1. \A x \in Nat \X Nat : (IF x[2] \in 1 .. n THEN x[1] + d[x[2]] ELSE 0) \in Nat
    OBVIOUS
  <2> QED BY <2>1
<1>2. PICK f \in [Nat -> Nat] : StepsBy(f, zero, F)
  <2> HIDE DEF F, zero
  <2> QED BY <1>1, Recursion
<1> DEFINE g == [i \in 0 .. n |-> f[i]]
<1>3. ASSUME NEW i \in 0 .. n PROVE g[i] = IF i = 0 THEN 0 ELSE g[i - 1] + d[i]
  <2>1. CASE i = 0
    BY <1>2, <2>1 DEF StepsBy
  <2>2. CASE i # 0
    <3>1. i \in 1 .. n /\ i - 1 \in 0 .. n /\ i - 1 \in Nat /\ i \in Nat
      BY <2>2
    <3>2. f[i] = F[<<f[i - 1], i>>]
      BY <1>2, <2>2, <3>1 DEF StepsBy
    <3>3. F[<<f[i - 1], i>>] = f[i - 1] + d[i]
      BY <3>1
    <3> QED BY <2>2, <3>1, <3>2, <3>3
  <2> QED BY <2>1, <2>2
<1>4. g \in [0 .. n -> Nat]
  OBVIOUS
<1> HIDE DEF g
<1> QED BY <1>3, <1>4 DEF Sums

\* Whatever table adds them up holds numbers.
LEMMA SumsType ==
    ASSUME NEW n \in Nat, NEW d \in [1 .. n -> Nat], NEW w, Sums(w, d, n)
    PROVE  w[n] \in Nat
<1> DEFINE Good == {i \in Nat : i <= n => w[i] \in Nat}
<1>1. \A i \in 0 .. n : w[i] = IF i = 0 THEN 0 ELSE w[i - 1] + d[i]
  BY DEF Sums
<1>2. 0 \in Good
  <2>1. w[0] = 0
    BY <1>1
  <2> QED BY <2>1
<1>3. ASSUME NEW i \in Nat, i \in Good PROVE i + 1 \in Good
  <2>1. i + 1 \in Nat /\ (i + 1) - 1 = i /\ i + 1 # 0
    OBVIOUS
  <2>2. ASSUME i + 1 <= n PROVE w[i + 1] \in Nat
    <3>1. i + 1 \in 0 .. n /\ i + 1 \in 1 .. n /\ i <= n
      BY <2>2
    <3>2. w[i + 1] = w[i] + d[i + 1]
      BY <1>1, <2>1, <3>1
    <3>3. w[i] \in Nat /\ d[i + 1] \in Nat
      BY <1>3, <3>1
    <3> QED BY <3>2, <3>3
  <2> QED BY <2>1, <2>2
<1>4. \A i \in Nat : i \in Good
  <2> HIDE DEF Good
  <2> QED BY <1>2, <1>3, Induction
<1> QED BY <1>4

\* What is counted is finite.
LEMMA CountType ==
    ASSUME prog \in Programs, NEW v, NEW i \in Positions
    PROVE  /\ Depth(i) \in Nat
           /\ \A d \in Nat : DepthWeight(d) \in Nat
           /\ Occurrences(v, i) \in Nat
<1>1. Depth(i) \in Nat
  <2> DEFINE T == {j \in Positions : \E t \in Targets(j) : t <= i /\ i <= j}
  <2>1. IsFiniteSet(Positions)
    BY ProgramFacts, FS_Interval
  <2>2. IsFiniteSet(T)
    <3>1. T \in SUBSET Positions
      OBVIOUS
    <3> HIDE DEF T
    <3> QED BY <2>1, <3>1, FS_Subset
  <2>3. Cardinality(T) \in Nat
    <3> HIDE DEF T
    <3> QED BY <2>2, FS_CardinalityType
  <2> QED BY <2>3 DEF Depth
<1>2. ASSUME NEW d \in Nat PROVE DepthWeight(d) \in Nat
  <2>1. \A k \in 1 .. 7 : <<1, 8, 64, 512, 4096, 32768, 262144>>[k] \in Nat
    OBVIOUS
  <2>2. (IF d < 6 THEN d ELSE 6) + 1 \in 1 .. 7
    OBVIOUS
  <2> QED BY <2>1, <2>2 DEF DepthWeight
<1>3. Occurrences(v, i) \in Nat
  <2> DEFINE args == prog[i].args
             T == {a \in DOMAIN args : args[a] = v}
             one == IF v = prog[i].src1 /\ UsesSrc1(prog[i]) THEN 1 ELSE 0
             two == IF v = prog[i].src2 /\ UsesSrc2(prog[i]) THEN 1 ELSE 0
             three == IF v = prog[i].dest /\ (prog[i].op \in DestIsUse \/ prog[i].op \notin NoDef) THEN 1 ELSE 0
  <2>1. args \in Seq(Operand)
    BY ProgramFacts DEF Instruction
  <2>2. IsFiniteSet(DOMAIN args)
    <3>1. Len(args) \in Nat /\ DOMAIN args = 1 .. Len(args)
      BY <2>1, LenProperties
    <3>2. IsFiniteSet(1 .. Len(args))
      BY <3>1, FS_Interval
    <3> QED BY <3>1, <3>2
  <2>3. T \in SUBSET DOMAIN args
    OBVIOUS
  <2>4. Cardinality(T) \in Nat
    <3> HIDE DEF T
    <3> QED BY <2>2, <2>3, FS_Subset, FS_CardinalityType
  <2>5. one \in Nat /\ two \in Nat /\ three \in Nat
    OBVIOUS
  <2>6. Occurrences(v, i) = Cardinality(T) + one + two + three
    BY DEF Occurrences
  <2> HIDE DEF T, one, two, three
  <2> QED BY <2>4, <2>5, <2>6
<1> QED BY <1>1, <1>2, <1>3

\* The weight of a value is a number.
LEMMA WeightType ==
    ASSUME prog \in Programs, NEW v
    PROVE  Weight(v) \in Nat
<1> DEFINE d == [i \in 1 .. Len(prog) |-> Occurrences(v, i) * DepthWeight(Depth(i))]
<1>1. Len(prog) \in Nat /\ Positions = 1 .. Len(prog)
  BY ProgramFacts
<1>2. d \in [1 .. Len(prog) -> Nat]
  <2>1. ASSUME NEW i \in 1 .. Len(prog) PROVE Occurrences(v, i) * DepthWeight(Depth(i)) \in Nat
    <3>1. Occurrences(v, i) \in Nat /\ Depth(i) \in Nat /\ DepthWeight(Depth(i)) \in Nat
      BY <1>1, CountType
    <3>2. \A a, b \in Nat : a * b \in Nat
      OBVIOUS
    <3> QED BY <3>1, <3>2
  <2> QED BY <2>1
<1> HIDE DEF d
<1>3. PICK g \in [0 .. Len(prog) -> Nat] : Sums(g, d, Len(prog))
  BY <1>1, <1>2, SumsExist
<1> USE DEF d
<1>4. ASSUME NEW i \in 0 .. Len(prog)
      PROVE  g[i] = IF i = 0 THEN 0 ELSE g[i - 1] + Occurrences(v, i) * DepthWeight(Depth(i))
  <2>1. i # 0 => i \in 1 .. Len(prog)
    BY <1>1
  <2> QED BY <1>3, <2>1 DEF Sums
<1>5. g = [i \in 0 .. Len(prog) |-> IF i = 0 THEN 0 ELSE g[i - 1] + Occurrences(v, i) * DepthWeight(Depth(i))]
  BY <1>4
<1>6. WeightUpTo(v) = [i \in 0 .. Len(prog) |->
          IF i = 0 THEN 0 ELSE WeightUpTo(v)[i - 1] + Occurrences(v, i) * DepthWeight(Depth(i))]
  BY <1>5 DEF WeightUpTo
<1>7. Sums(WeightUpTo(v), d, Len(prog))
  <2> SUFFICES ASSUME NEW i \in 0 .. Len(prog)
               PROVE  WeightUpTo(v)[i] = IF i = 0 THEN 0 ELSE WeightUpTo(v)[i - 1] + d[i]
    BY DEF Sums
  <2>1. WeightUpTo(v)[i] =
            IF i = 0 THEN 0 ELSE WeightUpTo(v)[i - 1] + Occurrences(v, i) * DepthWeight(Depth(i))
    BY <1>6
  <2>2. i # 0 => i \in 1 .. Len(prog)
    BY <1>1
  <2> QED BY <2>1, <2>2
<1> HIDE DEF d
<1>8. WeightUpTo(v)[Len(prog)] \in Nat
  BY <1>1, <1>2, <1>7, SumsType
<1> QED BY <1>8 DEF Weight

\* Hints are registers, the value to follow is a value.
LEMMA HintType ==
    ASSUME prog \in Programs, NEW v
    PROVE  Hint(v) \subseteq Nat /\ Follow(v) \subseteq VReg
<1>1. \A i : AskedAt(v, i) \subseteq Nat
  <2>1. \A a \in DOMAIN ArgRegs : ArgRegs[a] \in Nat
    BY LivenessAssumption, LenProperties, ElementOfSeq
  <2> QED BY <2>1 DEF AskedAt
<1>2. Follow(v) \subseteq VReg
  <2> SUFFICES ASSUME Moves(v) # {} PROVE PartnerAt(v, Max(Moves(v))) \in VReg
    BY DEF Follow
  <2>1. Len(prog) \in Nat /\ Moves(v) \in SUBSET (0 .. Len(prog)) /\ Moves(v) \subseteq Positions
    BY ProgramFacts DEF Moves
  <2>2. Max(Moves(v)) \in Moves(v)
    BY <2>1, MaxFacts
  <2>3. ASSUME NEW i \in Moves(v) PROVE PartnerAt(v, i) \in VReg
    <3>1. prog[i] \in Instruction
      BY <2>1, ProgramFacts
    <3>2. prog[i].dest \in Operand /\ prog[i].src1 \in Operand /\ prog[i].dest # 0 /\ prog[i].src1 # 0
      BY <3>1 DEF Moves, Instruction
    <3> QED BY <3>2 DEF PartnerAt, Operand
  <2> QED BY <2>2, <2>3
<1> QED BY <1>1, <1>2 DEF Hint

\* An interval starts before it ends, and forbids registers.
LEMMA IntervalType ==
    ASSUME prog \in Programs, NEW v \in VReg
    PROVE  IntervalOf(v) \in LS!Interval /\ IntervalOf(v).start <= IntervalOf(v).end
<1>1. CASE Touched(v) = {}
  BY <1>1 DEF IntervalOf, LS!Interval
<1>2. CASE Touched(v) # {}
  <2>1. /\ Min(Touched(v)) \in Nat /\ Max(Touched(v)) \in Nat /\ Min(Touched(v)) <= Max(Touched(v))
        /\ Min(Touched(v)) \in Positions /\ Max(Touched(v)) \in Positions
    BY <1>2, TouchedType, ProgramFacts
  <2>2. Inside(v) \subseteq Positions
    BY <2>1, ProgramFacts DEF Inside
  <2>3. UNION {Clobbers(prog[i]) : i \in Inside(v)} \subseteq Nat
    BY <2>2, RegAllocAssumption DEF Positions
  <2>4. Weight(v) \in Nat /\ Hint(v) \subseteq Nat /\ Follow(v) \subseteq VReg
    BY WeightType, HintType
  <2>5. IntervalOf(v) = [start |-> Min(Touched(v)), end |-> Max(Touched(v)),
                         crosses |-> \E i \in Inside(v) : CallLike(prog[i]),
                         weight |-> Weight(v),
                         forbid |-> UNION {Clobbers(prog[i]) : i \in Inside(v)},
                         hint |-> Hint(v), follow |-> Follow(v)]
    BY <1>2 DEF IntervalOf
  <2>6. (\E i \in Inside(v) : CallLike(prog[i])) \in BOOLEAN
    OBVIOUS
  <2> QED BY <2>1, <2>3, <2>4, <2>5, <2>6 DEF LS!Interval
<1> QED BY <1>1, <1>2

\* An order of a finite set lists all of it, each element once.
LEMMA OrderFacts ==
    ASSUME NEW S, IsFiniteSet(S), NEW q \in SetToSeqs(S)
    PROVE  /\ q \in Seq(S)
           /\ \A i, j \in DOMAIN q : q[i] = q[j] => i = j
           /\ \A x \in S : \E i \in 1 .. Len(q) : q[i] = x
<1> DEFINE n == Cardinality(S)
<1>1. n \in Nat
  BY FS_CardinalityType
<1> HIDE DEF n
<1>2. q \in [1 .. n -> S] /\ \A i, j \in 1 .. n : i # j => q[i] # q[j]
  BY DEF SetToSeqs, n
<1>3. q \in Seq(S) /\ Len(q) = n /\ DOMAIN q = 1 .. n
  BY <1>1, <1>2, IsASeq, LenProperties
<1>4. q \in Injection(1 .. n, S)
  BY <1>2 DEF Injection, IsInjective
<1>5. IsFiniteSet(1 .. n) /\ Cardinality(1 .. n) = n
  BY <1>1, FS_Interval
<1>6. q \in Surjection(1 .. n, S)
  BY <1>4, <1>5, FS_Injection DEF n
<1>7. \A x \in S : \E i \in 1 .. n : q[i] = x
  BY <1>6 DEF Surjection
<1> QED BY <1>2, <1>3, <1>7

\* The scan is loaded with what it relies on, and with every value that has an
\* interval.
LEMMA ListWellFormed ==
    ASSUME prog \in Programs, NEW I, I = [v \in VReg |-> IntervalOf(v)], NEW q \in SetToSeqs(Referenced),
           \A i, j \in DOMAIN q : i <= j => I[q[i]].start <= I[q[j]].start
    PROVE  /\ LS!WellFormed(I, q)
           /\ \A v \in Referenced : \E i \in 1 .. Len(q) : q[i] = v
<1>1. IsFiniteSet(Referenced) /\ Referenced \subseteq VReg
  <2>1. Referenced \in SUBSET VReg
    BY DEF Referenced
  <2> QED BY <2>1, LivenessAssumption, FS_Subset
<1>2. /\ q \in Seq(Referenced)
      /\ \A i, j \in DOMAIN q : q[i] = q[j] => i = j
      /\ \A v \in Referenced : \E i \in 1 .. Len(q) : q[i] = v
  BY <1>1, OrderFacts
<1>3. q \in Seq(VReg) /\ DOMAIN q = 1 .. Len(q)
  BY <1>1, <1>2, LenProperties
<1>4. I \in [VReg -> LS!Interval] /\ \A v \in VReg : I[v].start <= I[v].end
  BY IntervalType
<1>5. LS!IsInjective(q)
  BY <1>2 DEF LS!IsInjective
<1> QED BY <1>2, <1>3, <1>4, <1>5 DEF LS!WellFormed

-----------------------------------------------------------------------------
(* The whole allocator.                                                    *)

LSP == INSTANCE LinearScanProofs WITH Inputs <- {}

\* Once the scan is loaded, the dataflow rests, and the list is that of its
\* intervals, all of them.
LoadedIInv ==
    next > 0 =>
        /\ block = 0
        /\ iv = [v \in VReg |-> IntervalOf(v)]
        /\ \A v \in Referenced : \E i \in 1 .. Len(queue) : queue[i] = v

\* The function runs after the scan.  Control comes with values from an
\* instruction before, and a value that is lost is read on no path ahead.
RunIInv ==
    /\ pc \in 0 .. Len(prog) + 1
    /\ pc = 0 => intact = {} /\ lost = {}
    /\ pc # 0 => next > 0 /\ next > Len(queue)
    /\ intact \subseteq Referenced
    /\ lost \subseteq Referenced \ intact
    /\ pc \in Positions /\ intact # {} => \E p \in Positions : pc \in Succ(p)
    /\ \A v \in lost : pc \notin ReadAhead(v)

WholeIInv == LiveIInv /\ LSP!IInv /\ LSP!Placed /\ LoadedIInv /\ RunIInv

\* What the allocator's own assumptions say of the scan.
LEMMA ScanConstants ==
    NumRegs \in Nat /\ NumCalleeSaved \in Nat /\ Rank \in [LSP!Regs -> Nat]
    /\ \A in \in {} : LSP!WellFormed(in.iv, in.queue)
BY RegAllocAssumption DEF LSP!Regs

\* The scan's actions are those its own theorems are about.
LEMMA SameScan ==
    /\ LS!Init => LSP!Init
    /\ LS!Scan => LSP!Scan
    /\ \A I, q : LS!Load(I, q) => LSP!Load(I, q)
    /\ \A I, q : LS!WellFormed(I, q) <=> LSP!WellFormed(I, q)
<1>1. LS!Init => LSP!Init
  BY DEF LS!Init, LSP!Init, LS!Regs, LSP!Regs, LS!Nowhere, LSP!Nowhere
<1>2. LS!Scan => LSP!Scan
  BY DEF LS!Scan, LS!Assign, LS!Evict, LS!SpillCurrent, LS!Scanning, LS!Pick, LS!Candidates, LS!Wanted,
         LS!cur, LS!FreeNow, LS!Survivors, LS!Usable, LS!Over, LS!InReg, LS!InSlot, LS!NoteCalleeSaved,
         LS!Victims, LS!Cheaper, LS!Span, LS!Regs,
         LSP!Scan, LSP!Assign, LSP!Evict, LSP!SpillCurrent, LSP!Scanning, LSP!Pick, LSP!Candidates, LSP!Wanted,
         LSP!cur, LSP!FreeNow, LSP!Survivors, LSP!Usable, LSP!Over, LSP!InReg, LSP!InSlot, LSP!NoteCalleeSaved,
         LSP!Victims, LSP!Cheaper, LSP!Span, LSP!Regs
<1>3. \A I, q : LS!Load(I, q) => LSP!Load(I, q)
  BY DEF LS!Load, LSP!Load
<1>4. \A I, q : LS!WellFormed(I, q) <=> LSP!WellFormed(I, q)
  BY DEF LS!WellFormed, LSP!WellFormed, LS!Interval, LSP!Interval, LS!IsInjective, LSP!IsInjective
<1> QED BY <1>1, <1>2, <1>3, <1>4

\* What is defined of the function and the dataflow stays while they rest.
LEMMA Frozen ==
    ASSUME UNCHANGED liveVars
    PROVE  /\ LiveIInv => LiveIInv'
           /\ Positions' = Positions
           /\ Referenced' = Referenced
           /\ \A i : (Succ(i))' = Succ(i)
           /\ \A v : (ReadAhead(v))' = ReadAhead(v)
           /\ \A v : (IntervalOf(v))' = IntervalOf(v)
<1>1. prog' = prog /\ block' = block /\ changed' = changed /\ liveIn' = liveIn /\ liveOut' = liveOut
  BY DEF liveVars
<1>2. Positions' = Positions /\ Blocks' = Blocks /\ \A b : (LastOf(b))' = LastOf(b)
  BY <1>1 DEF Positions, Blocks, LastOf
<1>3. \A i : (Succ(i))' = Succ(i) /\ (Targets(i))' = Targets(i)
  BY <1>1, <1>2 DEF Succ, Targets
<1>4. \A v : (ReadAhead(v))' = ReadAhead(v)
  BY <1>1, <1>2, <1>3 DEF ReadAhead, ReadWithin, Before
<1>5. \A b : (Use(b))' = Use(b) /\ (Def(b))' = Def(b)
  BY <1>1, <1>2 DEF Use, Def, Body
<1>6. \A b : (Balanced(b))' = Balanced(b)
  BY <1>1, <1>2, <1>3, <1>5 DEF Balanced
<1>7. LiveIInv => LiveIInv'
  BY <1>1, <1>2, <1>3, <1>4, <1>6 DEF LiveIInv, LiveTypeOK, Sound, Settling
<1>8. \A v : (Touched(v))' = Touched(v)
  BY <1>1, <1>2 DEF Touched
<1>9. \A v : (IntervalOf(v))' = IntervalOf(v)
  <2>1. \A v : (Inside(v))' = Inside(v)
    BY <1>8 DEF Inside
  <2>2. \A v : (Weight(v))' = Weight(v)
    <3>1. \A v, i : (Occurrences(v, i))' = Occurrences(v, i)
      BY <1>1 DEF Occurrences
    <3>2. \A i : (Depth(i))' = Depth(i)
      BY <1>2, <1>3 DEF Depth
    <3> QED BY <1>1, <3>1, <3>2 DEF Weight, WeightUpTo
  <2>3. \A v, i : (AskedAt(v, i))' = AskedAt(v, i)
    BY <1>1 DEF AskedAt
  <2>4. \A v : (Hint(v))' = Hint(v)
    BY <1>2, <2>3 DEF Hint
  <2>5. \A v : (Moves(v))' = Moves(v)
    BY <1>1, <1>2 DEF Moves
  <2>6. \A v, i : (PartnerAt(v, i))' = PartnerAt(v, i)
    BY <1>1 DEF PartnerAt
  <2>7. \A v : (Follow(v))' = Follow(v)
    BY <2>4, <2>5, <2>6 DEF Follow
  <2> QED BY <1>1, <1>8, <2>1, <2>2, <2>4, <2>7 DEF IntervalOf
<1>10. Referenced' = Referenced
  BY <1>8 DEF Referenced
<1> QED BY <1>2, <1>3, <1>4, <1>7, <1>9, <1>10

\* Initially.
LEMMA WholeInit ==
    ASSUME Init
    PROVE  WholeIInv
<1>1. LiveIInv
  BY LiveStart DEF Init
<1>2. LSP!IInv /\ LSP!Placed
  BY ScanConstants, SameScan, LSP!InitIInv, LSP!InitPlaced DEF Init
<1>3. next = 0 /\ pc = 0 /\ intact = {} /\ lost = {}
  BY DEF Init, LS!Init
<1>4. LoadedIInv
  BY <1>3 DEF LoadedIInv
<1>5. Len(prog) \in Nat
  BY <1>1, ProgramFacts DEF LiveIInv, LiveTypeOK
<1>6. RunIInv
  BY <1>3, <1>5 DEF RunIInv
<1> QED BY <1>1, <1>2, <1>4, <1>6 DEF WholeIInv

\* The dataflow is done before the scan is loaded.
LEMMA DataflowIInv ==
    ASSUME WholeIInv, Dataflow
    PROVE  WholeIInv'
<1>1. LiveIInv' /\ prog' = prog /\ block # 0
  BY VisitInvariant DEF WholeIInv, Dataflow, Visit, VisitWith
<1>2. /\ iv' = iv /\ queue' = queue /\ next' = next /\ active' = active /\ free' = free /\ loc' = loc
      /\ nextSpill' = nextSpill /\ csMask' = csMask /\ csUsed' = csUsed
      /\ pc' = pc /\ intact' = intact /\ lost' = lost
  BY DEF Dataflow, scanVars, runVars
<1>3. LSP!IInv' /\ LSP!Placed'
  <2>1. LSP!IInv'
    <3>1. UNCHANGED LSP!vars
      BY <1>2 DEF LSP!vars
    <3> QED BY <3>1, ScanConstants, LSP!StutterIInv DEF WholeIInv
  <2>2. LSP!Placed'
    BY <1>2 DEF WholeIInv, LSP!Placed, LSP!Regs, LSP!InReg
  <2> QED BY <2>1, <2>2
<1>4. next = 0
  <2>1. next \in Nat
    BY DEF WholeIInv, LSP!IInv, LSP!TypeOK
  <2> QED BY <1>1, <2>1 DEF WholeIInv, LoadedIInv
<1>5. LoadedIInv'
  BY <1>2, <1>4 DEF LoadedIInv
<1>6. pc = 0 /\ intact = {} /\ lost = {}
  BY <1>4 DEF WholeIInv, RunIInv
<1>7. RunIInv'
  BY <1>1, <1>2, <1>6, ProgramFacts DEF RunIInv, LiveIInv, LiveTypeOK
<1> QED BY <1>1, <1>3, <1>5, <1>7 DEF WholeIInv

\* The scan gets the list it relies on.
LEMMA LoadScanIInv ==
    ASSUME WholeIInv, LoadScan
    PROVE  WholeIInv'
<1>1. UNCHANGED liveVars /\ UNCHANGED runVars /\ block = 0 /\ next = 0 /\ prog \in Programs
  BY DEF LoadScan, WholeIInv, LiveIInv, LiveTypeOK
<1>2. PICK I \in {[v \in VReg |-> IntervalOf(v)]}, q \in SetToSeqs(Referenced) :
          /\ \A i, j \in DOMAIN q : i <= j => I[q[i]].start <= I[q[j]].start
          /\ LS!Load(I, q)
  BY DEF LoadScan
<1>3. LS!WellFormed(I, q) /\ \A v \in Referenced : \E i \in 1 .. Len(q) : q[i] = v
  BY <1>1, <1>2, ListWellFormed
<1>4. LSP!WellFormed(I, q) /\ LSP!Load(I, q) /\ q \in Seq(VReg)
  BY <1>2, <1>3, SameScan DEF LS!WellFormed
<1>5. LSP!IInv' /\ LSP!Placed'
  BY <1>1, <1>4, ScanConstants, LSP!LoadIInv, LSP!LoadPlaced DEF WholeIInv
<1>6. iv' = I /\ queue' = q /\ next' = 1
  BY <1>2 DEF LS!Load
<1>7. LiveIInv' /\ Referenced' = Referenced /\ \A v : (IntervalOf(v))' = IntervalOf(v)
  BY <1>1, Frozen DEF WholeIInv
<1>8. LoadedIInv'
  <2>1. block' = 0
    BY <1>1 DEF liveVars
  <2> QED BY <1>2, <1>3, <1>6, <1>7, <2>1 DEF LoadedIInv
<1>9. pc' = 0 /\ intact' = {} /\ lost' = {} /\ prog' = prog
  BY <1>1 DEF WholeIInv, RunIInv, runVars, liveVars
<1>10. RunIInv'
  BY <1>1, <1>9, ProgramFacts DEF RunIInv
<1> QED BY <1>5, <1>7, <1>8, <1>10 DEF WholeIInv

\* The scan goes on, and the function does not run yet.
LEMMA ScanStepIInv ==
    ASSUME WholeIInv, Scan
    PROVE  WholeIInv'
<1>1. UNCHANGED liveVars /\ UNCHANGED runVars /\ LSP!Scan /\ prog \in Programs
  BY SameScan DEF Scan, WholeIInv, LiveIInv, LiveTypeOK
<1>2. LSP!IInv' /\ LSP!Placed'
  <2>1. LSP!IInv'
    BY <1>1, ScanConstants, LSP!NextIInv DEF WholeIInv, LSP!Next
  <2>2. LSP!Placed'
    BY <1>1, ScanConstants, LSP!ScanPlaced DEF WholeIInv
  <2> QED BY <2>1, <2>2
<1>3. LSP!Scanning /\ iv' = iv /\ queue' = queue /\ next' = next + 1
  BY <1>1, ScanConstants, LSP!StepFacts DEF WholeIInv
<1>4. next \in Nat /\ Len(queue) \in Nat /\ next > 0 /\ ~(next > Len(queue))
  <2>1. next \in Nat /\ queue \in Seq(VReg)
    BY DEF WholeIInv, LSP!IInv, LSP!TypeOK
  <2> QED BY <1>3, <2>1 DEF LSP!Scanning
<1>5. LiveIInv' /\ Referenced' = Referenced /\ \A v : (IntervalOf(v))' = IntervalOf(v)
  BY <1>1, Frozen DEF WholeIInv
<1>6. LoadedIInv'
  <2>1. block' = block
    BY <1>1 DEF liveVars
  <2> QED BY <1>3, <1>4, <1>5, <2>1 DEF WholeIInv, LoadedIInv
<1>7. pc' = 0 /\ intact' = {} /\ lost' = {} /\ prog' = prog
  BY <1>1, <1>4 DEF WholeIInv, RunIInv, runVars, liveVars
<1>8. RunIInv'
  BY <1>1, <1>7, ProgramFacts DEF RunIInv
<1> QED BY <1>2, <1>5, <1>6, <1>8 DEF WholeIInv

\* What an action that leaves the allocator's state alone keeps.
LEMMA RestIInv ==
    ASSUME WholeIInv, UNCHANGED liveVars, UNCHANGED scanVars
    PROVE  LiveIInv' /\ LSP!IInv' /\ LSP!Placed' /\ LoadedIInv'
<1>1. /\ iv' = iv /\ queue' = queue /\ next' = next /\ active' = active /\ free' = free /\ loc' = loc
      /\ nextSpill' = nextSpill /\ csMask' = csMask /\ csUsed' = csUsed
  BY DEF scanVars
<1>2. LSP!IInv'
  <2>1. UNCHANGED LSP!vars
    BY <1>1 DEF LSP!vars
  <2> QED BY <2>1, ScanConstants, LSP!StutterIInv DEF WholeIInv
<1>3. LSP!Placed'
  BY <1>1 DEF WholeIInv, LSP!Placed, LSP!Regs, LSP!InReg
<1>4. LiveIInv' /\ Referenced' = Referenced /\ \A v : (IntervalOf(v))' = IntervalOf(v)
  BY Frozen DEF WholeIInv
<1>5. LoadedIInv'
  <2>1. block' = block
    BY DEF liveVars
  <2> QED BY <1>1, <1>4, <2>1 DEF WholeIInv, LoadedIInv
<1> QED BY <1>2, <1>3, <1>4, <1>5

\* The function begins.
LEMMA BeginIInv ==
    ASSUME WholeIInv, Begin
    PROVE  WholeIInv'
<1>1. UNCHANGED liveVars /\ UNCHANGED scanVars /\ prog \in Programs /\ next > 0 /\ next > Len(queue)
  BY DEF Begin, Allocated, WholeIInv, LiveIInv, LiveTypeOK
<1>2. LiveIInv' /\ LSP!IInv' /\ LSP!Placed' /\ LoadedIInv'
  BY <1>1, RestIInv
<1>3. pc' = 1 /\ intact' = {} /\ lost' = {} /\ prog' = prog /\ next' = next /\ queue' = queue
  BY <1>1 DEF Begin, WholeIInv, RunIInv, liveVars, scanVars
<1>4. RunIInv'
  BY <1>1, <1>3, ProgramFacts DEF RunIInv
<1> QED BY <1>2, <1>4 DEF WholeIInv

\* What is read or written at a position is referenced, and its interval spans
\* the position.
LEMMA OccursSpanned ==
    ASSUME prog \in Programs, NEW i \in Positions, NEW v \in Reads(prog[i]) \union Writes(prog[i])
    PROVE  /\ v \in Referenced
           /\ IntervalOf(v).start <= i /\ i <= IntervalOf(v).end
           /\ IntervalOf(v).start \in Nat /\ IntervalOf(v).end \in Nat
<1>1. v \in VReg /\ i \in Touched(v)
  BY ProgramFacts DEF Touched
<1>2. Min(Touched(v)) <= i /\ i <= Max(Touched(v)) /\ Min(Touched(v)) \in Nat /\ Max(Touched(v)) \in Nat
  BY <1>1, TouchedType, ProgramFacts
<1>3. IntervalOf(v).start = Min(Touched(v)) /\ IntervalOf(v).end = Max(Touched(v))
  BY <1>1 DEF IntervalOf
<1> QED BY <1>1, <1>2, <1>3 DEF Referenced

\* Whatever is referenced has a place.
LEMMA HasPlace ==
    ASSUME WholeIInv, next > 0, next > Len(queue), NEW u \in Referenced
    PROVE  u \in VReg /\ loc[u].kind \in {"reg", "spill"}
<1>1. PICK k \in 1 .. Len(queue) : queue[k] = u
  BY DEF WholeIInv, LoadedIInv
<1>2. LSP!TypeOK /\ LSP!Placed
  BY DEF WholeIInv, LSP!IInv
<1>3. k < next
  <2>1. next \in Nat /\ Len(queue) \in Nat
    BY <1>2 DEF LSP!TypeOK
  <2> QED BY <2>1
<1>4. u \in VReg
  BY DEF Referenced
<1>5. loc[u].kind # "none"
  BY <1>1, <1>2, <1>3 DEF LSP!Placed
<1>6. loc[u].kind \in {"none", "reg", "spill"}
  BY <1>2, <1>4 DEF LSP!TypeOK
<1> QED BY <1>4, <1>5, <1>6

\* The result of an instruction has another place than a value that has the
\* instruction strictly inside its interval: their intervals share the position.
LEMMA PlacesApart ==
    ASSUME WholeIInv, next > 0, next > Len(queue), NEW i \in Positions, NEW v \in Referenced, i \in Inside(v),
           NEW w \in Writes(prog[i]), v # w
    PROVE  loc[v] # loc[w]
<1> SUFFICES ASSUME loc[v] = loc[w] PROVE FALSE
  OBVIOUS
<1>1. /\ prog \in Programs /\ v \in VReg /\ Touched(v) # {} /\ i \in Nat
      /\ iv = [u \in VReg |-> IntervalOf(u)]
  BY ProgramFacts DEF WholeIInv, LiveIInv, LiveTypeOK, Referenced, LoadedIInv
<1>2. /\ LSP!TypeOK /\ LSP!NoTwoInOneRegister /\ LSP!SpillSlotsDistinct /\ LSP!Placed
  BY DEF WholeIInv, LSP!IInv
<1>3. w \in Referenced /\ w \in VReg
  BY <1>1, OccursSpanned DEF Referenced
<1>4. CASE loc[v].kind = "spill"
  BY <1>1, <1>2, <1>3, <1>4 DEF LSP!SpillSlotsDistinct
<1>5. CASE loc[v].kind = "reg"
  <2>1. PICK r \in LSP!Regs : loc[v] = LSP!InReg(r)
    BY <1>1, <1>2, <1>5 DEF LSP!Placed
  <2>2. ~LSP!Overlap(v, w)
    BY <1>1, <1>2, <1>3, <2>1 DEF LSP!NoTwoInOneRegister, LSP!Holds
  <2>3. iv[w].start <= i /\ i <= iv[w].end /\ iv[w].start \in Nat /\ iv[w].end \in Nat
    BY <1>1, <1>3, OccursSpanned
  <2>4. iv[v].start < i /\ i < iv[v].end /\ iv[v].start \in Nat /\ iv[v].end \in Nat
    <3>1. Min(Touched(v)) \in Nat /\ Max(Touched(v)) \in Nat
      BY <1>1, TouchedType, ProgramFacts
    <3>2. iv[v].start = Min(Touched(v)) /\ iv[v].end = Max(Touched(v))
      BY <1>1 DEF IntervalOf
    <3> QED BY <1>1, <3>1, <3>2 DEF Inside
  <2>5. iv[v].start <= iv[w].end /\ iv[w].start <= iv[v].end
    BY <1>1, <2>3, <2>4
  <2> QED BY <2>2, <2>5 DEF LSP!Overlap
<1> QED BY <1>4, <1>5, HasPlace

\* A value with an instruction strictly inside its interval survives it, unless
\* it is the result: its register is one that the instruction leaves alone, and
\* the result has another place.
LEMMA InsideSurvives ==
    ASSUME WholeIInv, next > Len(queue), NEW i \in Positions, NEW v \in intact, v \in Referenced,
           i \in Inside(v), v \notin Writes(prog[i]), next > 0
    PROVE  v \in Survivors(prog[i])
<1>1. v \in VReg /\ Touched(v) # {} /\ iv = [u \in VReg |-> IntervalOf(u)]
  BY DEF WholeIInv, Referenced, LoadedIInv
<1>2. LSP!TypeOK /\ LSP!SurvivesClobbers /\ LSP!Placed
  BY DEF WholeIInv, LSP!IInv
<1>3. /\ iv[v].crosses = (\E j \in Inside(v) : CallLike(prog[j]))
      /\ iv[v].forbid = UNION {Clobbers(prog[j]) : j \in Inside(v)}
  BY <1>1 DEF IntervalOf
<1>4. ASSUME loc[v].kind = "reg" PROVE loc[v].id \notin Clobbers(prog[i]) /\ (CallLike(prog[i]) => loc[v].id < NumCalleeSaved)
  <2>1. PICK r \in LSP!Regs : loc[v] = LSP!InReg(r)
    BY <1>1, <1>2, <1>4 DEF LSP!Placed
  <2>2. LSP!Usable(v, r)
    BY <1>1, <1>2, <2>1 DEF LSP!SurvivesClobbers, LSP!Holds
  <2>3. loc[v].id = r
    BY <2>1 DEF LSP!InReg
  <2> QED BY <1>3, <2>2, <2>3 DEF LSP!Usable
<1>5. \A w \in Writes(prog[i]) : loc[v] # loc[w]
  BY PlacesApart
<1> QED BY <1>4, <1>5 DEF Survivors

\* An instruction runs.  A value that it destroys is read on no path ahead: or
\* else it would be live around the instruction, inside its interval, and safe.
LEMMA ExecuteIInv ==
    ASSUME WholeIInv, Execute
    PROVE  WholeIInv'
<1> DEFINE i == pc
           ins == prog[pc]
<1>1. /\ UNCHANGED liveVars /\ UNCHANGED scanVars /\ i \in Positions /\ prog \in Programs
      /\ pc' \in IF Succ(i) = {} THEN {Len(prog) + 1} ELSE Succ(i)
      /\ intact' = Survivors(ins) \union Writes(ins)
      /\ lost' = (lost \union (intact \ Survivors(ins))) \ Writes(ins)
  BY DEF Execute, WholeIInv, LiveIInv, LiveTypeOK
<1>2. LiveIInv' /\ LSP!IInv' /\ LSP!Placed' /\ LoadedIInv'
  BY <1>1, RestIInv
<1>3. /\ Positions' = Positions /\ Referenced' = Referenced /\ \A j : (Succ(j))' = Succ(j)
      /\ \A v : (ReadAhead(v))' = ReadAhead(v)
      /\ prog' = prog /\ next' = next /\ queue' = queue
  BY <1>1, Frozen DEF liveVars, scanVars
<1>4. /\ Len(prog) \in Nat /\ Positions = 1 .. Len(prog) /\ i # 0
      /\ next > 0 /\ next > Len(queue)
      /\ intact \subseteq Referenced /\ lost \subseteq Referenced \ intact
      /\ intact # {} => \E p \in Positions : i \in Succ(p)
      /\ \A v \in lost : i \notin ReadAhead(v)
      /\ block = 0
  <2>1. Len(prog) \in Nat /\ Positions = 1 .. Len(prog)
    BY <1>1, ProgramFacts
  <2>2. i # 0
    BY <1>1, <2>1
  <2> QED BY <1>1, <2>1, <2>2 DEF WholeIInv, RunIInv, LoadedIInv
<1>5. pc' \in 0 .. Len(prog) + 1 /\ pc' # 0 /\ (pc' \in Positions => pc' \in Succ(i))
  <2>1. Succ(i) \subseteq Positions
    BY DEF Succ, Targets
  <2> QED BY <1>1, <1>4, <2>1
<1>6. Survivors(ins) \subseteq intact /\ Writes(ins) \subseteq Referenced
  <2>1. Writes(ins) \subseteq Referenced
    BY <1>1, OccursSpanned
  <2> QED BY <2>1 DEF Survivors
<1>7. intact' \subseteq Referenced /\ lost' \subseteq Referenced \ intact'
  BY <1>1, <1>4, <1>6
<1>8. ASSUME NEW v \in lost', pc' \in ReadAhead(v) PROVE FALSE
  <2>1. v \in VReg /\ v \notin Writes(ins) /\ v \in Referenced
    BY <1>1, <1>7, <1>8 DEF Referenced
  <2>2. pc' \in Succ(i)
    BY <1>1, <1>5, <1>8, AheadFixpoint
  <2>3. i \in ReadAhead(v)
    BY <1>1, <1>8, <2>1, <2>2, AheadFixpoint DEF Before
  <2>4. v \in intact /\ v \notin Survivors(ins)
    BY <1>1, <1>4, <1>8, <2>3
  <2>5. PICK p \in Positions : i \in Succ(p)
    BY <1>4, <2>4
  <2>6. CASE ins.op \in Jump \union {"label"}
    <3>1. Writes(ins) = {}
      BY <2>6 DEF Writes, NoDef, Opaque, Jump
    <3>2. Clobbers(ins) = {}
      BY <1>1, <2>6, RegAllocAssumption DEF Positions
    <3>3. ~CallLike(ins)
      BY <2>6 DEF CallLike, Jump
    <3> QED BY <2>4, <3>1, <3>2, <3>3 DEF Survivors
  <2>7. CASE ins.op \notin Jump \union {"label"}
    <3>1. Succ(i) \cap ReadAhead(v) # {}
      BY <1>8, <2>2
    <3>2. i \in Inside(v)
      BY <1>4, <2>1, <2>3, <2>5, <2>7, <3>1, InsideAround DEF WholeIInv
    <3>3. v \in Survivors(ins)
      BY <1>1, <1>4, <2>1, <2>4, <3>2, InsideSurvives
    <3> QED BY <2>4, <3>3
  <2> QED BY <2>6, <2>7
<1>9. RunIInv'
  BY <1>1, <1>3, <1>4, <1>5, <1>7, <1>8 DEF RunIInv
<1> QED BY <1>2, <1>9 DEF WholeIInv

\* Every step keeps it.
LEMMA WholeNext == WholeIInv /\ [Next]_vars => WholeIInv'
<1> SUFFICES ASSUME WholeIInv, [Next]_vars PROVE WholeIInv'
  OBVIOUS
<1>1. CASE Dataflow
  BY <1>1, DataflowIInv
<1>2. CASE LoadScan
  BY <1>2, LoadScanIInv
<1>3. CASE Scan
  BY <1>3, ScanStepIInv
<1>4. CASE Begin
  BY <1>4, BeginIInv
<1>5. CASE Execute
  BY <1>5, ExecuteIInv
<1>6. CASE UNCHANGED vars
  <2>1. UNCHANGED liveVars /\ UNCHANGED scanVars /\ UNCHANGED runVars
    BY <1>6 DEF vars
  <2>2. LiveIInv' /\ LSP!IInv' /\ LSP!Placed' /\ LoadedIInv'
    BY <2>1, RestIInv
  <2>3. RunIInv'
    <3>1. /\ Positions' = Positions /\ Referenced' = Referenced /\ \A j : (Succ(j))' = Succ(j)
          /\ \A v : (ReadAhead(v))' = ReadAhead(v)
          /\ prog' = prog /\ next' = next /\ queue' = queue
      BY <2>1, Frozen DEF liveVars, scanVars
    <3>2. pc' = pc /\ intact' = intact /\ lost' = lost
      BY <2>1 DEF runVars
    <3> QED BY <3>1, <3>2 DEF WholeIInv, RunIInv
  <2> QED BY <2>2, <2>3 DEF WholeIInv
<1> QED BY <1>1, <1>2, <1>3, <1>4, <1>5, <1>6 DEF Next

-----------------------------------------------------------------------------
(* The allocator ends.                                                     *)

\* No value is live into a block that the next visit would take from there.
Rising == \A b \in Blocks : liveIn[b] \subseteq Use(b) \union (liveOut[b] \ Def(b))

\* What is not live, as far as the dataflow knows.
Missing == {p \in Blocks \X VReg : p[2] \notin liveIn[p[1]]}

Stage == IF block # 0 THEN 2 ELSE IF next = 0 THEN 1 ELSE 0

\* What is left to do: dataflow and scan, values that may still become live,
\* another round when this one has changed any, blocks or intervals.
Left == <<Stage, Cardinality(Missing), IF changed THEN 1 ELSE 0,
          IF block # 0 THEN block ELSE Len(queue) + 1 - next>>

\* A visit takes no value from those that are live into its block.  If it adds
\* none, it brings the round on, or ends it.
LEMMA VisitShape ==
    ASSUME LiveIInv, Rising, Visit
    PROVE  /\ block \in Nat /\ block' \in Nat /\ changed \in BOOLEAN /\ Blocks' = Blocks
           /\ Rising'
           /\ \A b \in Blocks : liveIn[b] \subseteq liveIn'[b]
           /\ \/ liveIn' # liveIn
              \/ block' < block /\ changed' = changed
              \/ changed /\ ~changed'
              \/ block' = 0
<1> DEFINE B == block
           out == liveOut[B] \union UNION {liveIn[s] : s \in Succ(LastOf(B))}
           in == Use(B) \union (out \ Def(B))
           dirty == changed \/ in # liveIn[B]
<1>0. LiveTypeOK /\ prog \in Programs
  BY DEF LiveIInv, LiveTypeOK
<1>1. /\ B # 0
      /\ liveOut' = [liveOut EXCEPT ![B] = out]
      /\ liveIn' = [liveIn EXCEPT ![B] = in]
      /\ prog' = prog
      /\ B > 1 => block' = Max({b \in Blocks : b < B}) /\ changed' = dirty
      /\ ~(B > 1) => block' = (IF dirty THEN Max(Blocks) ELSE 0) /\ changed' = FALSE
  BY DEF Visit, VisitWith
<1>2. B \in Blocks /\ B \in Nat /\ \A b \in Blocks : b \in Nat /\ b >= 1
  BY <1>0, <1>1, BlockFacts, ProgramFacts DEF LiveTypeOK
<1>3. /\ liveIn \in [Blocks -> SUBSET VReg] /\ liveOut \in [Blocks -> SUBSET VReg] /\ changed \in BOOLEAN
  BY <1>0 DEF LiveTypeOK
<1>4. Blocks' = Blocks /\ \A b : (Use(b))' = Use(b) /\ (Def(b))' = Def(b)
  <2>1. Positions' = Positions /\ Blocks' = Blocks /\ \A b : (LastOf(b))' = LastOf(b)
    BY <1>1 DEF Blocks, Positions, LastOf
  <2> QED BY <1>1, <2>1 DEF Use, Def, Body
<1>5. liveIn[B] \subseteq in /\ liveOut[B] \subseteq out
  <2>1. liveIn[B] \subseteq Use(B) \union (liveOut[B] \ Def(B))
    BY <1>2 DEF Rising
  <2> QED BY <2>1
<1>6. /\ liveIn'[B] = in /\ liveOut'[B] = out
      /\ \A b \in Blocks \ {B} : liveIn'[b] = liveIn[b] /\ liveOut'[b] = liveOut[b]
  BY <1>1, <1>2, <1>3
<1>7. Rising'
  <2>1. ASSUME NEW b \in Blocks
        PROVE  liveIn'[b] \subseteq Use(b) \union (liveOut'[b] \ Def(b))
    <3>1. CASE b = B
      BY <1>6, <3>1
    <3>2. CASE b # B
      <4>1. liveIn'[b] = liveIn[b] /\ liveOut'[b] = liveOut[b]
        BY <1>6, <3>2
      <4> QED BY <4>1 DEF Rising
    <3> QED BY <3>1, <3>2
  <2> QED BY <1>4, <2>1 DEF Rising
<1>8. \A b \in Blocks : liveIn[b] \subseteq liveIn'[b]
  BY <1>5, <1>6
<1>9. in # liveIn[B] => liveIn' # liveIn
  BY <1>6
<1> HIDE DEF in, out
<1>10. block' \in Nat /\ (B > 1 => block' < B)
  <2> HIDE DEF dirty
  <2>1. B > 1 => block' \in Blocks /\ block' < B
    BY <1>0, <1>1, <1>2, BlockMax
  <2>2. ~(B > 1) => block' \in Blocks \union {0}
    BY <1>0, <1>1, BlockMax
  <2>3. block' \in Blocks \union {0}
    BY <2>1, <2>2
  <2>4. block' \in Nat
    BY <1>2, <2>3
  <2> QED BY <2>1, <2>4
<1>11. \/ liveIn' # liveIn
       \/ block' < block /\ changed' = changed
       \/ changed /\ ~changed'
       \/ block' = 0
  <2>1. CASE in # liveIn[B]
    BY <1>9, <2>1
  <2>2. CASE in = liveIn[B]
    <3>1. CASE B > 1
      BY <1>1, <1>10, <1>3, <2>2, <3>1
    <3>2. CASE ~(B > 1)
      BY <1>1, <1>3, <2>2, <3>2
    <3> QED BY <3>1, <3>2
  <2> QED BY <2>1, <2>2
<1> QED BY <1>2, <1>3, <1>4, <1>7, <1>8, <1>10, <1>11

\* No step takes a value back.
LEMMA RisingNext == WholeIInv /\ Rising /\ [Next]_vars => Rising'
<1> SUFFICES ASSUME WholeIInv, Rising, [Next]_vars PROVE Rising'
  OBVIOUS
<1>1. CASE Dataflow
  BY <1>1, VisitShape DEF WholeIInv, Dataflow
<1>2. CASE ~Dataflow
  <2>1. prog' = prog /\ liveIn' = liveIn /\ liveOut' = liveOut
    BY <1>2 DEF Next, LoadScan, Scan, Begin, Execute, vars, liveVars
  <2>2. Positions' = Positions /\ Blocks' = Blocks /\ \A b : (LastOf(b))' = LastOf(b)
    BY <2>1 DEF Blocks, Positions, LastOf
  <2>3. \A b : (Use(b))' = Use(b) /\ (Def(b))' = Def(b)
    BY <2>1, <2>2 DEF Use, Def, Body
  <2> QED BY <2>1, <2>2, <2>3 DEF Rising
<1> QED BY <1>1, <1>2

\* There are finitely many values and blocks.
LEMMA MissingFinite ==
    ASSUME LiveTypeOK
    PROVE  IsFiniteSet(Missing) /\ Cardinality(Missing) \in Nat
<1>1. Blocks \subseteq 0 .. Len(prog) /\ Len(prog) \in Nat
  BY ProgramFacts, BlockFacts DEF LiveTypeOK
<1>2. IsFiniteSet(Blocks)
  <2>1. IsFiniteSet(0 .. Len(prog))
    BY <1>1, FS_Interval
  <2> QED BY <1>1, <2>1, FS_Subset
<1>3. IsFiniteSet(Blocks \X VReg)
  BY <1>2, LivenessAssumption, FS_Product
<1>4. IsFiniteSet(Missing)
  <2>1. Missing \in SUBSET (Blocks \X VReg)
    BY DEF Missing
  <2> QED BY <1>3, <2>1, FS_Subset
<1> QED BY <1>4, FS_CardinalityType

\* Values that become live are missing no more.
LEMMA FewerMissing ==
    ASSUME LiveTypeOK, LiveTypeOK', Blocks' = Blocks, \A b \in Blocks : liveIn[b] \subseteq liveIn'[b],
           liveIn' # liveIn
    PROVE  Cardinality(Missing') < Cardinality(Missing)
<1>1. liveIn \in [Blocks -> SUBSET VReg] /\ liveIn' \in [Blocks -> SUBSET VReg]
  BY DEF LiveTypeOK
<1>2. PICK b \in Blocks : liveIn'[b] # liveIn[b]
  BY <1>1
<1>3. PICK v \in VReg : v \in liveIn'[b] /\ v \notin liveIn[b]
  BY <1>1, <1>2
<1>4. <<b, v>> \in Missing /\ <<b, v>> \notin Missing'
  BY <1>3 DEF Missing
<1>5. Missing' \in SUBSET Missing
  BY DEF Missing
<1>6. IsFiniteSet(Missing) /\ Cardinality(Missing) \in Nat
  BY MissingFinite
<1>7. /\ IsFiniteSet(Missing') /\ Cardinality(Missing') <= Cardinality(Missing)
      /\ Cardinality(Missing) # Cardinality(Missing')
  BY <1>4, <1>5, <1>6, FS_Subset
<1>8. Cardinality(Missing') \in Nat
  BY <1>7, FS_CardinalityType
<1> QED BY <1>6, <1>7, <1>8

\* What is left of dataflow and scan is a quadruple of natural numbers.
LEMMA LeftIsMeasure == WholeIInv => Left \in Measure
<1> SUFFICES ASSUME WholeIInv PROVE Left \in Measure
  OBVIOUS
<1>1. Cardinality(Missing) \in Nat
  BY MissingFinite DEF WholeIInv, LiveIInv
<1>2. block \in Nat
  BY BlockFacts, ProgramFacts DEF WholeIInv, LiveIInv, LiveTypeOK
<1>3. Len(queue) + 1 - next \in Nat
  <2>1. next \in 0 .. Len(queue) + 1 /\ queue \in Seq(VReg)
    BY DEF WholeIInv, LSP!IInv, LSP!TypeOK
  <2> QED BY <2>1
<1> QED BY <1>1, <1>2, <1>3 DEF Left, Measure, Stage

\* Every step of the allocator makes what is left smaller: the dataflow,
LEMMA VisitEnds ==
    ASSUME WholeIInv, WholeIInv', Rising, Dataflow
    PROVE  Below(Left', Left)
<1> DEFINE n == Cardinality(Missing)
           m == Cardinality(Missing')
<1>1. /\ block \in Nat /\ block # 0 /\ block' \in Nat /\ changed \in BOOLEAN /\ Blocks' = Blocks
      /\ \A b \in Blocks : liveIn[b] \subseteq liveIn'[b]
      /\ \/ liveIn' # liveIn
         \/ block' < block /\ changed' = changed
         \/ changed /\ ~changed'
         \/ block' = 0
  BY VisitShape DEF WholeIInv, Dataflow, Visit, VisitWith
<1>2. LiveTypeOK /\ LiveTypeOK'
  BY DEF WholeIInv, LiveIInv
<1>3. Stage = 2 /\ (block' # 0 => Stage' = 2) /\ (block' = 0 => Stage' < 2)
  BY <1>1 DEF Stage
<1>4. liveIn' # liveIn => m < n
  BY <1>1, <1>2, FewerMissing
<1>5. liveIn' = liveIn => m = n
  BY <1>1 DEF Missing
<1> HIDE DEF n, m
<1>6. /\ Left = <<Stage, n, IF changed THEN 1 ELSE 0, IF block # 0 THEN block ELSE Len(queue) + 1 - next>>
      /\ Left' = <<Stage', m, IF changed' THEN 1 ELSE 0, IF block' # 0 THEN block' ELSE Len(queue') + 1 - next'>>
  BY DEF Left, n, m
<1>7. CASE block' = 0
  BY <1>3, <1>6, <1>7 DEF Below
<1>8. CASE block' # 0 /\ liveIn' # liveIn
  BY <1>3, <1>4, <1>6, <1>8 DEF Below
<1>9. CASE block' # 0 /\ liveIn' = liveIn /\ changed /\ ~changed'
  BY <1>3, <1>5, <1>6, <1>9 DEF Below
<1>10. CASE block' # 0 /\ liveIn' = liveIn /\ block' < block /\ changed' = changed
  <2>1. (IF changed' THEN 1 ELSE 0) = (IF changed THEN 1 ELSE 0)
    BY <1>10
  <2>2. (IF block' # 0 THEN block' ELSE Len(queue') + 1 - next') < (IF block # 0 THEN block ELSE Len(queue) + 1 - next)
    BY <1>1, <1>10
  <2> QED BY <1>3, <1>5, <1>6, <1>10, <2>1, <2>2 DEF Below
<1> QED BY <1>1, <1>7, <1>8, <1>9, <1>10

\* and the scan.
LEMMA ScanEnds ==
    ASSUME WholeIInv, LoadScan \/ Scan
    PROVE  Below(Left', Left)
<1>1. prog' = prog /\ block' = block /\ changed' = changed /\ liveIn' = liveIn
  BY DEF LoadScan, Scan, liveVars
<1>2. CASE LoadScan
  <2>1. block = 0 /\ next = 0 /\ next' = 1
    BY <1>2 DEF LoadScan, LS!Load
  <2>2. Stage' < Stage
    BY <1>1, <2>1 DEF Stage
  <2> QED BY <2>2 DEF Left, Below
<1>3. CASE Scan
  <2>1. LSP!Scanning /\ queue' = queue /\ next' = next + 1
    BY <1>3, SameScan, ScanConstants, LSP!StepFacts DEF WholeIInv, Scan
  <2>2. next \in Nat /\ Len(queue) \in Nat /\ next > 0
    <3>1. queue \in Seq(VReg) /\ next \in Nat
      BY DEF WholeIInv, LSP!IInv, LSP!TypeOK
    <3> QED BY <2>1, <3>1 DEF LSP!Scanning
  <2>3. block = 0
    BY <2>2 DEF WholeIInv, LoadedIInv
  <2>4. Stage' = Stage
    BY <1>1, <2>1, <2>2, <2>3 DEF Stage
  <2>5. Missing' = Missing
    BY <1>1 DEF Missing, Blocks, Positions
  <2>6. Len(queue') + 1 - next' < Len(queue) + 1 - next
    BY <2>1, <2>2
  <2>7. /\ Left = <<Stage, Cardinality(Missing), IF changed THEN 1 ELSE 0, Len(queue) + 1 - next>>
        /\ Left' = <<Stage, Cardinality(Missing), IF changed THEN 1 ELSE 0, Len(queue') + 1 - next'>>
    BY <1>1, <2>3, <2>4, <2>5 DEF Left
  <2> QED BY <2>6, <2>7 DEF Below
<1> QED BY <1>2, <1>3

-----------------------------------------------------------------------------
(* Theorems.                                                               *)

\* WholeIInv holds in every state of the allocator and of the function.
THEOREM Invariance == Spec => []WholeIInv
<1>1. Init => WholeIInv
  BY WholeInit
<1> QED BY <1>1, WholeNext, PTL DEF Spec

\* The state stays of its type; of the run, no value is both where it was
\* written and lost.
THEOREM TypeCorrect == Spec => []TypeOK
<1>1. WholeIInv => TypeOK
  <2> SUFFICES ASSUME WholeIInv PROVE TypeOK
    OBVIOUS
  <2>1. LiveTypeOK /\ LSP!TypeOK
    BY DEF WholeIInv, LiveIInv, LSP!IInv
  <2>2. LS!TypeOK
    BY <2>1 DEF LS!TypeOK, LSP!TypeOK, LS!Interval, LSP!Interval, LS!Regs, LSP!Regs
  <2>3. Referenced \subseteq VReg
    BY DEF Referenced
  <2> QED BY <2>1, <2>2, <2>3 DEF TypeOK, WholeIInv, RunIInv
<1> QED BY <1>1, Invariance, PTL

\* When the rounds of the dataflow end, live_in is exactly liveness by paths,
\* whatever the function's jumps: the rounds neither end early nor keep a value.
THEOREM Exactness == Spec => []DataflowIsExact
<1>1. WholeIInv => DataflowIsExact
  BY Exact DEF WholeIInv, DataflowIsExact
<1> QED BY <1>1, Invariance, PTL

\* Whatever is live on both sides of an instruction that control reaches has it
\* strictly inside its interval.
THEOREM Covering == Spec => []IntervalsCover
<1>1. WholeIInv => IntervalsCover
  BY Covers DEF WholeIInv, IntervalsCover
<1> QED BY <1>1, Invariance, PTL

\* Of two parameters that are received at once, the earlier is live around the
\* fetch of the later: their homes differ.
THEOREM Homes == Spec => []HomesApart
<1>1. ASSUME WholeIInv PROVE HomesApart
  <2> SUFFICES ASSUME next > 0, Allocated, NEW i \in Positions, NEW j \in Positions, FetchedTogether(i, j),
                      NEW v \in Writes(prog[i]), NEW w \in Writes(prog[j]),
                      v # w, Succ(j) \cap ReadAhead(v) # {}
               PROVE  loc[v] # loc[w]
    BY DEF HomesApart
  <2>1. /\ prog \in Programs /\ LiveIInv /\ block = 0 /\ next > Len(queue)
        /\ i \in Nat /\ j \in Nat /\ Positions = 1 .. Len(prog) /\ Len(prog) \in Nat
    BY <1>1, ProgramFacts DEF WholeIInv, LiveIInv, LiveTypeOK, LoadedIInv, Allocated
  <2>2. v \in Referenced /\ v \in VReg
    BY <2>1, OccursSpanned DEF Referenced
  <2>3. v \notin Writes(prog[j])
    BY DEF Writes, Real
  <2>4. j \in ReadAhead(v)
    BY <2>1, <2>3, AheadFixpoint DEF Before
  <2>5. j - 1 \in Positions /\ j - 1 \in i .. j /\ (j - 1) + 1 = j
    BY <2>1 DEF FetchedTogether
  <2>6. j \in Succ(j - 1)
    <3>1. prog[j - 1].op \in {"getparam", "nop"}
      BY <2>5 DEF FetchedTogether
    <3>2. prog[j - 1].op \notin Return \union {"jmp"}
      BY <3>1 DEF Return
    <3> QED BY <2>5, <3>2 DEF Succ
  <2>7. prog[j].op \notin Jump \union {"label"}
    BY DEF FetchedTogether, Jump
  <2>8. j \in Inside(v)
    BY <2>1, <2>2, <2>3, <2>4, <2>5, <2>6, <2>7, InsideAround
  <2> QED BY <1>1, <2>1, <2>2, <2>8, PlacesApart
<1> QED BY <1>1, Invariance, PTL

\* On every path of every function, an instruction that reads a value finds it
\* where the value was written last.
THEOREM OwnValue == Spec => []ReadsOwnValue
<1>1. WholeIInv => ReadsOwnValue
  <2> SUFFICES ASSUME WholeIInv, pc \in Positions, NEW v \in Reads(prog[pc]), v \in lost
               PROVE  FALSE
    BY DEF ReadsOwnValue
  <2>1. prog \in Programs
    BY DEF WholeIInv, LiveIInv, LiveTypeOK
  <2>2. pc \in ReadAhead(v)
    BY <2>1, AheadFixpoint DEF Before
  <2> QED BY <2>2 DEF WholeIInv, RunIInv
<1> QED BY <1>1, Invariance, PTL


\* The rounds of the dataflow settle (compute_liveness repeats while anything
\* has changed) and the scan gets to the end of its list: every step of the
\* allocator makes what is left smaller.
THEOREM Ends == Spec => [](Left \in Measure) /\ [][Below(Left', Left)]_<<liveVars, scanVars>>
<1>1. Init => Rising
  BY DEF Init, LiveInit, Rising
<1>2. WholeIInv /\ WholeIInv' /\ Rising /\ [Next]_vars => [Below(Left', Left)]_<<liveVars, scanVars>>
  BY VisitEnds, ScanEnds DEF Next, Begin, Execute, vars
<1> QED BY <1>1, <1>2, RisingNext, LeftIsMeasure, Invariance, PTL DEF Spec
=============================================================================
