--------------------------- MODULE FrontendProofs ---------------------------
(***************************************************************************)
(* However files include each other, a program holds each file that the    *)
(* first one leads to, once, and no other.  The removal, of any functions, *)
(* leaves exactly the reachable ones.  Lowered and pruned, a program has   *)
(* all functions of the first file, and all that those refer to.           *)
(***************************************************************************)
EXTENDS Frontend, Descent, FiniteSetTheorems, SequenceTheorems, TLAPS

\* What a call has put together begins with its own file.
OwnFirst == \A a \in 1 .. Len(stack) : stack[a].decls # <<>> /\ stack[a].decls[1].path = stack[a].path

\* Everything that the calls under way hold has been marked.
Marked == \A a \in 1 .. Len(stack) : \A i \in 1 .. Len(stack[a].decls) : stack[a].decls[i].path \in visited

\* No two of them hold the same, and none holds anything twice.
HeldOnce ==
    \A a, b \in 1 .. Len(stack) :
        \A i \in 1 .. Len(stack[a].decls), j \in 1 .. Len(stack[b].decls) :
            stack[a].decls[i].path = stack[b].decls[j].path => a = b /\ i = j

\* Nor does the program.
ProgramOnce == \A i, j \in 1 .. Len(program) : program[i].path = program[j].path => i = j

\* The inductive invariant.
IInv ==
    /\ IncludesTypeOK
    /\ OwnFirst
    /\ Marked
    /\ HeldOnce
    /\ ProgramOnce

Call == [path : Path, todo : Seq(Include), decls : Seq(Decl)]

-----------------------------------------------------------------------------
(* Lists and sets.                                                         *)

\* A set of positions that is not empty has a first one.
LEMMA Earliest ==
    ASSUME NEW n \in Nat, NEW S \in SUBSET (1 .. n), S # {}
    PROVE  \E i \in S : \A j \in S : i <= j
<1> DEFINE D == {x \in 0 .. n : \A y \in S : x < y}
           up == [x \in D |-> x + 1]
<1> SUFFICES ASSUME \A i \in S : \E j \in S : ~(i <= j)
             PROVE  FALSE
  OBVIOUS
<1>1. ASSUME NEW x \in D
      PROVE  x + 1 \in D
  <2>1. x + 1 \notin S
    OBVIOUS
  <2>2. PICK y \in S : TRUE
    OBVIOUS
  <2> QED BY <2>1, <2>2
<1>2. 0 \in D
  OBVIOUS
<1>3. IsFiniteSet(D)
  <2>1. IsFiniteSet(0 .. n)
    BY FS_Interval
  <2> QED BY <2>1, FS_Subset
<1>4. up \in Injection(D, D)
  BY <1>1 DEF Injection, IsInjective
<1>5. up \in Surjection(D, D)
  BY <1>3, <1>4, FS_Injection
<1>6. PICK x \in D : up[x] = 0
  BY <1>2, <1>5 DEF Surjection
<1> QED BY <1>6

\* One sequence after the other: up to the first, up to the second, and so on.
Chain(s, k, f) == f = [i \in 1 .. k |-> IF i = 1 THEN s[i] ELSE f[i - 1] \o s[i]]

\* There is such a chain.
LEMMA ChainExists ==
    ASSUME NEW s, NEW n \in Nat
    PROVE  \E f : Chain(s, n, f)
<1> DEFINE Broken == {k \in 1 .. n : ~ \E f : Chain(s, k, f)}
<1>1. Chain(s, 0, [i \in 1 .. 0 |-> s[1]])
  BY DEF Chain
<1>2. ASSUME NEW k \in 1 .. n, NEW g, Chain(s, k - 1, g)
      PROVE  \E f : Chain(s, k, f)
  <2> DEFINE h == [i \in 1 .. k |-> IF i = k /\ k # 1 THEN g[k - 1] \o s[k] ELSE IF i = k THEN s[k] ELSE g[i]]
  <2>1. ASSUME NEW i \in 1 .. k
        PROVE  h[i] = IF i = 1 THEN s[i] ELSE h[i - 1] \o s[i]
    <3>1. CASE i = k /\ k = 1
      BY <3>1
    <3>2. CASE i = k /\ k # 1
      <4>1. k - 1 \in 1 .. k /\ k - 1 # k
        BY <3>2
      <4>2. h[k - 1] = g[k - 1] /\ h[k] = g[k - 1] \o s[k]
        BY <3>2, <4>1
      <4> QED BY <3>2, <4>2
    <3>3. CASE i # k
      <4>1. i \in 1 .. (k - 1)
        BY <3>3
      <4>2. g[i] = IF i = 1 THEN s[i] ELSE g[i - 1] \o s[i]
        <5> DEFINE r == [a \in 1 .. (k - 1) |-> IF a = 1 THEN s[a] ELSE g[a - 1] \o s[a]]
        <5>1. r[i] = IF i = 1 THEN s[i] ELSE g[i - 1] \o s[i]
          BY <4>1
        <5>2. g = r
          BY <1>2 DEF Chain
        <5> HIDE DEF r
        <5> QED BY <5>1, <5>2
      <4>3. h[i] = g[i]
        BY <3>3
      <4>4. i # 1 => h[i - 1] = g[i - 1]
        BY <4>1
      <4> HIDE DEF h
      <4> QED BY <4>2, <4>3, <4>4
    <3> QED BY <3>1, <3>2, <3>3
  <2>2. h = [i \in 1 .. k |-> h[i]]
    OBVIOUS
  <2>3. h = [i \in 1 .. k |-> IF i = 1 THEN s[i] ELSE h[i - 1] \o s[i]]
    <3> HIDE DEF h
    <3> QED BY <2>1, <2>2
  <2> HIDE DEF h
  <2> QED BY <2>3 DEF Chain
<1>3. Broken = {}
  <2> SUFFICES ASSUME Broken # {} PROVE FALSE
    OBVIOUS
  <2>1. PICK k \in Broken : \A j \in Broken : k <= j
    <3>1. Broken \in SUBSET (1 .. n)
      OBVIOUS
    <3> HIDE DEF Broken
    <3> QED BY <3>1, Earliest
  <2>2. \E g : Chain(s, k - 1, g)
    <3>1. CASE k = 1
      BY <1>1, <3>1
    <3>2. CASE k # 1
      <4>1. k - 1 \in 1 .. n /\ ~(k <= k - 1)
        BY <3>2
      <4>2. k - 1 \notin Broken
        BY <2>1, <4>1
      <4> QED BY <4>1, <4>2
    <3> QED BY <3>1, <3>2
  <2>3. PICK g : Chain(s, k - 1, g)
    BY <2>2
  <2>4. k \in 1 .. n /\ ~ \E f : Chain(s, k, f)
    OBVIOUS
  <2> HIDE DEF Broken
  <2> QED BY <1>2, <2>3, <2>4
<1>4. CASE n = 0
  BY <1>1, <1>4
<1>5. CASE n # 0
  <2>1. n \in 1 .. n
    BY <1>5
  <2> QED BY <1>3, <2>1
<1> QED BY <1>4, <1>5

\* A flattened sequence of sequences begins with the first of them, and holds
\* what each of them holds.
LEMMA Flattened ==
    ASSUME NEW s \in Seq(Seq(Func)), s # <<>>
    PROVE  /\ FlattenSeq(s) \in Seq(Func)
           /\ Len(s[1]) <= Len(FlattenSeq(s))
           /\ \A i \in 1 .. Len(s[1]) : FlattenSeq(s)[i] = s[1][i]
           /\ \A j \in 1 .. Len(s) : \A i \in 1 .. Len(s[j]) :
                  \E l \in 1 .. Len(FlattenSeq(s)) : FlattenSeq(s)[l] = s[j][i]
           /\ \A l \in 1 .. Len(FlattenSeq(s)) :
                  \E j \in 1 .. Len(s) : \E i \in 1 .. Len(s[j]) : FlattenSeq(s)[l] = s[j][i]
<1>1. Len(s) \in Nat /\ Len(s) # 0 /\ 1 \in 1 .. Len(s) /\ Len(s) \in 1 .. Len(s)
  BY LenProperties, EmptySeq
<1> DEFINE f == CHOOSE f : Chain(s, Len(s), f)
           Has(t, k) ==
               /\ t \in Seq(Func)
               /\ Len(s[1]) <= Len(t)
               /\ \A i \in 1 .. Len(s[1]) : t[i] = s[1][i]
               /\ \A j \in 1 .. k : \A i \in 1 .. Len(s[j]) : \E l \in 1 .. Len(t) : t[l] = s[j][i]
               /\ \A l \in 1 .. Len(t) : \E j \in 1 .. k : \E i \in 1 .. Len(s[j]) : t[l] = s[j][i]
           Fine(k) == Has(f[k], k)
           Broken == {k \in 1 .. Len(s) : ~Fine(k)}
<1>2. FlattenSeq(s) = f[Len(s)]
  BY <1>1 DEF FlattenSeq, Chain
<1>3. Chain(s, Len(s), f)
  BY <1>1, ChainExists
<1> HIDE DEF f
<1>4. ASSUME NEW k \in 1 .. Len(s)
      PROVE  s[k] \in Seq(Func) /\ Len(s[k]) \in Nat /\ f[k] = IF k = 1 THEN s[k] ELSE f[k - 1] \o s[k]
  <2>1. s[k] \in Seq(Func)
    BY ElementOfSeq
  <2>2. f[k] = IF k = 1 THEN s[k] ELSE f[k - 1] \o s[k]
    <3> DEFINE r == [a \in 1 .. Len(s) |-> IF a = 1 THEN s[a] ELSE f[a - 1] \o s[a]]
    <3>1. r[k] = IF k = 1 THEN s[k] ELSE f[k - 1] \o s[k]
      OBVIOUS
    <3>2. f = r
      BY <1>3 DEF Chain
    <3> HIDE DEF r
    <3> QED BY <3>1, <3>2
  <2> QED BY <2>1, <2>2, LenProperties
<1>5. Fine(1)
  <2>1. f[1] = s[1] /\ s[1] \in Seq(Func) /\ Len(s[1]) \in Nat
    BY <1>1, <1>4
  <2>2. \A j \in 1 .. 1 : j = 1
    OBVIOUS
  <2> QED BY <2>1, <2>2
<1>6. ASSUME NEW k \in 1 .. Len(s), k # 1, Fine(k - 1)
      PROVE  Fine(k)
  <2> DEFINE before == f[k - 1]
  <2>1. f[k] = before \o s[k] /\ s[k] \in Seq(Func) /\ Len(s[k]) \in Nat
    BY <1>4, <1>6
  <2>2. before \in Seq(Func) /\ Len(before) \in Nat /\ Len(s[1]) \in Nat
    BY <1>1, <1>4, <1>6, LenProperties
  <2>3. /\ Len(s[1]) <= Len(before)
        /\ \A i \in 1 .. Len(s[1]) : before[i] = s[1][i]
        /\ \A j \in 1 .. (k - 1) : \A i \in 1 .. Len(s[j]) : \E l \in 1 .. Len(before) : before[l] = s[j][i]
        /\ \A l \in 1 .. Len(before) : \E j \in 1 .. (k - 1) : \E i \in 1 .. Len(s[j]) : before[l] = s[j][i]
    BY <1>6
  <2> HIDE DEF before
  <2>4. /\ before \o s[k] \in Seq(Func)
        /\ Len(before \o s[k]) = Len(before) + Len(s[k])
        /\ \A i \in 1 .. Len(before) + Len(s[k]) :
               (before \o s[k])[i] = IF i <= Len(before) THEN before[i] ELSE s[k][i - Len(before)]
    BY <2>1, <2>2, ConcatProperties
  <2>5. \A i \in 1 .. Len(before) : i \in 1 .. Len(f[k]) /\ f[k][i] = before[i]
    BY <2>1, <2>2, <2>4
  <2>6. ASSUME NEW i \in 1 .. Len(s[k])
        PROVE  \E l \in 1 .. Len(f[k]) : f[k][l] = s[k][i]
    <3>1. /\ Len(before) + i \in 1 .. Len(before) + Len(s[k])
          /\ ~(Len(before) + i <= Len(before)) /\ Len(before) + i - Len(before) = i
      BY <2>1, <2>2
    <3> QED BY <2>1, <2>4, <3>1
  <2>7. ASSUME NEW j \in 1 .. k, NEW i \in 1 .. Len(s[j])
        PROVE  \E l \in 1 .. Len(f[k]) : f[k][l] = s[j][i]
    <3>1. CASE j = k
      BY <2>6, <3>1
    <3>2. CASE j # k
      <4>1. j \in 1 .. (k - 1)
        BY <3>2
      <4>2. PICK l \in 1 .. Len(before) : before[l] = s[j][i]
        BY <2>3, <4>1
      <4> QED BY <2>5, <4>2
    <3> QED BY <3>1, <3>2
  <2>8. f[k] \in Seq(Func) /\ Len(s[1]) <= Len(f[k])
    BY <2>1, <2>2, <2>3, <2>4
  <2>9. ASSUME NEW i \in 1 .. Len(s[1])
        PROVE  f[k][i] = s[1][i]
    <3>1. i \in 1 .. Len(before)
      BY <2>2, <2>3
    <3> QED BY <2>3, <2>5, <3>1
  <2>10. ASSUME NEW l \in 1 .. Len(f[k])
         PROVE  \E j \in 1 .. k : \E i \in 1 .. Len(s[j]) : f[k][l] = s[j][i]
    <3>1. CASE l <= Len(before)
      <4>1. l \in 1 .. Len(before) /\ f[k][l] = before[l]
        BY <2>2, <2>5, <3>1
      <4>2. PICK j \in 1 .. (k - 1) : \E i \in 1 .. Len(s[j]) : before[l] = s[j][i]
        BY <2>3, <4>1
      <4> QED BY <4>1, <4>2
    <3>2. CASE ~(l <= Len(before))
      <4>1. l \in 1 .. Len(before) + Len(s[k]) /\ l - Len(before) \in 1 .. Len(s[k])
        BY <2>1, <2>2, <2>4, <3>2
      <4>2. f[k][l] = s[k][l - Len(before)]
        BY <2>1, <2>4, <3>2, <4>1
      <4> QED BY <4>1, <4>2
    <3> QED BY <3>1, <3>2
  <2> QED BY <2>7, <2>8, <2>9, <2>10
<1>7. Broken = {}
  <2> SUFFICES ASSUME Broken # {} PROVE FALSE
    OBVIOUS
  <2> HIDE DEF Fine
  <2>1. PICK k \in Broken : \A j \in Broken : k <= j
    <3>1. Broken \in SUBSET (1 .. Len(s))
      OBVIOUS
    <3> HIDE DEF Broken
    <3> QED BY <1>1, <3>1, Earliest
  <2>2. k # 1
    BY <1>5
  <2>3. k - 1 \in 1 .. Len(s) /\ ~(k <= k - 1)
    BY <1>1, <2>2
  <2>4. Fine(k - 1)
    BY <2>1, <2>3
  <2> QED BY <1>6, <2>2, <2>4
<1>8. Fine(Len(s))
  <2> HIDE DEF Fine
  <2> QED BY <1>1, <1>7
<1>9. Has(FlattenSeq(s), Len(s))
  <2> HIDE DEF Has
  <2> QED BY <1>2, <1>8
<1> QED BY <1>9

\* The first place at which there is something is one of the places.
LEMMA PlaceFound ==
    ASSUME NEW candidates \in Seq(Path)
    PROVE  /\ FirstExisting(candidates) \in Path \union {None}
           /\ FirstExisting(candidates) # None =>
                  \E c \in DOMAIN candidates :
                      FirstExisting(candidates) = candidates[c] /\ project.at[candidates[c]] # NoFile
           /\ (\E c \in DOMAIN candidates : project.at[candidates[c]] # NoFile) =>
                  FirstExisting(candidates) # None
<1> DEFINE found == {i \in DOMAIN candidates : project.at[candidates[i]] # NoFile}
<1>1. CASE found = {}
  BY <1>1 DEF FirstExisting
<1>2. CASE found # {}
  <2> DEFINE first == CHOOSE i \in found : \A j \in found : i <= j
  <2>1. Len(candidates) \in Nat /\ DOMAIN candidates = 1 .. Len(candidates)
    BY LenProperties
  <2>2. found \in SUBSET (1 .. Len(candidates))
    BY <2>1
  <2>3. \E i \in found : \A j \in found : i <= j
    <3> HIDE DEF found
    <3> QED BY <1>2, <2>1, <2>2, Earliest
  <2>4. first \in found
    <3> HIDE DEF found
    <3> QED BY <2>3
  <2>5. FirstExisting(candidates) = candidates[first]
    BY <1>2 DEF FirstExisting
  <2>6. first \in 1 .. Len(candidates) /\ first \in DOMAIN candidates
        /\ project.at[candidates[first]] # NoFile
    BY <2>1, <2>4
  <2>7. candidates[first] \in Path
    <3> HIDE DEF first
    <3> QED BY <2>6, ElementOfSeq
  <2> HIDE DEF first
  <2> QED BY <2>5, <2>6, <2>7, IncludesAssumption
<1> QED BY <1>1, <1>2

\* The list of visited files has room for every path.
LEMMA MarkFits ==
    ASSUME visited \subseteq Path, NEW p \in Path
    PROVE  /\ Mark({}) = visited
           /\ p \notin visited => Mark({p}) = visited \union {p}
           /\ visited \subseteq Mark({p}) /\ Mark({p}) \subseteq visited \union {p}
<1>1. ASSUME p \notin visited
      PROVE  Cardinality(visited) < MaxVisited
  <2>1. visited # Path /\ IsFiniteSet(Path)
    BY <1>1, IncludesAssumption
  <2>2. Cardinality(visited) < Cardinality(Path) /\ Cardinality(visited) \in Nat /\ Cardinality(Path) \in Nat
    BY <2>1, FS_Subset, FS_CardinalityType
  <2> QED BY <2>2, IncludesAssumption
<1> QED BY <1>1 DEF Mark

\* Merging appends, and changes marks only.
LEMMA MergeFacts ==
    ASSUME NEW x \in Seq(Decl), NEW y \in Seq(Decl)
    PROVE  /\ Merged(x, y) \in Seq(Decl) /\ Len(Merged(x, y)) = Len(x) + Len(y)
           /\ \A i \in 1 .. Len(x) : Merged(x, y)[i] = x[i]
           /\ \A i \in 1 .. Len(y) : Merged(x, y)[Len(x) + i].path = y[i].path
<1> DEFINE m == [i \in DOMAIN y |-> [y[i] EXCEPT !.included = TRUE]]
<1>1. Len(x) \in Nat /\ Len(y) \in Nat /\ DOMAIN y = 1 .. Len(y)
  BY LenProperties
<1>2. ASSUME NEW i \in 1 .. Len(y)
      PROVE  [y[i] EXCEPT !.included = TRUE] \in Decl /\ [y[i] EXCEPT !.included = TRUE].path = y[i].path
  <2>1. y[i] \in Decl
    BY ElementOfSeq
  <2> QED BY <2>1 DEF Decl
<1>3. m \in Seq(Decl) /\ Len(m) = Len(y) /\ \A i \in 1 .. Len(y) : m[i].path = y[i].path
  <2>1. m \in [1 .. Len(y) -> Decl]
    BY <1>1, <1>2
  <2>2. \A i \in 1 .. Len(y) : m[i].path = y[i].path
    BY <1>1, <1>2
  <2> HIDE DEF m
  <2> QED BY <1>1, <2>1, <2>2
<1>4. Merged(x, y) = x \o m
  BY DEF Merged
<1> HIDE DEF m
<1>5. /\ x \o m \in Seq(Decl) /\ Len(x \o m) = Len(x) + Len(m)
      /\ \A i \in 1 .. Len(x) + Len(m) : (x \o m)[i] = IF i <= Len(x) THEN x[i] ELSE m[i - Len(x)]
  <2>1. m \in Seq(Decl)
    BY <1>3
  <2> QED BY <2>1, ConcatProperties
<1>6. ASSUME NEW i \in 1 .. Len(y)
      PROVE  (x \o m)[Len(x) + i].path = y[i].path
  <2>1. Len(x) + i \in 1 .. Len(x) + Len(m) /\ ~(Len(x) + i <= Len(x)) /\ Len(x) + i - Len(x) = i
    BY <1>1, <1>3
  <2> QED BY <1>3, <1>5, <2>1
<1>7. \A i \in 1 .. Len(x) : (x \o m)[i] = x[i]
  BY <1>1, <1>3, <1>5
<1> QED BY <1>3, <1>4, <1>5, <1>6, <1>7

-----------------------------------------------------------------------------
(* Steps.                                                                  *)

\* Init.
LEMMA Initially == IncludesInit => IInv
<1> SUFFICES ASSUME IncludesInit PROVE IInv
  OBVIOUS
<1>1. /\ project \in Project /\ visited = {} /\ stack = <<>> /\ calling = project.start /\ loaded = FALSE
      /\ program = <<>>
  BY IncludesAssumption DEF IncludesInit
<1>2. Len(stack) = 0 /\ Len(program) = 0
  BY <1>1
<1>3. calling \in Path
  BY <1>1 DEF Project
<1>4. stack \in Seq(Call) /\ program \in Seq(Decl)
  BY <1>1
<1>5. IncludesTypeOK
  BY <1>1, <1>3, <1>4 DEF IncludesTypeOK, Call
<1> QED BY <1>2, <1>5 DEF IInv, OwnFirst, Marked, HeldOnce, ProgramOnce

\* Marking more disturbs nothing.
LEMMA MoreMarked ==
    ASSUME IInv, UNCHANGED <<stack, program>>, visited \subseteq visited'
    PROVE  OwnFirst' /\ Marked' /\ HeldOnce' /\ ProgramOnce'
BY DEF IInv, OwnFirst, Marked, HeldOnce, ProgramOnce

\* A refused file changes nothing but the marks.
LEMMA RefuseKeeps == ASSUME IInv, Refuse PROVE IInv'
<1>1. UNCHANGED <<project, stack, program>> /\ visited' = Mark({calling}) /\ calling' = None
      /\ loaded' \in BOOLEAN
  BY DEF Refuse
<1>2. calling \in Path /\ visited \subseteq Path
  BY DEF IInv, IncludesTypeOK, Refuse
<1>3. visited \subseteq visited' /\ visited' \subseteq Path
  BY <1>1, <1>2, MarkFits
<1>4. OwnFirst' /\ Marked' /\ HeldOnce' /\ ProgramOnce'
  BY <1>1, <1>3, MoreMarked
<1> QED BY <1>1, <1>3, <1>4 DEF IInv, IncludesTypeOK

\* HeldOnce, for two declarations.
LEMMA Apart ==
    ASSUME IInv, NEW a \in 1 .. Len(stack), NEW b \in 1 .. Len(stack),
           NEW i \in 1 .. Len(stack[a].decls), NEW j \in 1 .. Len(stack[b].decls),
           stack[a].decls[i].path = stack[b].decls[j].path
    PROVE  a = b /\ i = j
<1>1. HeldOnce
  BY DEF IInv
<1> QED BY <1>1 DEF HeldOnce

\* A file that is parsed gets a call of its own.
LEMMA ParseShape ==
    ASSUME IInv, Parse
    PROVE  LET n == Len(stack) IN
           /\ n \in Nat /\ stack \in Seq(Call) /\ project \in Project /\ visited \subseteq Path
           /\ calling \in Path /\ calling \notin visited
           /\ project.at[calling] \notin project.broken \union {NoFile}
           /\ visited' = visited \union {calling} /\ calling' = None /\ UNCHANGED <<project, loaded, program>>
           /\ stack' \in Seq(Call) /\ Len(stack') = n + 1
           /\ \A a \in 1 .. n : stack'[a] = stack[a]
           /\ stack'[n + 1].path = calling
           /\ stack'[n + 1].todo = project.includes[project.at[calling]]
           /\ Len(stack'[n + 1].decls) = 1
           /\ stack'[n + 1].decls[1] = [path |-> calling, included |-> FALSE]
<1> DEFINE n == Len(stack)
           decls == <<[path |-> calling, included |-> FALSE]>>
           new == [path |-> calling, todo |-> project.includes[project.at[calling]], decls |-> decls]
<1>1. /\ UNCHANGED <<project, loaded, program>> /\ visited' = Mark({calling}) /\ calling' = None
      /\ stack' = Append(stack, new)
      /\ calling \notin visited
      /\ project.at[calling] \notin project.broken \union {NoFile}
  BY DEF Parse
<1>2. calling \in Path /\ visited \subseteq Path /\ project \in Project /\ stack \in Seq(Call)
  BY DEF IInv, IncludesTypeOK, Parse, Call
<1>3. visited' = visited \union {calling}
  BY <1>1, <1>2, MarkFits
<1>4. new \in Call
  <2>1. project.at[calling] \in File
    BY <1>1, <1>2 DEF Project
  <2>2. project.includes[project.at[calling]] \in Seq(Include)
    BY <1>2, <2>1 DEF Project
  <2>3. decls \in Seq(Decl)
    BY <1>2 DEF Decl
  <2> QED BY <1>2, <2>2, <2>3 DEF Call
<1>5. n \in Nat /\ Len(decls) = 1 /\ decls[1] = [path |-> calling, included |-> FALSE]
  BY <1>2
<1>6. new.path = calling /\ new.decls = decls /\ new.todo = project.includes[project.at[calling]]
  OBVIOUS
<1> HIDE DEF new, decls
<1>7. /\ stack' \in Seq(Call) /\ Len(stack') = n + 1
      /\ \A a \in 1 .. n : stack'[a] = stack[a]
      /\ stack'[n + 1] = new
  BY <1>1, <1>2, <1>4, AppendProperties
<1> QED BY <1>1, <1>2, <1>3, <1>5, <1>6, <1>7

\* It was not marked: no call holds it.
LEMMA ParseKeeps == ASSUME IInv, Parse PROVE IInv'
<1> DEFINE n == Len(stack)
           decls == stack'[n + 1].decls
<1>1. /\ n \in Nat /\ stack \in Seq(Call) /\ project \in Project /\ visited \subseteq Path
      /\ calling \in Path /\ calling \notin visited
      /\ visited' = visited \union {calling} /\ calling' = None /\ UNCHANGED <<project, loaded, program>>
      /\ stack' \in Seq(Call) /\ Len(stack') = n + 1
      /\ \A a \in 1 .. n : stack'[a] = stack[a]
      /\ stack'[n + 1].path = calling
      /\ Len(decls) = 1 /\ decls[1] = [path |-> calling, included |-> FALSE]
  BY ParseShape
<1>2. decls # <<>> /\ decls[1].path = calling
  BY <1>1
<1> HIDE DEF n, decls
<1>3. \A a \in 1 .. n + 1 : a \in 1 .. n \/ a = n + 1
  BY <1>1
<1>4. stack'[n + 1].decls = decls
  BY DEF decls
<1>5. OwnFirst'
  <2>1. ASSUME NEW a \in 1 .. n + 1
        PROVE  stack'[a].decls # <<>> /\ stack'[a].decls[1].path = stack'[a].path
    <3>1. CASE a \in 1 .. n
      BY <1>1, <3>1 DEF IInv, OwnFirst, n
    <3>2. CASE a = n + 1
      BY <1>1, <1>2, <1>4, <3>2
    <3> QED BY <1>3, <3>1, <3>2
  <2> QED BY <1>1, <2>1 DEF OwnFirst
<1>6. Marked'
  <2>1. ASSUME NEW a \in 1 .. n + 1, NEW i \in 1 .. Len(stack'[a].decls)
        PROVE  stack'[a].decls[i].path \in visited'
    <3>1. CASE a \in 1 .. n
      BY <1>1, <3>1 DEF IInv, Marked, n
    <3>2. CASE a = n + 1
      <4>0. stack'[a].decls = decls
        BY <1>4, <3>2
      <4>1. i = 1
        <5>1. i \in 1 .. Len(decls)
          BY <4>0
        <5> QED BY <1>1, <5>1
      <4> QED BY <1>1, <1>2, <1>4, <3>2, <4>1
    <3> QED BY <1>3, <3>1, <3>2
  <2> QED BY <1>1, <2>1 DEF Marked
<1>7. HeldOnce'
  <2>1. ASSUME NEW a \in 1 .. n, NEW i \in 1 .. Len(stack[a].decls)
        PROVE  stack[a].decls[i].path # calling
    BY <1>1, <2>1 DEF IInv, Marked, n
  <2>2. ASSUME NEW a \in 1 .. n + 1, NEW b \in 1 .. n + 1,
               NEW i \in 1 .. Len(stack'[a].decls), NEW j \in 1 .. Len(stack'[b].decls),
               stack'[a].decls[i].path = stack'[b].decls[j].path
        PROVE  a = b /\ i = j
    <3>1. CASE a \in 1 .. n /\ b \in 1 .. n
      <4>1. stack'[a] = stack[a] /\ stack'[b] = stack[b]
        BY <1>1, <3>1
      <4>2. /\ i \in 1 .. Len(stack[a].decls) /\ j \in 1 .. Len(stack[b].decls)
            /\ stack[a].decls[i].path = stack[b].decls[j].path
        BY <2>2, <4>1
      <4> QED BY <3>1, <4>2, Apart DEF n
    <3>2. CASE a = n + 1 /\ b = n + 1
      <4>0. stack'[a].decls = decls /\ stack'[b].decls = decls
        BY <1>4, <3>2
      <4>1. i = 1 /\ j = 1
        <5>1. i \in 1 .. Len(decls) /\ j \in 1 .. Len(decls)
          BY <4>0
        <5> QED BY <1>1, <5>1
      <4> QED BY <3>2, <4>1
    <3>3. CASE a \in 1 .. n /\ b = n + 1
      <4>1. stack'[b].decls[j].path = calling
        BY <1>1, <1>2, <1>4, <3>3
      <4> QED BY <1>1, <2>1, <2>2, <3>3, <4>1
    <3>4. CASE a = n + 1 /\ b \in 1 .. n
      <4>1. stack'[a].decls[i].path = calling
        BY <1>1, <1>2, <1>4, <3>4
      <4> QED BY <1>1, <2>1, <2>2, <3>4, <4>1
    <3> QED BY <1>3, <3>1, <3>2, <3>3, <3>4
  <2> QED BY <1>1, <2>2 DEF HeldOnce
<1>8. ProgramOnce'
  BY <1>1 DEF IInv, ProgramOnce
<1>9. IncludesTypeOK'
  BY <1>1 DEF IInv, IncludesTypeOK, Call
<1> QED BY <1>5, <1>6, <1>7, <1>8, <1>9 DEF IInv

\* A call has grown: it holds what it held, and more at the end.
Longer(a) ==
    /\ stack'[a].path = stack[a].path
    /\ stack[a].decls \in Seq(Decl) /\ stack'[a].decls \in Seq(Decl)
    /\ Len(stack'[a].decls) \in Nat /\ Len(stack[a].decls) \in Nat
    /\ Len(stack'[a].decls) >= Len(stack[a].decls)
    /\ \A i \in 1 .. Len(stack[a].decls) : stack'[a].decls[i] = stack[a].decls[i]

\* What the top call gains by an include is a stub that was not marked before,
\* or nothing.
LEMMA AdvanceShape ==
    ASSUME IInv, Walking, NEW new \in SUBSET Path, NEW p \in Path, new = {} \/ (new = {p} /\ p \notin visited),
           Advance(IF new # {} THEN Stub(p) ELSE <<>>),
           visited' = Mark(new)
    PROVE  /\ Len(stack) \in Nat /\ Len(stack) >= 1 /\ stack \in Seq(Call) /\ visited \subseteq Path
           /\ visited' = visited \union new
           /\ stack' \in Seq(Call) /\ Len(stack') = Len(stack)
           /\ stack[Len(stack)].todo \in Seq(Include) /\ stack[Len(stack)].todo # <<>>
           /\ \A a \in 1 .. Len(stack) :
                  stack'[a].todo = IF a = Len(stack) THEN Tail(stack[a].todo) ELSE stack[a].todo
           /\ \A a \in 1 .. Len(stack) : Longer(a)
           /\ \A a \in 1 .. Len(stack) : \A i \in 1 .. Len(stack'[a].decls) :
                  \/ i \in 1 .. Len(stack[a].decls) /\ stack'[a].decls[i].path = stack[a].decls[i].path
                  \/ /\ a = Len(stack) /\ i = Len(stack[a].decls) + 1
                     /\ stack'[a].decls[i].path = p /\ new = {p} /\ p \notin visited
           /\ \A q \in new : \E i \in 1 .. Len(stack'[Len(stack)].decls) : stack'[Len(stack)].decls[i].path = q
<1> DEFINE n == Len(stack)
           dep == IF new # {} THEN Stub(p) ELSE <<>>
           held == Merged(Top.decls, dep)
           call == [Top EXCEPT !.todo = Tail(Top.todo), !.decls = Merged(Top.decls, dep)]
<1>1. stack \in Seq(Call) /\ visited \subseteq Path /\ stack # <<>> /\ Top.todo # <<>>
  BY DEF IInv, IncludesTypeOK, Call, Walking
<1>2. n \in Nat /\ n >= 1 /\ n \in 1 .. n /\ Top = stack[n] /\ Top \in Call
  <2>1. n \in Nat /\ n >= 1
    BY <1>1, EmptySeq
  <2> QED BY <1>1, <2>1, ElementOfSeq DEF Top
<1>3. visited' = visited \union new
  <2>1. CASE new = {}
    BY <1>1, <2>1, MarkFits
  <2>2. CASE new = {p} /\ p \notin visited
    BY <1>1, <2>2, MarkFits
  <2> QED BY <2>1, <2>2
<1>4. dep \in Seq(Decl) /\ \A i \in 1 .. Len(dep) : i = 1 /\ dep[i].path = p /\ new = {p} /\ p \notin visited
  <2>1. CASE new = {}
    BY <2>1
  <2>2. CASE new = {p} /\ p \notin visited
    <3>1. dep = <<[path |-> p, included |-> FALSE]>>
      BY <2>2 DEF Stub
    <3>2. [path |-> p, included |-> FALSE] \in Decl
      BY DEF Decl
    <3> DEFINE d == [path |-> p, included |-> FALSE]
    <3>3. d.path = p /\ d \in Decl
      BY <3>2
    <3> HIDE DEF d
    <3>4. <<d>> \in Seq(Decl) /\ Len(<<d>>) = 1 /\ <<d>>[1] = d
      BY <3>3
    <3>5. dep \in Seq(Decl) /\ Len(dep) = 1 /\ dep[1] = d
      BY <3>1, <3>4 DEF d
    <3>6. \A i \in 1 .. Len(dep) : i = 1
      <4> HIDE DEF dep
      <4> QED BY <3>5
    <3> QED BY <2>2, <3>3, <3>5, <3>6
  <2> QED BY <2>1, <2>2
<1>5. Top.decls \in Seq(Decl) /\ Top.todo \in Seq(Include) /\ Top.path \in Path /\ Len(Top.decls) \in Nat
      /\ Len(dep) \in Nat
  BY <1>2, <1>4 DEF Call
<1> HIDE DEF dep
<1>6. /\ held \in Seq(Decl) /\ Len(held) = Len(Top.decls) + Len(dep)
      /\ \A i \in 1 .. Len(Top.decls) : held[i] = Top.decls[i]
      /\ \A i \in 1 .. Len(dep) : held[Len(Top.decls) + i].path = dep[i].path
  BY <1>4, <1>5, MergeFacts
<1>7. call \in Call /\ call.path = Top.path /\ call.decls = held
  <2> DEFINE t == Tail(Top.todo)
  <2>1. t \in Seq(Include)
    BY <1>1, <1>5, HeadTailProperties
  <2>2. call = [Top EXCEPT !.todo = t, !.decls = held]
    OBVIOUS
  <2>3. held \in Seq(Decl)
    BY <1>6
  <2> HIDE DEF t, held, call
  <2> QED BY <1>2, <2>1, <2>2, <2>3 DEF Call
<1>8. stack' = Append(Under, call)
  BY DEF Advance, dep
<1> HIDE DEF held, call
<1>9. /\ stack' \in Seq(Call) /\ Len(stack') = n
      /\ \A a \in 1 .. n - 1 : stack'[a] = stack[a]
      /\ stack'[n] = call
  <2>1. Under \in Seq(Call) /\ Len(Under) = n - 1 /\ \A a \in 1 .. n - 1 : Under[a] = stack[a]
    <3>1. 1 \in Int /\ n - 1 \in Int /\ \A a \in 1 .. n - 1 : stack[a] \in Call
      <4>1. ASSUME NEW a \in 1 .. n - 1 PROVE stack[a] \in Call
        <5>1. a \in 1 .. n
          BY <1>2
        <5> QED BY <1>1, <5>1, ElementOfSeq
      <4> QED BY <1>2, <4>1
    <3>2. /\ Under \in Seq(Call) /\ Len(Under) = IF 1 <= n - 1 THEN n - 1 - 1 + 1 ELSE 0
          /\ \A a \in 1 .. n - 1 - 1 + 1 : Under[a] = stack[1 + a - 1]
      BY <3>1, SubSeqProperties DEF Under
    <3>3. Len(Under) = n - 1
      <4>1. n - 1 - 1 + 1 = n - 1 /\ (~(1 <= n - 1) => n - 1 = 0)
        <5>1. \A k \in Nat : k >= 1 => k - 1 - 1 + 1 = k - 1 /\ (~(1 <= k - 1) => k - 1 = 0)
          OBVIOUS
        <5> HIDE DEF n
        <5> QED BY <1>2, <5>1
      <4> HIDE DEF n
      <4> QED BY <3>2, <4>1
    <3>4. ASSUME NEW a \in 1 .. n - 1 PROVE Under[a] = stack[a]
      <4>1. a \in 1 .. n - 1 - 1 + 1 /\ 1 + a - 1 = a
        BY <1>2
      <4> QED BY <3>2, <4>1
    <3> QED BY <3>2, <3>3, <3>4
  <2>2. /\ stack' \in Seq(Call) /\ Len(stack') = Len(Under) + 1
        /\ \A a \in 1 .. Len(Under) : stack'[a] = Under[a]
        /\ stack'[Len(Under) + 1] = call
    BY <1>7, <1>8, <2>1, AppendProperties
  <2> QED BY <1>2, <2>1, <2>2
<1> HIDE DEF n
<1>11. \A a \in 1 .. n : (a \in 1 .. n - 1 /\ a # n) \/ a = n
  BY <1>2
\* Where a declaration of the new stack was before: in the same place, or it is
\* the stub.
<1>12. ASSUME NEW a \in 1 .. n, NEW i \in 1 .. Len(stack'[a].decls)
       PROVE  \/ i \in 1 .. Len(stack[a].decls) /\ stack'[a].decls[i].path = stack[a].decls[i].path
              \/ a = n /\ i = Len(stack[n].decls) + 1 /\ stack'[a].decls[i].path = p /\ new = {p} /\ p \notin visited
  <2>1. CASE a # n
    BY <1>9, <1>11, <2>1
  <2>2. CASE a = n
    <3>1. stack'[a].decls = held /\ i \in 1 .. Len(held) /\ stack[a] = Top /\ stack[n] = Top
      BY <1>2, <1>9, <1>7, <2>2
    <3>2. CASE i \in 1 .. Len(Top.decls)
      BY <1>6, <3>1, <3>2
    <3>3. CASE i - Len(Top.decls) \in 1 .. Len(dep)
      <4>0. i \in Int
        BY <3>1
      <4>1. PICK h \in 1 .. Len(dep) : i = Len(Top.decls) + h
        <5>1. i = Len(Top.decls) + (i - Len(Top.decls))
          BY <1>5, <4>0
        <5> QED BY <3>3, <5>1
      <4>2. h = 1 /\ dep[h].path = p /\ new = {p} /\ p \notin visited
        BY <1>4
      <4> QED BY <1>6, <2>2, <3>1, <4>1, <4>2
    <3>4. i \in 1 .. Len(Top.decls) \/ i - Len(Top.decls) \in 1 .. Len(dep)
      BY <1>5, <1>6, <3>1
    <3> QED BY <3>2, <3>3, <3>4
  <2> QED BY <2>1, <2>2
<1>13. \A a \in 1 .. n : stack'[a].todo = IF a = n THEN Tail(stack[a].todo) ELSE stack[a].todo
  <2>1. call.todo = Tail(Top.todo)
    BY <1>2 DEF call, Call
  <2> QED BY <1>2, <1>9, <1>11, <2>1
<1>14. ASSUME NEW a \in 1 .. n PROVE Longer(a)
  <2>1. stack[a] \in Call /\ stack'[a] \in Call
    BY <1>1, <1>2, <1>9, ElementOfSeq DEF n
  <2>2. /\ stack[a].decls \in Seq(Decl) /\ stack'[a].decls \in Seq(Decl)
        /\ Len(stack'[a].decls) \in Nat /\ Len(stack[a].decls) \in Nat
    BY <2>1 DEF Call
  <2>3. CASE a # n
    BY <1>9, <1>11, <2>2, <2>3 DEF Longer
  <2>4. CASE a = n
    <3>1. stack'[a].decls = held /\ stack'[a].path = Top.path /\ stack[a] = Top
      BY <1>2, <1>7, <1>9, <2>4
    <3>2. Len(held) >= Len(Top.decls) /\ \A i \in 1 .. Len(Top.decls) : held[i] = Top.decls[i]
      BY <1>5, <1>6
    <3> QED BY <2>2, <3>1, <3>2 DEF Longer
  <2> QED BY <2>3, <2>4
<1>15. ASSUME NEW q \in new PROVE \E i \in 1 .. Len(stack'[n].decls) : stack'[n].decls[i].path = q
  <2>1. q = p /\ new = {p}
    OBVIOUS
  <2>2. Len(dep) = 1 /\ dep[1].path = p
    BY <2>1 DEF dep, Stub
  <2>3. stack'[n].decls = held /\ Len(Top.decls) + 1 \in 1 .. Len(held) /\ held[Len(Top.decls) + 1].path = p
    BY <1>5, <1>6, <1>7, <1>9, <2>2
  <2> QED BY <2>1, <2>3
<1> QED BY <1>1, <1>2, <1>3, <1>5, <1>9, <1>12, <1>13, <1>14, <1>15 DEF n

\* Such a line keeps the invariant: what it brings was held by no call.
LEMMA AdvanceKeeps ==
    ASSUME IInv, Walking, NEW new \in SUBSET Path, NEW p \in Path, new = {} \/ (new = {p} /\ p \notin visited),
           Advance(IF new # {} THEN Stub(p) ELSE <<>>),
           visited' = Mark(new),
           UNCHANGED <<project, loaded, program>>,
           calling' \in Path \union {None}
    PROVE  IInv'
<1> DEFINE n == Len(stack)
<1>1. /\ n \in Nat /\ n >= 1 /\ stack \in Seq(Call) /\ visited \subseteq Path
      /\ visited' = visited \union new
      /\ stack' \in Seq(Call) /\ Len(stack') = n
      /\ \A a \in 1 .. n : Longer(a)
      /\ \A a \in 1 .. n : \A i \in 1 .. Len(stack'[a].decls) :
             \/ i \in 1 .. Len(stack[a].decls) /\ stack'[a].decls[i].path = stack[a].decls[i].path
             \/ a = n /\ i = Len(stack[a].decls) + 1 /\ stack'[a].decls[i].path = p /\ new = {p} /\ p \notin visited
  BY AdvanceShape
<1> HIDE DEF n
<1>2. OwnFirst'
  <2>1. ASSUME NEW a \in 1 .. n
        PROVE  stack'[a].decls # <<>> /\ stack'[a].decls[1].path = stack'[a].path
    <3>1. stack[a].decls # <<>> /\ stack[a].decls[1].path = stack[a].path
      BY DEF IInv, OwnFirst, n
    <3>2. Longer(a)
      BY <1>1
    <3>3. 1 \in 1 .. Len(stack[a].decls)
      BY <3>1, <3>2, EmptySeq DEF Longer
    <3>4. stack'[a].decls[1] = stack[a].decls[1] /\ Len(stack'[a].decls) >= 1 /\ stack'[a].path = stack[a].path
      BY <3>2, <3>3 DEF Longer
    <3>5. stack'[a].decls # <<>>
      BY <3>4
    <3> QED BY <3>1, <3>4, <3>5
  <2> QED BY <1>1, <2>1 DEF OwnFirst
<1>3. Marked'
  <2>1. ASSUME NEW a \in 1 .. n, NEW i \in 1 .. Len(stack'[a].decls)
        PROVE  stack'[a].decls[i].path \in visited'
    BY <1>1 DEF IInv, Marked, n
  <2> QED BY <1>1, <2>1 DEF Marked
<1>4. HeldOnce'
  <2>1. ASSUME NEW a \in 1 .. n, NEW i \in 1 .. Len(stack[a].decls), p \notin visited
        PROVE  stack[a].decls[i].path # p
    BY <2>1 DEF IInv, Marked, n
  <2>2. ASSUME NEW a \in 1 .. n, NEW b \in 1 .. n,
               NEW i \in 1 .. Len(stack'[a].decls), NEW j \in 1 .. Len(stack'[b].decls),
               stack'[a].decls[i].path = stack'[b].decls[j].path
        PROVE  a = b /\ i = j
    <3> DEFINE Old(x, k) == k \in 1 .. Len(stack[x].decls) /\ stack'[x].decls[k].path = stack[x].decls[k].path
               New(x, k) == x = n /\ k = Len(stack[x].decls) + 1 /\ stack'[x].decls[k].path = p /\ p \notin visited
    <3>1. Old(a, i) \/ New(a, i)
      BY <1>1
    <3>2. Old(b, j) \/ New(b, j)
      BY <1>1
    <3>3. CASE Old(a, i) /\ Old(b, j)
      <4>1. stack[a].decls[i].path = stack[b].decls[j].path
        BY <2>2, <3>3
      <4>2. a \in 1 .. Len(stack) /\ b \in 1 .. Len(stack)
        BY DEF n
      <4>3. i \in 1 .. Len(stack[a].decls) /\ j \in 1 .. Len(stack[b].decls)
        BY <3>3
      <4> QED BY <4>1, <4>2, <4>3, Apart
    <3>4. CASE New(a, i) /\ New(b, j)
      BY <3>4
    <3>5. CASE Old(a, i) /\ New(b, j)
      BY <2>1, <2>2, <3>5
    <3>6. CASE New(a, i) /\ Old(b, j)
      BY <2>1, <2>2, <3>6
    <3> QED BY <3>1, <3>2, <3>3, <3>4, <3>5, <3>6
  <2> QED BY <1>1, <2>2 DEF HeldOnce
<1>5. ProgramOnce'
  BY DEF IInv, ProgramOnce
<1>6. IncludesTypeOK'
  BY <1>1 DEF IInv, IncludesTypeOK, Call
<1> QED BY <1>2, <1>3, <1>4, <1>5, <1>6 DEF IInv

\* The include line that is next.
LEMMA NextLine ==
    ASSUME IInv, Walking
    PROVE  /\ Head(Top.todo).hyi \in Seq(Path) /\ Head(Top.todo).hy \in Seq(Path)
           /\ Head(Top.todo).kind = "file" => Head(Top.todo).hy # <<>>
           /\ project.start \in Path
           /\ visited \subseteq Path
<1>1. stack \in Seq(Call) /\ stack # <<>> /\ Top.todo # <<>> /\ project \in Project /\ visited \subseteq Path
  BY DEF IInv, IncludesTypeOK, Call, Walking
<1>2. Top \in Call
  <2>1. Len(stack) \in 1 .. Len(stack)
    BY <1>1, EmptySeq
  <2> QED BY <1>1, <2>1, ElementOfSeq DEF Top
<1>3. Top.todo \in Seq(Include)
  BY <1>2 DEF Call
<1>4. Head(Top.todo) \in Include
  BY <1>1, <1>3, HeadTailProperties
<1> QED BY <1>1, <1>4 DEF Include, Project

\* A line that brings no stub.
LEMMA NothingGained ==
    ASSUME IInv, Walking, Advance(<<>>), visited' = Mark({}), UNCHANGED <<project, loaded, program>>,
           calling' \in Path \union {None}
    PROVE  IInv'
<1>1. PICK new \in SUBSET Path : new = {}
  OBVIOUS
<1>2. PICK p \in Path : p = project.start
  BY NextLine
<1>3. Advance(IF new # {} THEN Stub(p) ELSE <<>>) /\ visited' = Mark(new)
  BY <1>1
<1>4. new = {} \/ (new = {p} /\ p \notin visited)
  BY <1>1
<1> QED BY <1>3, <1>4, AdvanceKeeps

\* A line that brings a stub, if that is new.
LEMMA StubGained ==
    ASSUME IInv, Walking, NEW hyi \in Path \union {None}, NEW new,
           new = IF Unseen(hyi) THEN {hyi} ELSE {},
           Advance(IF new # {} THEN Stub(hyi) ELSE <<>>),
           visited' = Mark(new), UNCHANGED <<project, loaded, program>>,
           calling' \in Path \union {None}
    PROVE  IInv'
<1>1. CASE Unseen(hyi)
  <2>1. hyi \in Path /\ hyi \notin visited /\ new = {hyi} /\ new \in SUBSET Path
    BY <1>1 DEF Unseen
  <2> QED BY <2>1, AdvanceKeeps
<1>2. CASE ~Unseen(hyi)
  <2>1. new = {}
    BY <1>2
  <2>2. Advance(<<>>) /\ visited' = Mark({})
    BY <2>1
  <2> QED BY <2>2, NothingGained
<1> QED BY <1>1, <1>2

\* The four kinds of include lines.
LEMMA LinesKeep ==
    ASSUME IInv, Skip \/ IncludeStd \/ IncludeVendor \/ IncludeFile
    PROVE  IInv'
<1> DEFINE line == Head(Top.todo)
<1>1. Walking
  BY DEF Skip, IncludeStd, IncludeVendor, IncludeFile
<1>2. /\ line.hyi \in Seq(Path) /\ line.hy \in Seq(Path) /\ (line.kind = "file" => line.hy # <<>>)
      /\ project.start \in Path /\ visited \subseteq Path /\ calling = None
  BY <1>1, NextLine DEF Walking
<1>3. Mark({}) = visited
  BY <1>2, MarkFits
<1>4. FirstExisting(line.hyi) \in Path \union {None} /\ FirstExisting(line.hy) \in Path \union {None}
  BY <1>2, PlaceFound
<1>5. CASE Skip
  BY <1>1, <1>2, <1>3, <1>5, NothingGained DEF Skip
<1>6. CASE IncludeFile
  <2>1. line.kind = "file" /\ Advance(<<>>) /\ UNCHANGED <<project, visited, loaded, program>>
        /\ calling' = IF FirstExisting(line.hy) # None THEN FirstExisting(line.hy) ELSE Head(line.hy)
    BY <1>6 DEF IncludeFile
  <2>2. Head(line.hy) \in Path
    BY <1>2, <2>1, HeadTailProperties
  <2>3. calling' \in Path \union {None}
    BY <1>4, <2>1, <2>2
  <2> QED BY <1>1, <1>3, <2>1, <2>3, NothingGained
<1>7. CASE IncludeStd
  <2> DEFINE hyi == FirstExisting(line.hyi)
             hy == FirstExisting(line.hy)
             new == IF Unseen(hyi) THEN {hyi} ELSE {}
  <2>1. Advance(IF new # {} THEN Stub(hyi) ELSE <<>>) /\ visited' = Mark(new)
        /\ calling' = (IF Unseen(hy) THEN hy ELSE None) /\ UNCHANGED <<project, loaded, program>>
    BY <1>7 DEF IncludeStd
  <2>2. calling' \in Path \union {None}
    BY <1>4, <2>1
  <2>3. hyi \in Path \union {None} /\ new = IF Unseen(hyi) THEN {hyi} ELSE {}
    BY <1>4
  <2> HIDE DEF hyi, hy, new
  <2> QED BY <1>1, <2>1, <2>2, <2>3, StubGained
<1>8. CASE IncludeVendor
  <2> DEFINE hyi == FirstExisting(line.hyi)
             new == IF Unseen(hyi) THEN {hyi} ELSE {}
  <2>1. Advance(IF new # {} THEN Stub(hyi) ELSE <<>>) /\ visited' = Mark(new)
        /\ UNCHANGED <<project, calling, loaded, program>>
    BY <1>8 DEF IncludeVendor
  <2>2. calling' \in Path \union {None}
    BY <1>2, <2>1
  <2>3. hyi \in Path \union {None} /\ new = IF Unseen(hyi) THEN {hyi} ELSE {}
    BY <1>4
  <2> HIDE DEF hyi, new
  <2> QED BY <1>1, <2>1, <2>2, <2>3, StubGained
<1> QED BY <1>5, <1>6, <1>7, <1>8

\* The outermost call returns: what it holds is the program.
LEMMA LastReturns ==
    ASSUME IInv, Return, Len(stack) = 1
    PROVE  IInv'
<1>1. UNCHANGED <<project, visited, calling>> /\ loaded' = TRUE /\ program' = Top.decls /\ stack' = <<>>
  BY DEF Return
<1>2. stack \in Seq(Call) /\ Top = stack[1] /\ Top \in Call
  <2>1. stack \in Seq(Call) /\ Top = stack[1]
    BY DEF IInv, IncludesTypeOK, Call, Top
  <2>2. 1 \in 1 .. Len(stack)
    OBVIOUS
  <2> QED BY <2>1, <2>2, ElementOfSeq
<1>3. ProgramOnce'
  <2>1. ASSUME NEW i \in 1 .. Len(stack[1].decls), NEW j \in 1 .. Len(stack[1].decls),
               stack[1].decls[i].path = stack[1].decls[j].path
        PROVE  i = j
    <3>1. 1 \in 1 .. Len(stack) /\ HeldOnce
      BY DEF IInv
    <3> QED BY <2>1, <3>1, Apart
  <2> QED BY <1>1, <1>2, <2>1 DEF ProgramOnce
<1>4. IncludesTypeOK'
  <2>1. program' \in Seq(Decl)
    BY <1>1, <1>2 DEF Call
  <2>2. stack' \in Seq(Call)
    BY <1>1
  <2> QED BY <1>1, <2>1, <2>2 DEF IInv, IncludesTypeOK, Call
<1>5. Len(stack') = 0
  BY <1>1
<1> QED BY <1>3, <1>4, <1>5 DEF IInv, OwnFirst, Marked, HeldOnce

\* An inner call returns: what it holds goes to its includer.
LEMMA InnerShape ==
    ASSUME IInv, Return, Len(stack) # 1
    PROVE  LET n == Len(stack)
               m == n - 1
           IN
           /\ n \in Nat /\ n > 1 /\ m \in Nat /\ stack[n].todo = <<>>
           /\ UNCHANGED <<project, visited, calling, loaded, program>>
           /\ stack' \in Seq(Call) /\ Len(stack') = m
           /\ \A a \in 1 .. m : stack'[a].todo = stack[a].todo /\ Longer(a)
           /\ \A a \in 1 .. m : \A i \in 1 .. Len(stack'[a].decls) :
                  \/ i \in 1 .. Len(stack[a].decls) /\ stack'[a].decls[i].path = stack[a].decls[i].path
                  \/ \E h \in 1 .. Len(stack[n].decls) :
                         /\ a = m /\ i = Len(stack[a].decls) + h
                         /\ stack'[a].decls[i].path = stack[n].decls[h].path
           /\ \A h \in 1 .. Len(stack[n].decls) :
                  \E i \in 1 .. Len(stack'[m].decls) : stack'[m].decls[i].path = stack[n].decls[h].path
<1>1. stack \in Seq(Call) /\ stack # <<>> /\ UNCHANGED <<project, visited, calling>>
  BY DEF IInv, IncludesTypeOK, Call, Return
<1>0. Len(stack) \in Nat /\ Len(stack) > 1
  <2>1. Len(stack) \in Nat /\ Len(stack) # 0
    BY <1>1, EmptySeq
  <2>2. \A k \in Nat : k # 0 /\ k # 1 => k > 1
    OBVIOUS
  <2> QED BY <2>1, <2>2
<1> DEFINE n == Len(stack)
           m == n - 1
           lower == stack[m].decls
           upper == stack[n].decls
           held == Merged(lower, upper)
           call == [stack[m] EXCEPT !.decls = held]
<1>2. n \in Nat /\ n > 1
  BY <1>0
<1>3. m \in 1 .. n /\ n \in 1 .. n /\ m \in Nat /\ m >= 1 /\ m + 1 = n
  BY <1>2
<1>4. stack[m] \in Call /\ stack[n] \in Call
  BY <1>1, <1>3, ElementOfSeq
<1>5. lower \in Seq(Decl) /\ upper \in Seq(Decl) /\ Len(lower) \in Nat /\ Len(upper) \in Nat
  BY <1>4 DEF Call
<1>6. Under \in Seq(Call) /\ Len(Under) = m /\ \A a \in 1 .. m : Under[a] = stack[a]
  <2>1. 1 \in Int /\ n - 1 \in Int /\ \A a \in 1 .. n - 1 : stack[a] \in Call
    <3>1. ASSUME NEW a \in 1 .. n - 1 PROVE stack[a] \in Call
      <4>1. a \in 1 .. n
        BY <1>2
      <4> QED BY <1>1, <4>1, ElementOfSeq
    <3> QED BY <1>2, <3>1
  <2>2. /\ Under \in Seq(Call) /\ Len(Under) = IF 1 <= n - 1 THEN n - 1 - 1 + 1 ELSE 0
        /\ \A a \in 1 .. n - 1 - 1 + 1 : Under[a] = stack[1 + a - 1]
    BY <2>1, SubSeqProperties DEF Under
  <2>3. Len(Under) = m
    <3>1. n - 1 - 1 + 1 = n - 1 /\ 1 <= n - 1
      BY <1>2
    <3> HIDE DEF n
    <3> QED BY <2>2, <3>1
  <2>4. ASSUME NEW a \in 1 .. m PROVE Under[a] = stack[a]
    <3>1. a \in 1 .. n - 1 - 1 + 1 /\ 1 + a - 1 = a
      BY <1>2
    <3> QED BY <2>2, <3>1
  <2> QED BY <2>2, <2>3, <2>4
<1>7. stack' = [Under EXCEPT ![m] = call] /\ UNCHANGED <<loaded, program>>
  <2>1. Under[m] = stack[m] /\ Top = stack[n]
    BY <1>3, <1>6 DEF Top
  <2>2. /\ stack' = [Under EXCEPT ![Len(Under)] = [Under[Len(Under)] EXCEPT
                                                     !.decls = Merged(Under[Len(Under)].decls, Top.decls)]]
        /\ UNCHANGED <<loaded, program>>
    BY DEF Return
  <2> QED BY <1>6, <2>1, <2>2
<1> HIDE DEF n, m
<1>8. /\ held \in Seq(Decl) /\ Len(held) = Len(lower) + Len(upper)
      /\ \A i \in 1 .. Len(lower) : held[i] = lower[i]
      /\ \A i \in 1 .. Len(upper) : held[Len(lower) + i].path = upper[i].path
  BY <1>5, MergeFacts
<1>9. call \in Call /\ call.path = stack[m].path /\ call.decls = held
  <2> HIDE DEF held
  <2> QED BY <1>4, <1>8 DEF Call
<1> HIDE DEF held, call, lower, upper
<1>10. /\ stack' \in Seq(Call) /\ Len(stack') = m
       /\ \A a \in 1 .. m : stack'[a] = IF a = m THEN call ELSE stack[a]
  <2>1. m \in 1 .. Len(Under)
    BY <1>3, <1>6
  <2> QED BY <1>6, <1>7, <1>9, <2>1, ExceptSeq
\* Where a declaration of the new stack was before.
<1> DEFINE Stayed(a, i) == i \in 1 .. Len(stack[a].decls) /\ stack'[a].decls[i].path = stack[a].decls[i].path
           Came(a, i, h) == a = m /\ i = Len(lower) + h /\ h \in 1 .. Len(upper)
                            /\ stack'[a].decls[i].path = upper[h].path
<1>11. ASSUME NEW a \in 1 .. m, NEW i \in 1 .. Len(stack'[a].decls)
       PROVE  Stayed(a, i) \/ \E h \in 1 .. Len(upper) : Came(a, i, h)
  <2>1. CASE a # m
    BY <1>10, <2>1
  <2>2. CASE a = m
    <3>1. stack'[a].decls = held /\ i \in 1 .. Len(held) /\ stack[a].decls = lower
      BY <1>9, <1>10, <2>2 DEF lower
    <3>2. CASE i \in 1 .. Len(lower)
      BY <1>8, <3>1, <3>2
    <3>3. CASE i - Len(lower) \in 1 .. Len(upper)
      <4>1. i \in Int /\ i = Len(lower) + (i - Len(lower))
        BY <1>5, <3>1
      <4>2. PICK h \in 1 .. Len(upper) : i = Len(lower) + h
        BY <3>3, <4>1
      <4>3. Came(a, i, h)
        BY <1>8, <2>2, <3>1, <4>2
      <4> QED BY <4>3
    <3>4. i \in 1 .. Len(lower) \/ i - Len(lower) \in 1 .. Len(upper)
      BY <1>5, <1>8, <3>1
    <3> QED BY <3>2, <3>3, <3>4
  <2> QED BY <2>1, <2>2
<1>12. \A a \in 1 .. m : a \in 1 .. n /\ a # n
  BY <1>2, <1>3
<1>13. ASSUME NEW a \in 1 .. m PROVE stack'[a].todo = stack[a].todo
  <2>1. call.todo = stack[m].todo
    BY <1>4 DEF call, Call
  <2> QED BY <1>10, <2>1
<1>14. ASSUME NEW a \in 1 .. m PROVE Longer(a)
  <2>1. stack[a] \in Call /\ stack'[a] \in Call
    BY <1>1, <1>10, <1>12, ElementOfSeq DEF n
  <2>2. /\ stack[a].decls \in Seq(Decl) /\ stack'[a].decls \in Seq(Decl)
        /\ Len(stack'[a].decls) \in Nat /\ Len(stack[a].decls) \in Nat
    BY <2>1 DEF Call
  <2>3. CASE a # m
    BY <1>10, <2>2, <2>3 DEF Longer
  <2>4. CASE a = m
    <3>1. stack'[a].decls = held /\ stack'[a].path = stack[a].path /\ stack[a].decls = lower
      BY <1>9, <1>10, <2>4 DEF lower
    <3>2. Len(held) >= Len(lower) /\ \A i \in 1 .. Len(lower) : held[i] = lower[i]
      BY <1>5, <1>8
    <3> QED BY <2>2, <3>1, <3>2 DEF Longer
  <2> QED BY <2>3, <2>4
<1>15. ASSUME NEW h \in 1 .. Len(upper)
       PROVE  \E i \in 1 .. Len(stack'[m].decls) : stack'[m].decls[i].path = upper[h].path
  <2>1. stack'[m].decls = held
    BY <1>3, <1>9, <1>10
  <2>2. Len(lower) + h \in 1 .. Len(held) /\ held[Len(lower) + h].path = upper[h].path
    BY <1>5, <1>8
  <2> QED BY <2>1, <2>2
<1>16. ASSUME NEW a \in 1 .. m, NEW i \in 1 .. Len(stack'[a].decls)
       PROVE  \/ i \in 1 .. Len(stack[a].decls) /\ stack'[a].decls[i].path = stack[a].decls[i].path
              \/ \E h \in 1 .. Len(upper) :
                     a = m /\ i = Len(stack[a].decls) + h /\ stack'[a].decls[i].path = upper[h].path
  BY <1>11 DEF lower
<1>17. stack[n].todo = <<>>
  BY DEF n, Return, Top
<1> HIDE DEF Stayed, Came
<1>18. n \in Nat /\ n > 1 /\ m \in Nat /\ UNCHANGED <<project, visited, calling, loaded, program>>
       /\ stack' \in Seq(Call) /\ Len(stack') = m
  BY <1>1, <1>2, <1>3, <1>7, <1>10
<1> QED BY <1>13, <1>14, <1>15, <1>16, <1>17, <1>18 DEF n, m, upper

\* No call has held what is moved, but the one that is gone.
LEMMA InnerReturns ==
    ASSUME IInv, Return, Len(stack) # 1
    PROVE  IInv'
<1> DEFINE n == Len(stack)
           m == n - 1
           upper == stack[n].decls
           Stayed(a, i) == i \in 1 .. Len(stack[a].decls) /\ stack'[a].decls[i].path = stack[a].decls[i].path
           Came(a, i, h) == /\ a = m /\ i = Len(stack[a].decls) + h
                            /\ stack'[a].decls[i].path = upper[h].path
<1>1. /\ n \in Nat /\ n > 1 /\ m \in Nat
      /\ UNCHANGED <<project, visited, calling, loaded, program>>
      /\ stack' \in Seq(Call) /\ Len(stack') = m
      /\ \A a \in 1 .. m : Longer(a)
      /\ \A a \in 1 .. m : \A i \in 1 .. Len(stack'[a].decls) :
             Stayed(a, i) \/ \E h \in 1 .. Len(upper) : Came(a, i, h)
  BY InnerShape
<1>2. n \in 1 .. n /\ \A a \in 1 .. m : a \in 1 .. n /\ a # n
  BY <1>1
<1> HIDE DEF n, m
<1>3. OwnFirst'
  <2>1. ASSUME NEW a \in 1 .. m
        PROVE  stack'[a].decls # <<>> /\ stack'[a].decls[1].path = stack'[a].path
    <3>1. stack[a].decls # <<>> /\ stack[a].decls[1].path = stack[a].path
      BY <1>2 DEF IInv, OwnFirst, n
    <3>2. Longer(a)
      BY <1>1
    <3>3. 1 \in 1 .. Len(stack[a].decls)
      BY <3>1, <3>2, EmptySeq DEF Longer
    <3>4. stack'[a].decls[1] = stack[a].decls[1] /\ Len(stack'[a].decls) >= 1 /\ stack'[a].path = stack[a].path
      BY <3>2, <3>3 DEF Longer
    <3>5. stack'[a].decls # <<>>
      BY <3>4
    <3> QED BY <3>1, <3>4, <3>5
  <2> QED BY <1>1, <2>1 DEF OwnFirst
<1>4. Marked'
  <2>1. ASSUME NEW a \in 1 .. m, NEW i \in 1 .. Len(stack'[a].decls)
        PROVE  stack'[a].decls[i].path \in visited'
    <3>1. CASE Stayed(a, i)
      BY <1>1, <1>2, <3>1 DEF IInv, Marked, n
    <3>2. ASSUME NEW h \in 1 .. Len(upper), Came(a, i, h) PROVE stack'[a].decls[i].path \in visited'
      BY <1>1, <1>2, <3>2 DEF IInv, Marked, n
    <3>3. Stayed(a, i) \/ \E h \in 1 .. Len(upper) : Came(a, i, h)
      BY <1>1
    <3> HIDE DEF Stayed, Came
    <3> QED BY <3>1, <3>2, <3>3
  <2> QED BY <1>1, <2>1 DEF Marked
<1>5. HeldOnce'
  <2>1. ASSUME NEW a \in 1 .. m, NEW i \in 1 .. Len(stack[a].decls), NEW h \in 1 .. Len(upper)
        PROVE  stack[a].decls[i].path # upper[h].path
    <3>1. a \in 1 .. Len(stack) /\ n \in 1 .. Len(stack) /\ a # n
      BY <1>2 DEF n
    <3>2. h \in 1 .. Len(stack[n].decls) /\ upper[h] = stack[n].decls[h]
      OBVIOUS
    <3> QED BY <3>1, <3>2, Apart
  <2>2. ASSUME NEW h \in 1 .. Len(upper), NEW k \in 1 .. Len(upper), upper[h].path = upper[k].path
        PROVE  h = k
    <3>1. n \in 1 .. Len(stack)
      BY <1>2 DEF n
    <3>2. /\ h \in 1 .. Len(stack[n].decls) /\ k \in 1 .. Len(stack[n].decls)
          /\ stack[n].decls[h].path = stack[n].decls[k].path
      BY <2>2
    <3> QED BY <3>1, <3>2, Apart
  <2>3. ASSUME NEW a \in 1 .. m, NEW b \in 1 .. m,
               NEW i \in 1 .. Len(stack'[a].decls), NEW j \in 1 .. Len(stack'[b].decls),
               stack'[a].decls[i].path = stack'[b].decls[j].path
        PROVE  a = b /\ i = j
    <3>1. CASE Stayed(a, i) /\ Stayed(b, j)
      <4>1. a \in 1 .. Len(stack) /\ b \in 1 .. Len(stack) /\ stack[a].decls[i].path = stack[b].decls[j].path
        BY <1>2, <2>3, <3>1 DEF n
      <4>2. i \in 1 .. Len(stack[a].decls) /\ j \in 1 .. Len(stack[b].decls)
        BY <3>1
      <4> HIDE DEF Stayed
      <4> QED BY <4>1, <4>2, Apart
    <3>2. ASSUME Stayed(a, i), NEW h \in 1 .. Len(upper), Came(b, j, h) PROVE FALSE
      BY <2>1, <2>3, <3>2
    <3>3. ASSUME Stayed(b, j), NEW h \in 1 .. Len(upper), Came(a, i, h) PROVE FALSE
      BY <2>1, <2>3, <3>3
    <3>4. ASSUME NEW h \in 1 .. Len(upper), NEW k \in 1 .. Len(upper), Came(a, i, h), Came(b, j, k)
          PROVE  a = b /\ i = j
      <4>1. h = k
        BY <2>2, <2>3, <3>4
      <4> QED BY <3>4, <4>1
    <3>5. Stayed(a, i) \/ \E h \in 1 .. Len(upper) : Came(a, i, h)
      BY <1>1
    <3>6. Stayed(b, j) \/ \E h \in 1 .. Len(upper) : Came(b, j, h)
      BY <1>1
    <3> HIDE DEF Stayed, Came
    <3>7. CASE Stayed(a, i)
      BY <3>1, <3>2, <3>6, <3>7
    <3>8. ASSUME NEW h \in 1 .. Len(upper), Came(a, i, h) PROVE a = b /\ i = j
      BY <3>3, <3>4, <3>6, <3>8
    <3> QED BY <3>5, <3>7, <3>8
  <2> QED BY <1>1, <2>3 DEF HeldOnce
<1>6. ProgramOnce'
  BY <1>1 DEF IInv, ProgramOnce
<1>7. IncludesTypeOK'
  BY <1>1 DEF IInv, IncludesTypeOK, Call
<1> QED BY <1>3, <1>4, <1>5, <1>6, <1>7 DEF IInv

\* All steps together.
LEMMA StepKeeps == IInv /\ [IncludesNext]_includesVars => IInv'
<1>1. ASSUME IInv, UNCHANGED includesVars PROVE IInv'
  <2>1. UNCHANGED <<project, visited, stack, calling, loaded, program>>
    BY <1>1 DEF includesVars
  <2>2. IncludesTypeOK'
    BY <1>1, <2>1 DEF IInv, IncludesTypeOK
  <2>3. OwnFirst' /\ Marked' /\ HeldOnce' /\ ProgramOnce'
    BY <1>1, <2>1, MoreMarked
  <2> QED BY <2>2, <2>3 DEF IInv
<1>2. ASSUME IInv, Return PROVE IInv'
  <2>1. CASE Len(stack) = 1
    BY <1>2, <2>1, LastReturns
  <2>2. CASE Len(stack) # 1
    BY <1>2, <2>2, InnerReturns
  <2> QED BY <2>1, <2>2
<1>3. ASSUME IInv, Skip \/ IncludeStd \/ IncludeVendor \/ IncludeFile PROVE IInv'
  BY <1>3, LinesKeep
<1>4. ASSUME IInv, Refuse PROVE IInv'
  BY <1>4, RefuseKeeps
<1>5. ASSUME IInv, Parse PROVE IInv'
  BY <1>5, ParseKeeps
<1> QED BY <1>1, <1>2, <1>3, <1>4, <1>5 DEF IncludesNext

-----------------------------------------------------------------------------
(* The program is all that the first file leads to, and nothing else.      *)

\* A file that compile_file would get through.
Readable(p) == project.at[p] \notin project.broken \union {NoFile}

\* What the calls under way have put together, and the program at the end.
Held(p) == \/ \E a \in 1 .. Len(stack) : \E i \in 1 .. Len(stack[a].decls) : stack[a].decls[i].path = p
           \/ \E i \in 1 .. Len(program) : program[i].path = p

\* A call that works on p has still a line before it that leads to q.
Awaits(p, q) ==
    \E a \in 1 .. Len(stack) : /\ stack[a].path = p
                               /\ \E k \in 1 .. Len(stack[a].todo) : q \in Places(stack[a].todo[k])

\* Only what can be read is held.
HeldReadable == \A p \in Path : Held(p) => Readable(p)

\* One of the lines of the file at `path`.
OwnLine(path, line) ==
    \E l \in DOMAIN project.includes[project.at[path]] : line = project.includes[project.at[path]][l]

\* The lines that a call has before it are its file's.
OwnLines ==
    \A a \in 1 .. Len(stack) : \A k \in 1 .. Len(stack[a].todo) : OwnLine(stack[a].path, stack[a].todo[k])

\* Nothing is held, or called for, but what the first file leads to.
WithinReach ==
    \A set \in SUBSET Path : project.start \in set /\ ClosedUnderIncludes(set) =>
        /\ \A p \in Path : Held(p) => p \in set
        /\ calling # None /\ project.at[calling] # NoFile => calling \in set

\* What was marked and can be read is held.
VisitedHeld == \A p \in visited : Readable(p) => Held(p)

\* What a held file leads to has been tried, or is about to be.
FollowedUp ==
    \A p \in Path : Held(p) => \A q \in LeadsTo(p) : q \in visited \/ q = calling \/ Awaits(p, q)

\* The compilation begins with the file it was given and is over when that is.
BeginAndEnd ==
    /\ stack = <<>> /\ calling # None => calling = project.start
    /\ loaded \/ program # <<>> => stack = <<>> /\ calling = None

\* The file given to the compiler comes first, and is not marked as included.
StartFirst ==
    /\ stack # <<>> => stack[1].path = project.start
    /\ \A a \in 1 .. Len(stack) : stack[a].decls[1] = [path |-> stack[a].path, included |-> FALSE]
    /\ program # <<>> => program[1] = [path |-> project.start, included |-> FALSE]

\* The second inductive invariant, which rests on the first.
ReachIInv ==
    /\ project \in Projects
    /\ HeldReadable
    /\ OwnLines
    /\ WithinReach
    /\ VisitedHeld
    /\ FollowedUp
    /\ BeginAndEnd
    /\ StartFirst

\* What the operators say depends on the project only.
LEMMA SameProject ==
    ASSUME project' = project
    PROVE  /\ \A p : Readable(p)' <=> Readable(p)
           /\ \A p : LeadsTo(p)' = LeadsTo(p)
           /\ \A line : Places(line)' = Places(line)
           /\ \A p, line : OwnLine(p, line)' <=> OwnLine(p, line)
           /\ \A set : ClosedUnderIncludes(set)' <=> ClosedUnderIncludes(set)
<1>1. \A c : FirstExisting(c)' = FirstExisting(c)
  BY DEF FirstExisting
<1>3. \A line : Places(line)' = Places(line)
  BY <1>1 DEF Places
<1>2. \A p : LeadsTo(p)' = LeadsTo(p)
  BY <1>3, SMTT(30) DEF LeadsTo
<1>4. \A set : ClosedUnderIncludes(set)' <=> ClosedUnderIncludes(set)
  BY <1>2 DEF ClosedUnderIncludes
<1>5. \A p : Readable(p)' <=> Readable(p)
  BY DEF Readable
<1>6. \A p, line : OwnLine(p, line)' <=> OwnLine(p, line)
  BY DEF OwnLine
<1> QED BY <1>2, <1>3, <1>4, <1>5, <1>6

\* A file that can be read leads to where its lines lead.
LEMMA LinesLead ==
    ASSUME NEW p, Readable(p), NEW q
    PROVE  q \in LeadsTo(p) <=>
               /\ q # None
               /\ \E l \in DOMAIN project.includes[project.at[p]] :
                      q \in Places(project.includes[project.at[p]][l])
BY DEF LeadsTo, Readable

\* A file that cannot be read, or includes nothing, leads nowhere.
LEMMA LeadsNowhere ==
    ASSUME NEW p, project.includes[project.at[p]] = <<>>
    PROVE  LeadsTo(p) = {}
BY DEF LeadsTo

\* What a step may add: files that can be read and belong to the program.
LEMMA Grow ==
    ASSUME IInv, ReachIInv, project' = project, NEW new \in SUBSET Path, NEW tried \in SUBSET Path,
           \A p \in Path : Held(p)' <=> Held(p) \/ p \in new,
           \A p \in new : Readable(p),
           visited' \subseteq visited \union new \union tried,
           \A p \in tried : Readable(p) => p \in visited,
           \A set \in SUBSET Path : project.start \in set /\ ClosedUnderIncludes(set) =>
               /\ new \subseteq set
               /\ calling' # None /\ project.at[calling'] # NoFile => calling' \in set
    PROVE  HeldReadable' /\ WithinReach' /\ VisitedHeld'
<1>1. /\ \A p : Readable(p)' <=> Readable(p)
      /\ \A set : ClosedUnderIncludes(set)' <=> ClosedUnderIncludes(set)
  BY SameProject
<1>2. HeldReadable /\ WithinReach /\ VisitedHeld /\ visited \subseteq Path
  BY DEF ReachIInv, IInv, IncludesTypeOK
<1>3. HeldReadable'
  BY <1>1, <1>2 DEF HeldReadable
<1>4. VisitedHeld'
  BY <1>1, <1>2 DEF VisitedHeld
<1>5. ASSUME NEW set \in SUBSET Path, project.start \in set, ClosedUnderIncludes(set)
      PROVE  /\ \A p \in Path : Held(p)' => p \in set
             /\ calling' # None /\ project.at[calling'] # NoFile => calling' \in set
  BY <1>2, <1>5 DEF WithinReach
<1>6. WithinReach'
  BY <1>1, <1>5 DEF WithinReach
<1> QED BY <1>3, <1>4, <1>6

\* While stack and program stay, so does what is held and awaited.
LEMMA SameHeld ==
    ASSUME UNCHANGED <<project, stack, program>>
    PROVE  /\ \A p : Held(p)' <=> Held(p)
           /\ \A p, q : Awaits(p, q)' <=> Awaits(p, q)
           /\ OwnLines' <=> OwnLines
           /\ StartFirst' <=> StartFirst
<1>1. /\ \A line : Places(line)' = Places(line)
      /\ \A p, line : OwnLine(p, line)' <=> OwnLine(p, line)
  BY SameProject
<1> QED BY <1>1 DEF Held, Awaits, OwnLines, StartFirst

\* A file that is refused is known, or not to be read.
LEMMA RefuseReaches == ASSUME IInv, ReachIInv, Refuse PROVE ReachIInv'
<1>1. /\ UNCHANGED <<project, stack, program>> /\ visited' = Mark({calling}) /\ calling' = None
      /\ loaded' = (stack = <<>>) /\ calling # None
      /\ Readable(calling) => calling \in visited
  BY DEF Refuse, Readable
<1>2. calling \in Path /\ visited \subseteq Path
  BY <1>1 DEF IInv, IncludesTypeOK
<1>3. visited \subseteq visited' /\ visited' \subseteq visited \union {calling} /\ calling \in visited'
  BY <1>1, <1>2, MarkFits
<1>4. /\ \A p : Held(p)' <=> Held(p)
      /\ \A p, q : Awaits(p, q)' <=> Awaits(p, q)
      /\ OwnLines' <=> OwnLines
      /\ StartFirst' <=> StartFirst
  BY <1>1, SameHeld
<1>5. HeldReadable' /\ WithinReach' /\ VisitedHeld'
  <2> DEFINE new == {}
             tried == {calling}
  <2>1. new \in SUBSET Path /\ tried \in SUBSET Path
    BY <1>2
  <2>2. \A p \in Path : Held(p)' <=> Held(p) \/ p \in new
    BY <1>4
  <2>3. visited' \subseteq visited \union new \union tried
    BY <1>3
  <2>4. \A p \in tried : Readable(p) => p \in visited
    BY <1>1
  <2>5. \A p \in new : Readable(p)
    OBVIOUS
  <2>6. \A set \in SUBSET Path : project.start \in set /\ ClosedUnderIncludes(set) =>
            /\ new \subseteq set
            /\ calling' # None /\ project.at[calling'] # NoFile => calling' \in set
    BY <1>1
  <2> HIDE DEF new, tried
  <2> QED BY <1>1, <2>1, <2>2, <2>3, <2>4, <2>5, <2>6, Grow
<1>6. FollowedUp'
  <2>1. \A p : LeadsTo(p)' = LeadsTo(p)
    BY <1>1, SameProject
  <2> QED BY <1>3, <1>4, <2>1 DEF ReachIInv, FollowedUp
<1>7. BeginAndEnd'
  BY <1>1 DEF ReachIInv, BeginAndEnd
<1> QED BY <1>1, <1>4, <1>5, <1>6, <1>7 DEF ReachIInv

\* A file that is parsed is held from then on, and its lines are before it.
LEMMA ParseReaches == ASSUME IInv, ReachIInv, Parse PROVE ReachIInv'
<1> DEFINE n == Len(stack)
           lines == project.includes[project.at[calling]]
<1>1. /\ n \in Nat /\ stack \in Seq(Call) /\ project \in Project /\ visited \subseteq Path
      /\ calling \in Path /\ calling \notin visited /\ Readable(calling)
      /\ visited' = visited \union {calling} /\ calling' = None /\ UNCHANGED <<project, loaded, program>>
      /\ stack' \in Seq(Call) /\ Len(stack') = n + 1
  BY ParseShape DEF Readable
<1>2. /\ \A a \in 1 .. n : stack'[a] = stack[a]
      /\ stack'[n + 1].path = calling
      /\ stack'[n + 1].todo = lines
      /\ Len(stack'[n + 1].decls) = 1
      /\ stack'[n + 1].decls[1] = [path |-> calling, included |-> FALSE]
  BY ParseShape
<1>3. calling # None /\ project.at[calling] # NoFile
  BY DEF Parse
<1>4. lines \in Seq(Include) /\ DOMAIN lines = 1 .. Len(lines)
  <2>1. project.at[calling] \in File
    BY <1>1 DEF Project, Readable
  <2>2. lines \in Seq(Include)
    BY <1>1, <2>1 DEF Project
  <2> HIDE DEF lines
  <2> QED BY <2>2, LenProperties
<1> HIDE DEF n, lines
<1>5. \A a : a \in 1 .. n + 1 <=> a \in 1 .. n \/ a = n + 1
  BY <1>1
<1>6. \A p : Held(p)' <=> Held(p) \/ p = calling
  <2>1. ASSUME NEW p PROVE (\E i \in 1 .. Len(stack'[n + 1].decls) : stack'[n + 1].decls[i].path = p) <=> p = calling
    <3>1. \A i : i \in 1 .. 1 <=> i = 1
      OBVIOUS
    <3> QED BY <1>2, <3>1
  <2>2. ASSUME NEW p PROVE
          (\E a \in 1 .. n + 1 : \E i \in 1 .. Len(stack'[a].decls) : stack'[a].decls[i].path = p)
          <=> (\E a \in 1 .. n : \E i \in 1 .. Len(stack[a].decls) : stack[a].decls[i].path = p) \/ p = calling
    BY <1>2, <1>5, <2>1
  <2> QED BY <1>1, <2>2 DEF Held, n
<1>7. HeldReadable' /\ WithinReach' /\ VisitedHeld'
  <2> DEFINE new == {calling}
             tried == {}
  <2>1. new \in SUBSET Path /\ tried \in SUBSET Path
    BY <1>1
  <2>2. \A p \in Path : Held(p)' <=> Held(p) \/ p \in new
    BY <1>6
  <2>3. visited' \subseteq visited \union new \union tried
    BY <1>1
  <2>4. \A p \in tried : Readable(p) => p \in visited
    OBVIOUS
  <2>5. \A p \in new : Readable(p)
    BY <1>1
  <2>6. \A set \in SUBSET Path : project.start \in set /\ ClosedUnderIncludes(set) =>
            /\ new \subseteq set
            /\ calling' # None /\ project.at[calling'] # NoFile => calling' \in set
    BY <1>1, <1>3 DEF ReachIInv, WithinReach
  <2> HIDE DEF new, tried
  <2> QED BY <1>1, <2>1, <2>2, <2>3, <2>4, <2>5, <2>6, Grow
<1>8. /\ \A line : Places(line)' = Places(line)
      /\ \A p, line : OwnLine(p, line)' <=> OwnLine(p, line)
      /\ \A p : LeadsTo(p)' = LeadsTo(p)
  BY <1>1, SameProject
<1>9. FollowedUp'
  <2>1. ASSUME NEW p, NEW q, Awaits(p, q) PROVE Awaits(p, q)'
    <3>1. PICK a \in 1 .. n : /\ stack[a].path = p
                              /\ \E k \in 1 .. Len(stack[a].todo) : q \in Places(stack[a].todo[k])
      BY <2>1 DEF Awaits, n
    <3>2. a \in 1 .. Len(stack') /\ stack'[a] = stack[a]
      BY <1>1, <1>2, <1>5
    <3> QED BY <1>8, <3>1, <3>2 DEF Awaits
  <2>2. ASSUME NEW p, p = calling, NEW q \in LeadsTo(p) PROVE Awaits(p, q)'
    <3>1. PICK l \in DOMAIN lines : q \in Places(lines[l])
      BY <1>1, <2>2, LinesLead DEF lines
    <3>2. n + 1 \in 1 .. Len(stack') /\ l \in 1 .. Len(stack'[n + 1].todo)
      BY <1>1, <1>2, <1>4
    <3>3. stack'[n + 1].path = p /\ q \in Places(stack'[n + 1].todo[l])
      BY <1>2, <2>2, <3>1
    <3> QED BY <1>8, <3>2, <3>3 DEF Awaits
  <2>3. ASSUME NEW p \in Path, Held(p), NEW q \in LeadsTo(p)
        PROVE  q \in visited' \/ Awaits(p, q)'
    <3>1. q \in visited \/ q = calling \/ Awaits(p, q)
      BY <2>3 DEF ReachIInv, FollowedUp
    <3> QED BY <1>1, <2>1, <3>1
  <2>4. ASSUME NEW p \in Path, Held(p)', NEW q \in LeadsTo(p)'
        PROVE  q \in visited' \/ Awaits(p, q)'
    <3>1. q \in LeadsTo(p) /\ (Held(p) \/ p = calling)
      BY <1>6, <1>8, <2>4
    <3> QED BY <2>2, <2>3, <3>1
  <2> QED BY <2>4 DEF FollowedUp
<1>10. OwnLines'
  <2>1. ASSUME NEW a \in 1 .. n + 1, NEW k \in 1 .. Len(stack'[a].todo)
        PROVE  OwnLine(stack'[a].path, stack'[a].todo[k])
    <3>1. CASE a \in 1 .. n
      BY <1>2, <3>1 DEF ReachIInv, OwnLines, n
    <3>2. CASE a = n + 1
      <4>1. k \in DOMAIN lines /\ stack'[a].path = calling /\ stack'[a].todo[k] = lines[k]
        BY <1>2, <1>4, <3>2
      <4> QED BY <4>1 DEF lines, OwnLine
    <3> QED BY <1>5, <3>1, <3>2
  <2> QED BY <1>1, <1>8, <2>1 DEF OwnLines
<1>11. StartFirst'
  <2>1. ASSUME NEW a \in 1 .. n + 1 PROVE stack'[a].decls[1] = [path |-> stack'[a].path, included |-> FALSE]
    BY <1>2, <1>5 DEF ReachIInv, StartFirst, n
  <2>2. stack'[1].path = project.start
    <3>1. CASE stack = <<>>
      <4>1. n = 0
        BY <3>1 DEF n
      <4>2. calling = project.start
        BY <1>3, <3>1 DEF ReachIInv, BeginAndEnd
      <4> QED BY <1>2, <4>1, <4>2
    <3>2. CASE stack # <<>>
      <4>1. 1 \in 1 .. n
        BY <1>1, <3>2, EmptySeq DEF n
      <4> QED BY <1>2, <3>2, <4>1 DEF ReachIInv, StartFirst
    <3> QED BY <3>1, <3>2
  <2> QED BY <1>1, <2>1, <2>2 DEF ReachIInv, StartFirst
<1>12. stack' # <<>> /\ ~loaded' /\ program' = <<>>
  <2>1. ~loaded /\ program = <<>>
    BY <1>3 DEF ReachIInv, BeginAndEnd, IInv, IncludesTypeOK
  <2>2. stack' # <<>>
    BY <1>1
  <2> QED BY <1>1, <2>1, <2>2
<1>13. BeginAndEnd'
  BY <1>1, <1>12 DEF BeginAndEnd
<1> QED BY <1>1, <1>7, <1>9, <1>10, <1>11, <1>13 DEF ReachIInv

\* The line that is next is one of a held file, which leads where the line leads.
LEMMA NextLineFrom ==
    ASSUME IInv, ReachIInv, Walking
    PROVE  /\ Held(Top.path) /\ Top.path \in Path /\ Readable(Top.path)
           /\ OwnLine(Top.path, Head(Top.todo))
           /\ \A q \in Places(Head(Top.todo)) : q # None => q \in LeadsTo(Top.path)
<1> DEFINE n == Len(stack)
<1>1. stack \in Seq(Call) /\ stack # <<>> /\ Top.todo # <<>>
  BY DEF IInv, IncludesTypeOK, Call, Walking
<1>2. n \in Nat /\ n \in 1 .. n /\ Top = stack[n]
  BY <1>1, EmptySeq DEF Top
<1>3. Top \in Call
  BY <1>1, <1>2, ElementOfSeq
<1>4. Top.path \in Path /\ Top.todo \in Seq(Include) /\ Top.decls \in Seq(Decl)
  BY <1>3 DEF Call
<1>5. 1 \in 1 .. Len(Top.todo) /\ Top.todo[1] = Head(Top.todo)
  BY <1>1, <1>4, EmptySeq
<1>6. Held(Top.path)
  <2>1. Top.decls # <<>> /\ Top.decls[1].path = Top.path
    BY <1>2 DEF IInv, OwnFirst
  <2>2. 1 \in 1 .. Len(Top.decls)
    BY <1>4, <2>1, EmptySeq
  <2> QED BY <1>2, <2>1, <2>2 DEF Held
<1>7. Readable(Top.path)
  BY <1>4, <1>6 DEF ReachIInv, HeldReadable
<1>8. OwnLine(Top.path, Head(Top.todo))
  BY <1>2, <1>5 DEF ReachIInv, OwnLines
<1>9. \A q \in Places(Head(Top.todo)) : q # None => q \in LeadsTo(Top.path)
  BY <1>7, <1>8, LinesLead DEF OwnLine
<1> QED BY <1>4, <1>6, <1>7, <1>8, <1>9

\* An interface that a line of the program names can be read, and leads nowhere.
LEMMA Interface ==
    ASSUME IInv, ReachIInv, Walking, NEW p \in Path, p = FirstExisting(Head(Top.todo).hyi), p # None
    PROVE  Readable(p) /\ LeadsTo(p) = {}
<1> DEFINE line == Head(Top.todo)
           file == project.at[Top.path]
<1>1. line.hyi \in Seq(Path)
  BY NextLine
<1>2. PICK c \in DOMAIN line.hyi : p = line.hyi[c] /\ project.at[line.hyi[c]] # NoFile
  BY <1>1, PlaceFound
<1>3. PICK l \in DOMAIN project.includes[file] : line = project.includes[file][l]
  BY NextLineFrom DEF OwnLine
<1>4. file \in File
  <2>1. project \in Project /\ Top.path \in Path /\ Readable(Top.path)
    BY NextLineFrom DEF IInv, IncludesTypeOK
  <2> QED BY <2>1 DEF Project, Readable
<1>5. PlainInterfaces(project)
  BY IncludesAssumption DEF ReachIInv
<1>6. /\ project.at[p] # NoFile
      /\ c \in DOMAIN project.includes[file][l].hyi
      /\ project.at[project.includes[file][l].hyi[c]] = project.at[p]
  BY <1>2, <1>3
<1> HIDE DEF file, line
<1>7. project.at[p] \notin project.broken /\ project.includes[project.at[p]] = <<>>
  BY <1>3, <1>4, <1>5, <1>6 DEF PlainInterfaces
<1> QED BY <1>6, <1>7, LeadsNowhere DEF Readable

\* What a grown call held, it holds.
LEMMA LongerHolds ==
    ASSUME NEW a, Longer(a), NEW i \in 1 .. Len(stack[a].decls)
    PROVE  i \in 1 .. Len(stack'[a].decls) /\ stack'[a].decls[i] = stack[a].decls[i]
BY DEF Longer

\* Nor does it lose its first declaration, its own.
LEMMA LongerFirst ==
    ASSUME OwnFirst, StartFirst, NEW a \in 1 .. Len(stack), Longer(a)
    PROVE  stack'[a].decls[1] = [path |-> stack'[a].path, included |-> FALSE]
<1>1. stack[a].decls # <<>> /\ stack[a].decls[1] = [path |-> stack[a].path, included |-> FALSE]
  BY DEF OwnFirst, StartFirst
<1>2. 1 \in 1 .. Len(stack[a].decls)
  BY <1>1, EmptySeq DEF Longer
<1> QED BY <1>1, <1>2 DEF Longer

\* A line brings a stub or nothing; where it leads has been tried, or is next.
LEMMA AdvanceReaches ==
    ASSUME IInv, ReachIInv, Walking, NEW new \in SUBSET Path, NEW p \in Path, new = {} \/ (new = {p} /\ p \notin visited),
           Advance(IF new # {} THEN Stub(p) ELSE <<>>),
           visited' = Mark(new),
           UNCHANGED <<project, loaded, program>>,
           new # {} => /\ p = FirstExisting(Head(Top.todo).hyi) /\ p # None
                       /\ p \in Places(Head(Top.todo)),
           \A q \in Places(Head(Top.todo)) : q # None => q \in visited' \/ q = calling',
           calling' # None /\ project.at[calling'] # NoFile => calling' \in Places(Head(Top.todo))
    PROVE  ReachIInv'
<1> DEFINE n == Len(stack)
           top == Top.path
<1>1. /\ n \in Nat /\ n >= 1 /\ stack \in Seq(Call) /\ visited \subseteq Path
      /\ visited' = visited \union new
      /\ stack' \in Seq(Call) /\ Len(stack') = n
  BY AdvanceShape
<1>2. /\ stack[n].todo \in Seq(Include) /\ stack[n].todo # <<>>
      /\ \A a \in 1 .. n : stack'[a].todo = IF a = n THEN Tail(stack[a].todo) ELSE stack[a].todo
  BY AdvanceShape
<1>3. \A a \in 1 .. n : Longer(a)
  BY AdvanceShape
<1>4. \A a \in 1 .. n : \A i \in 1 .. Len(stack'[a].decls) :
         \/ i \in 1 .. Len(stack[a].decls) /\ stack'[a].decls[i].path = stack[a].decls[i].path
         \/ stack'[a].decls[i].path \in new
  BY AdvanceShape
<1>5. \A q \in new : \E i \in 1 .. Len(stack'[n].decls) : stack'[n].decls[i].path = q
  BY AdvanceShape
<1>6. Top = stack[n] /\ n \in 1 .. n
  BY <1>1 DEF Top
<1>7. /\ \A line : Places(line)' = Places(line)
      /\ \A q : LeadsTo(q)' = LeadsTo(q)
      /\ \A q, line : OwnLine(q, line)' <=> OwnLine(q, line)
  BY SameProject
<1>8. Held(top) /\ top \in Path /\ \A q \in Places(Head(Top.todo)) : q # None => q \in LeadsTo(top)
  BY NextLineFrom
<1> HIDE DEF n, top
<1>9. ASSUME NEW q PROVE Held(q)' <=> Held(q) \/ q \in new
  <2>1. ASSUME NEW a \in 1 .. n, NEW i \in 1 .. Len(stack'[a].decls), stack'[a].decls[i].path = q
        PROVE  (\E j \in 1 .. Len(stack[a].decls) : stack[a].decls[j].path = q) \/ q \in new
    BY <1>4, <2>1
  <2>2. ASSUME NEW a \in 1 .. n, NEW i \in 1 .. Len(stack[a].decls), stack[a].decls[i].path = q
        PROVE  \E j \in 1 .. Len(stack'[a].decls) : stack'[a].decls[j].path = q
    BY <1>3, <2>2, LongerHolds
  <2>3. (\E a \in 1 .. n : \E i \in 1 .. Len(stack'[a].decls) : stack'[a].decls[i].path = q)
        <=> (\E a \in 1 .. n : \E i \in 1 .. Len(stack[a].decls) : stack[a].decls[i].path = q) \/ q \in new
    BY <1>5, <1>6, <2>1, <2>2
  <2> QED BY <1>1, <2>3 DEF Held, n
<1>10. ASSUME NEW q \in new PROVE q = p /\ Readable(q) /\ LeadsTo(q) = {} /\ q \in LeadsTo(top)
  <2>1. q = p /\ new # {}
    OBVIOUS
  <2>2. p = FirstExisting(Head(Top.todo).hyi) /\ p # None /\ p \in Places(Head(Top.todo))
    BY <2>1
  <2> QED BY <1>8, <2>1, <2>2, Interface
<1>11. HeldReadable' /\ WithinReach' /\ VisitedHeld'
  <2> DEFINE tried == {}
  <2>1. tried \in SUBSET Path
    OBVIOUS
  <2>2. \A q \in Path : Held(q)' <=> Held(q) \/ q \in new
    BY <1>9
  <2>3. visited' \subseteq visited \union new \union tried
    BY <1>1
  <2>4. \A q \in tried : Readable(q) => q \in visited
    OBVIOUS
  <2>5. \A q \in new : Readable(q)
    BY <1>10
  <2>6. ASSUME NEW set \in SUBSET Path, project.start \in set, ClosedUnderIncludes(set)
        PROVE  /\ new \subseteq set
               /\ calling' # None /\ project.at[calling'] # NoFile => calling' \in set
    <3>1. top \in set
      BY <1>8, <2>6 DEF ReachIInv, WithinReach
    <3>2. LeadsTo(top) \subseteq set
      BY <2>6, <3>1 DEF ClosedUnderIncludes
    <3> QED BY <1>8, <1>10, <3>2
  <2> HIDE DEF tried
  <2> QED BY <2>1, <2>2, <2>3, <2>4, <2>5, <2>6, Grow
<1>12. stack[n].todo[1] = Head(stack[n].todo) /\ Len(stack[n].todo) \in Nat
       /\ Len(Tail(stack[n].todo)) = Len(stack[n].todo) - 1
       /\ \A k \in 1 .. Len(Tail(stack[n].todo)) : Tail(stack[n].todo)[k] = stack[n].todo[k + 1]
  <2> DEFINE t == stack[n].todo
  <2>1. t \in Seq(Include) /\ t # <<>>
    BY <1>2
  <2> HIDE DEF t
  <2>2. t[1] = Head(t) /\ Len(t) \in Nat /\ Len(Tail(t)) = Len(t) - 1
        /\ \A k \in 1 .. Len(Tail(t)) : Tail(t)[k] = t[k + 1]
    BY <2>1, HeadTailProperties
  <2> QED BY <2>2 DEF t
<1>13. ASSUME NEW q, NEW r, Awaits(q, r) PROVE Awaits(q, r)' \/ r \in Places(Head(Top.todo))
  <2>1. PICK a \in 1 .. n : stack[a].path = q /\ \E k \in 1 .. Len(stack[a].todo) : r \in Places(stack[a].todo[k])
    BY <1>13 DEF Awaits, n
  <2>2. PICK k \in 1 .. Len(stack[a].todo) : r \in Places(stack[a].todo[k])
    BY <2>1
  <2>3. stack'[a].path = q /\ a \in 1 .. Len(stack')
    BY <1>1, <1>3, <2>1 DEF Longer
  <2>4. CASE a # n
    <3>1. stack'[a].todo = stack[a].todo
      BY <1>2, <2>4
    <3> QED BY <1>7, <2>2, <2>3, <3>1 DEF Awaits
  <2>5. CASE a = n /\ k = 1
    BY <1>6, <1>12, <2>2, <2>5
  <2>6. CASE a = n /\ k # 1
    <3>1. stack'[a].todo = Tail(stack[n].todo)
      BY <1>2, <2>6
    <3>2. k - 1 \in 1 .. Len(Tail(stack[n].todo)) /\ k - 1 + 1 = k
      BY <1>12, <2>6
    <3>3. stack'[a].todo[k - 1] = stack[a].todo[k] /\ k - 1 \in 1 .. Len(stack'[a].todo)
      BY <1>12, <2>6, <3>1, <3>2
    <3> QED BY <1>7, <2>2, <2>3, <3>3 DEF Awaits
  <2> QED BY <2>4, <2>5, <2>6
<1>14. FollowedUp'
  <2>1. ASSUME NEW q \in Path, Held(q)', NEW r \in LeadsTo(q)
        PROVE  r \in visited' \/ r = calling' \/ Awaits(q, r)'
    <3>1. Held(q)
      BY <1>9, <1>10, <2>1
    <3>2. r # None /\ calling = None
      BY DEF LeadsTo, Walking
    <3>3. r \in visited \/ Awaits(q, r)
      BY <3>1, <3>2 DEF ReachIInv, FollowedUp
    <3> QED BY <1>1, <1>13, <3>2, <3>3
  <2> QED BY <1>7, <2>1 DEF FollowedUp
<1>15. OwnLines'
  <2>1. ASSUME NEW a \in 1 .. n, NEW k \in 1 .. Len(stack'[a].todo)
        PROVE  OwnLine(stack'[a].path, stack'[a].todo[k])
    <3>1. stack'[a].path = stack[a].path
      BY <1>3 DEF Longer
    <3>2. \E j \in 1 .. Len(stack[a].todo) : stack'[a].todo[k] = stack[a].todo[j]
      <4>1. CASE a # n
        BY <1>2, <4>1
      <4>2. CASE a = n
        <5>1. stack'[a].todo = Tail(stack[n].todo) /\ k \in 1 .. Len(Tail(stack[n].todo))
          BY <1>2, <4>2
        <5>2. k + 1 \in 1 .. Len(stack[a].todo) /\ stack'[a].todo[k] = stack[a].todo[k + 1]
          BY <1>12, <4>2, <5>1
        <5> QED BY <5>2
      <4> QED BY <4>1, <4>2
    <3>3. \A j \in 1 .. Len(stack[a].todo) : OwnLine(stack[a].path, stack[a].todo[j])
      BY DEF ReachIInv, OwnLines, n
    <3> QED BY <3>1, <3>2, <3>3
  <2> QED BY <1>1, <1>7, <2>1 DEF OwnLines
<1>16. stack # <<>> /\ stack' # <<>> /\ ~loaded /\ program = <<>>
  <2>1. stack # <<>> /\ stack' # <<>>
    BY <1>1, EmptySeq DEF n
  <2> QED BY <2>1 DEF ReachIInv, BeginAndEnd, IInv, IncludesTypeOK
<1>17. StartFirst'
  <2>1. \A a \in 1 .. n : stack'[a].decls[1] = [path |-> stack'[a].path, included |-> FALSE]
    BY <1>3, LongerFirst DEF ReachIInv, IInv, n
  <2>2. stack'[1].path = project.start
    <3>1. 1 \in 1 .. n
      BY <1>1
    <3> QED BY <1>3, <1>16, <3>1 DEF ReachIInv, StartFirst, Longer
  <2> QED BY <1>1, <1>16, <2>1, <2>2 DEF StartFirst
<1>18. BeginAndEnd'
  BY <1>16 DEF BeginAndEnd
<1> QED BY <1>11, <1>14, <1>15, <1>17, <1>18 DEF ReachIInv

\* The four kinds of include lines.
LEMMA LinesReach ==
    ASSUME IInv, ReachIInv, Skip \/ IncludeStd \/ IncludeVendor \/ IncludeFile
    PROVE  ReachIInv'
<1> DEFINE line == Head(Top.todo)
           hyi == FirstExisting(line.hyi)
           hy == FirstExisting(line.hy)
<1>1. Walking
  BY DEF Skip, IncludeStd, IncludeVendor, IncludeFile
<1>2. /\ line.hyi \in Seq(Path) /\ line.hy \in Seq(Path) /\ (line.kind = "file" => line.hy # <<>>)
      /\ project.start \in Path /\ visited \subseteq Path /\ calling = None
  BY <1>1, NextLine DEF Walking
<1>3. hyi \in Path \union {None} /\ hy \in Path \union {None}
  BY <1>2, PlaceFound
\* With a stub, if that is new; or without.
<1>4. ASSUME NEW new, new = IF Unseen(hyi) THEN {hyi} ELSE {},
             Advance(IF new # {} THEN Stub(hyi) ELSE <<>>), visited' = Mark(new),
             UNCHANGED <<project, loaded, program>>,
             hyi \in Places(line),
             \A q \in Places(line) : q # None => q = hyi \/ q \in visited \/ q = calling',
             calling' # None => calling' \in Places(line)
      PROVE  ReachIInv'
  <2>1. CASE Unseen(hyi)
    <3>1. hyi \in Path /\ hyi \notin visited /\ hyi # None /\ new = {hyi} /\ new \in SUBSET Path
      BY <1>3, <1>4, <2>1 DEF Unseen
    <3>2. visited' = visited \union {hyi}
      BY <1>2, <1>4, <3>1, MarkFits
    <3>3. \A q \in Places(line) : q # None => q \in visited' \/ q = calling'
      BY <1>4, <3>2
    <3> HIDE DEF hyi, hy
    <3> QED BY <1>1, <1>4, <3>1, <3>3, AdvanceReaches DEF hyi
  <2>2. CASE ~Unseen(hyi)
    <3>1. PICK none \in SUBSET Path : none = {}
      OBVIOUS
    <3>2. PICK p \in Path : p = project.start
      BY <1>2
    <3>3. none = {} \/ (none = {p} /\ p \notin visited)
      BY <3>1
    <3>4. Advance(IF none # {} THEN Stub(p) ELSE <<>>) /\ visited' = Mark(none)
      BY <1>4, <2>2, <3>1
    <3>5. visited' = visited
      BY <1>2, <3>1, <3>4, MarkFits
    <3>6. \A q \in Places(line) : q # None => q \in visited' \/ q = calling'
      BY <1>4, <2>2, <3>5 DEF Unseen
    <3> QED BY <1>1, <1>4, <3>1, <3>3, <3>4, <3>6, AdvanceReaches
  <2> QED BY <2>1, <2>2
\* Without a stub.
<1>5. ASSUME Advance(<<>>), visited' = visited,
             UNCHANGED <<project, loaded, program>>,
             \A q \in Places(line) : q # None => q = calling',
             calling' # None /\ project.at[calling'] # NoFile => calling' \in Places(line)
      PROVE  ReachIInv'
  <2>1. PICK none \in SUBSET Path : none = {}
    OBVIOUS
  <2>2. PICK p \in Path : p = project.start
    BY <1>2
  <2>3. none = {} \/ (none = {p} /\ p \notin visited)
    BY <2>1
  <2>4. Advance(IF none # {} THEN Stub(p) ELSE <<>>) /\ visited' = Mark(none)
    BY <1>2, <1>5, <2>1, <2>2, MarkFits
  <2>5. \A q \in Places(line) : q # None => q \in visited' \/ q = calling'
    BY <1>5
  <2> QED BY <1>1, <1>5, <2>1, <2>3, <2>4, <2>5, AdvanceReaches
<1>6. CASE Skip
  <2>1. Places(line) = {}
    BY <1>6 DEF Skip, Places
  <2>2. Advance(<<>>) /\ UNCHANGED <<project, visited, calling, loaded, program>>
    BY <1>6 DEF Skip
  <2> QED BY <1>2, <1>5, <2>1, <2>2
<1>7. CASE IncludeFile
  <2>1. line.kind = "file" /\ Advance(<<>>) /\ UNCHANGED <<project, visited, loaded, program>>
        /\ calling' = IF hy # None THEN hy ELSE Head(line.hy)
    BY <1>7 DEF IncludeFile
  <2>2. Places(line) = {hy}
    BY <2>1 DEF Places
  <2>3. hy = None => project.at[Head(line.hy)] = NoFile
    <3>1. 1 \in DOMAIN line.hy /\ line.hy[1] = Head(line.hy)
      BY <1>2, <2>1, EmptySeq, LenProperties
    <3> QED BY <1>2, <3>1, PlaceFound
  <2>4. \A q \in Places(line) : q # None => q = calling'
    BY <2>1, <2>2
  <2>5. calling' # None /\ project.at[calling'] # NoFile => calling' \in Places(line)
    BY <2>1, <2>2, <2>3
  <2> HIDE DEF hy, line
  <2> QED BY <1>5, <2>1, <2>4, <2>5
<1>8. CASE IncludeStd
  <2> DEFINE new == IF Unseen(hyi) THEN {hyi} ELSE {}
  <2>1. line.kind = "std" /\ Advance(IF new # {} THEN Stub(hyi) ELSE <<>>) /\ visited' = Mark(new)
        /\ calling' = (IF Unseen(hy) THEN hy ELSE None) /\ UNCHANGED <<project, loaded, program>>
    BY <1>8 DEF IncludeStd
  <2>2. Places(line) = {hyi, hy}
    BY <2>1 DEF Places
  <2>3. \A q \in Places(line) : q # None => q = hyi \/ q \in visited \/ q = calling'
    BY <2>1, <2>2 DEF Unseen
  <2>4. (calling' # None => calling' \in Places(line)) /\ hyi \in Places(line)
    BY <2>1, <2>2
  <2>5. new = IF Unseen(hyi) THEN {hyi} ELSE {}
    OBVIOUS
  <2> HIDE DEF hyi, hy, new, line
  <2> QED BY <1>4, <2>1, <2>3, <2>4, <2>5
<1>9. CASE IncludeVendor
  <2> DEFINE new == IF Unseen(hyi) THEN {hyi} ELSE {}
  <2>1. line.kind = "vendor" /\ Advance(IF new # {} THEN Stub(hyi) ELSE <<>>) /\ visited' = Mark(new)
        /\ UNCHANGED <<project, calling, loaded, program>>
    BY <1>9 DEF IncludeVendor
  <2>2. Places(line) = {hyi}
    BY <2>1 DEF Places
  <2>3. \A q \in Places(line) : q # None => q = hyi \/ q \in visited \/ q = calling'
    BY <2>2
  <2>4. (calling' # None => calling' \in Places(line)) /\ hyi \in Places(line)
    BY <1>2, <2>1, <2>2
  <2>5. new = IF Unseen(hyi) THEN {hyi} ELSE {}
    OBVIOUS
  <2> HIDE DEF hyi, hy, new, line
  <2> QED BY <1>4, <2>1, <2>3, <2>4, <2>5
<1> QED BY <1>6, <1>7, <1>8, <1>9

\* The outermost call returns: the program is what it held.
LEMMA LastReaches == ASSUME IInv, ReachIInv, Return, Len(stack) = 1 PROVE ReachIInv'
<1>1. UNCHANGED <<project, visited, calling>> /\ loaded' = TRUE /\ program' = Top.decls /\ stack' = <<>>
      /\ calling = None /\ Top.todo = <<>> /\ stack # <<>>
  BY DEF Return
<1>2. program = <<>> /\ Top = stack[1]
  BY <1>1 DEF ReachIInv, BeginAndEnd, Top
<1>3. Len(stack') = 0 /\ Len(program) = 0 /\ (\A a : a \in 1 .. 0 <=> FALSE) /\ (\A a : a \in 1 .. 1 <=> a = 1)
  BY <1>1, <1>2
<1>4. ASSUME NEW p PROVE Held(p)' <=> Held(p)
  <2>1. Held(p) <=> \E i \in 1 .. Len(stack[1].decls) : stack[1].decls[i].path = p
    BY <1>3 DEF Held
  <2>2. Held(p)' <=> \E i \in 1 .. Len(stack[1].decls) : stack[1].decls[i].path = p
    BY <1>1, <1>2, <1>3 DEF Held
  <2> QED BY <2>1, <2>2
<1>5. ASSUME NEW p, NEW q PROVE ~Awaits(p, q)
  BY <1>1, <1>2, <1>3 DEF Awaits
<1>6. HeldReadable' /\ WithinReach' /\ VisitedHeld'
  <2> DEFINE none == {}
  <2>1. none \in SUBSET Path
    OBVIOUS
  <2>2. \A p \in Path : Held(p)' <=> Held(p) \/ p \in none
    BY <1>4
  <2>3. visited' \subseteq visited \union none \union none
    BY <1>1
  <2>4. \A p \in none : Readable(p) => p \in visited
    OBVIOUS
  <2>5. \A p \in none : Readable(p)
    OBVIOUS
  <2>6. \A set \in SUBSET Path : project.start \in set /\ ClosedUnderIncludes(set) =>
            /\ none \subseteq set
            /\ calling' # None /\ project.at[calling'] # NoFile => calling' \in set
    BY <1>1
  <2> HIDE DEF none
  <2> QED BY <1>1, <2>1, <2>2, <2>3, <2>4, <2>5, <2>6, Grow
<1>7. FollowedUp'
  <2>1. \A p : LeadsTo(p)' = LeadsTo(p)
    BY <1>1, SameProject
  <2> QED BY <1>1, <1>4, <1>5, <2>1 DEF ReachIInv, FollowedUp
<1>8. OwnLines'
  BY <1>3 DEF OwnLines
<1>9. StartFirst'
  BY <1>1, <1>2, <1>3 DEF ReachIInv, StartFirst
<1>10. BeginAndEnd'
  BY <1>1 DEF BeginAndEnd
<1> QED BY <1>1, <1>6, <1>7, <1>8, <1>9, <1>10 DEF ReachIInv

\* An inner call returns: its includer holds what it held, and it waited for
\* nothing any more.
LEMMA InnerReaches == ASSUME IInv, ReachIInv, Return, Len(stack) # 1 PROVE ReachIInv'
<1> DEFINE n == Len(stack)
           m == n - 1
<1>1. /\ n \in Nat /\ n > 1 /\ m \in Nat /\ stack[n].todo = <<>>
      /\ UNCHANGED <<project, visited, calling, loaded, program>>
      /\ stack' \in Seq(Call) /\ Len(stack') = m
  BY InnerShape
<1>2. \A a \in 1 .. m : stack'[a].todo = stack[a].todo /\ Longer(a)
  BY InnerShape
<1>3. \A a \in 1 .. m : \A i \in 1 .. Len(stack'[a].decls) :
         \/ i \in 1 .. Len(stack[a].decls) /\ stack'[a].decls[i].path = stack[a].decls[i].path
         \/ \E h \in 1 .. Len(stack[n].decls) : stack'[a].decls[i].path = stack[n].decls[h].path
  BY InnerShape
<1>4. \A h \in 1 .. Len(stack[n].decls) :
         \E i \in 1 .. Len(stack'[m].decls) : stack'[m].decls[i].path = stack[n].decls[h].path
  BY InnerShape
<1>5. (\A a \in 1 .. n : a \in 1 .. m \/ a = n) /\ (\A a \in 1 .. m : a \in 1 .. n) /\ m \in 1 .. m /\ n \in 1 .. n
      /\ 1 \in 1 .. m
  BY <1>1
<1>6. stack # <<>> /\ stack' # <<>> /\ calling = None
  BY <1>1 DEF Return
<1> HIDE DEF n, m
<1>7. ASSUME NEW p PROVE Held(p)' <=> Held(p)
  <2>1. ASSUME NEW a \in 1 .. m, NEW i \in 1 .. Len(stack'[a].decls), stack'[a].decls[i].path = p
        PROVE  \E b \in 1 .. n : \E j \in 1 .. Len(stack[b].decls) : stack[b].decls[j].path = p
    BY <1>3, <1>5, <2>1
  <2>2. ASSUME NEW a \in 1 .. n, NEW i \in 1 .. Len(stack[a].decls), stack[a].decls[i].path = p
        PROVE  \E b \in 1 .. m : \E j \in 1 .. Len(stack'[b].decls) : stack'[b].decls[j].path = p
    <3>1. CASE a \in 1 .. m
      BY <1>2, <2>2, <3>1, LongerHolds
    <3>2. CASE a = n
      BY <1>4, <1>5, <2>2, <3>2
    <3> QED BY <1>5, <3>1, <3>2
  <2>3. (\E a \in 1 .. m : \E i \in 1 .. Len(stack'[a].decls) : stack'[a].decls[i].path = p)
        <=> (\E a \in 1 .. n : \E i \in 1 .. Len(stack[a].decls) : stack[a].decls[i].path = p)
    BY <2>1, <2>2
  <2> QED BY <1>1, <2>3 DEF Held, n
<1>8. /\ \A line : Places(line)' = Places(line)
      /\ \A p : LeadsTo(p)' = LeadsTo(p)
      /\ \A p, line : OwnLine(p, line)' <=> OwnLine(p, line)
  BY <1>1, SameProject
<1>9. ASSUME NEW p, NEW q, Awaits(p, q) PROVE Awaits(p, q)'
  <2>1. PICK a \in 1 .. n : stack[a].path = p /\ \E k \in 1 .. Len(stack[a].todo) : q \in Places(stack[a].todo[k])
    BY <1>9 DEF Awaits, n
  <2>2. a # n
    BY <1>1, <2>1
  <2>3. a \in 1 .. m /\ stack'[a].path = stack[a].path /\ stack'[a].todo = stack[a].todo
    BY <1>2, <1>5, <2>2 DEF Longer
  <2> QED BY <1>1, <1>8, <2>1, <2>3 DEF Awaits
<1>10. HeldReadable' /\ WithinReach' /\ VisitedHeld'
  <2> DEFINE none == {}
  <2>1. none \in SUBSET Path
    OBVIOUS
  <2>2. \A p \in Path : Held(p)' <=> Held(p) \/ p \in none
    BY <1>7
  <2>3. visited' \subseteq visited \union none \union none
    BY <1>1
  <2>4. \A p \in none : Readable(p) => p \in visited
    OBVIOUS
  <2>5. \A p \in none : Readable(p)
    OBVIOUS
  <2>6. \A set \in SUBSET Path : project.start \in set /\ ClosedUnderIncludes(set) =>
            /\ none \subseteq set
            /\ calling' # None /\ project.at[calling'] # NoFile => calling' \in set
    BY <1>1, <1>6
  <2> HIDE DEF none
  <2> QED BY <1>1, <2>1, <2>2, <2>3, <2>4, <2>5, <2>6, Grow
<1>11. FollowedUp'
  BY <1>1, <1>7, <1>8, <1>9 DEF ReachIInv, FollowedUp
<1>12. OwnLines'
  <2>1. ASSUME NEW a \in 1 .. m, NEW k \in 1 .. Len(stack'[a].todo)
        PROVE  OwnLine(stack'[a].path, stack'[a].todo[k])
    <3>1. a \in 1 .. Len(stack) /\ stack'[a].path = stack[a].path /\ stack'[a].todo = stack[a].todo
      BY <1>2, <1>5 DEF Longer, n
    <3> QED BY <3>1 DEF ReachIInv, OwnLines
  <2> QED BY <1>1, <1>8, <2>1 DEF OwnLines
<1>13. StartFirst'
  <2>1. \A a \in 1 .. m : stack'[a].decls[1] = [path |-> stack'[a].path, included |-> FALSE]
    BY <1>2, <1>5, LongerFirst DEF ReachIInv, IInv, n
  <2>2. stack'[1].path = project.start
    BY <1>2, <1>5, <1>6 DEF ReachIInv, StartFirst, Longer
  <2>3. program' = <<>>
    BY <1>1, <1>6 DEF ReachIInv, BeginAndEnd
  <2> QED BY <1>1, <2>1, <2>2, <2>3 DEF StartFirst
<1>14. BeginAndEnd'
  BY <1>1, <1>6 DEF ReachIInv, BeginAndEnd
<1> QED BY <1>1, <1>10, <1>11, <1>12, <1>13, <1>14 DEF ReachIInv

\* Init.
LEMMA ReachInitially == IncludesInit => ReachIInv
<1> SUFFICES ASSUME IncludesInit PROVE ReachIInv
  OBVIOUS
<1>1. /\ project \in Projects /\ visited = {} /\ stack = <<>> /\ calling = project.start /\ loaded = FALSE
      /\ program = <<>>
  BY DEF IncludesInit
<1>2. Len(stack) = 0 /\ Len(program) = 0 /\ (\A a : a \in 1 .. 0 <=> FALSE)
  BY <1>1
<1>3. \A p : ~Held(p)
  BY <1>2 DEF Held
<1>4. HeldReadable /\ WithinReach /\ VisitedHeld /\ FollowedUp
  BY <1>1, <1>3 DEF HeldReadable, WithinReach, VisitedHeld, FollowedUp
<1>5. OwnLines /\ BeginAndEnd /\ StartFirst
  BY <1>1, <1>2 DEF OwnLines, BeginAndEnd, StartFirst
<1> QED BY <1>1, <1>4, <1>5 DEF ReachIInv

\* All steps together.
LEMMA StepReaches == IInv /\ ReachIInv /\ [IncludesNext]_includesVars => ReachIInv'
<1>1. ASSUME IInv, ReachIInv, UNCHANGED includesVars PROVE ReachIInv'
  <2>1. UNCHANGED <<project, visited, stack, calling, loaded, program>>
    BY <1>1 DEF includesVars
  <2>2. /\ \A p : Held(p)' <=> Held(p)
        /\ \A p, q : Awaits(p, q)' <=> Awaits(p, q)
        /\ OwnLines' <=> OwnLines
        /\ StartFirst' <=> StartFirst
    BY <2>1, SameHeld
  <2>3. /\ \A p : Readable(p)' <=> Readable(p)
        /\ \A p : LeadsTo(p)' = LeadsTo(p)
        /\ \A set : ClosedUnderIncludes(set)' <=> ClosedUnderIncludes(set)
    BY <2>1, SameProject
  <2>4. HeldReadable' /\ WithinReach' /\ VisitedHeld' /\ FollowedUp'
    BY <1>1, <2>1, <2>2, <2>3 DEF ReachIInv, HeldReadable, WithinReach, VisitedHeld, FollowedUp
  <2>5. BeginAndEnd'
    BY <1>1, <2>1 DEF ReachIInv, BeginAndEnd
  <2> QED BY <1>1, <2>1, <2>2, <2>4, <2>5 DEF ReachIInv
<1>2. ASSUME IInv, ReachIInv, Return PROVE ReachIInv'
  BY <1>2, LastReaches, InnerReaches
<1>3. ASSUME IInv, ReachIInv, Skip \/ IncludeStd \/ IncludeVendor \/ IncludeFile PROVE ReachIInv'
  BY <1>3, LinesReach
<1>4. ASSUME IInv, ReachIInv, Refuse PROVE ReachIInv'
  BY <1>4, RefuseReaches
<1>5. ASSUME IInv, ReachIInv, Parse PROVE ReachIInv'
  BY <1>5, ParseReaches
<1> QED BY <1>1, <1>2, <1>3, <1>4, <1>5 DEF IncludesNext

\* What a file leads to is found somewhere.
LEMMA Placed ==
    ASSUME IncludesTypeOK, NEW p \in Path, Readable(p), NEW q \in LeadsTo(p)
    PROVE  q # None /\ q \in Path /\ project.at[q] # NoFile
<1>1. /\ project.includes \in [File -> Seq(Include)]
      /\ project.at \in [Path -> File \union {NoFile}]
  BY DEF IncludesTypeOK, Project
<1>2. project.includes[project.at[p]] \in Seq(Include)
  BY <1>1 DEF Readable
<1>3. q # None
  BY LinesLead
<1>4. PICK l \in DOMAIN project.includes[project.at[p]] : q \in Places(project.includes[project.at[p]][l])
  BY LinesLead
<1> DEFINE line == project.includes[project.at[p]][l]
<1>5. line \in Include
  BY <1>2, <1>4, LenProperties, ElementOfSeq
<1>6. line.hyi \in Seq(Path) /\ line.hy \in Seq(Path)
  BY <1>5 DEF Include
<1> HIDE DEF line
<1>7. q = FirstExisting(line.hyi) \/ q = FirstExisting(line.hy)
  BY <1>4 DEF Places, line
<1> QED BY <1>3, <1>6, <1>7, PlaceFound

\* What the invariant says of what is loaded.
LEMMA NothingTwice == IInv => Once
<1> SUFFICES ASSUME IInv PROVE Once
  OBVIOUS
<1>1. ASSUME NEW a \in DOMAIN stack, NEW b \in DOMAIN stack, stack[a].path = stack[b].path
      PROVE  a = b
  <2>1. stack \in Seq(Call)
    BY DEF IInv, IncludesTypeOK, Call
  <2>2. a \in 1 .. Len(stack) /\ b \in 1 .. Len(stack)
    BY <2>1, LenProperties
  <2>3. stack[a] \in Call /\ stack[b] \in Call
    BY <2>1, <2>2, ElementOfSeq
  <2>4. stack[a].decls \in Seq(Decl) /\ stack[b].decls \in Seq(Decl)
    BY <2>3 DEF Call
  <2>5. /\ stack[a].decls # <<>> /\ stack[a].decls[1].path = stack[a].path
        /\ stack[b].decls # <<>> /\ stack[b].decls[1].path = stack[b].path
    BY <2>2 DEF IInv, OwnFirst
  <2>6. 1 \in 1 .. Len(stack[a].decls) /\ 1 \in 1 .. Len(stack[b].decls)
    BY <2>4, <2>5, EmptySeq
  <2> QED BY <1>1, <2>2, <2>5, <2>6, Apart
<1>2. DOMAIN program = 1 .. Len(program)
  BY LenProperties DEF IInv, IncludesTypeOK
<1> QED BY <1>1, <1>2 DEF IInv, ProgramOnce, Once

\* Once the program is put together, it is what was held.
LEMMA ProgramHeld ==
    ASSUME IInv, ReachIInv, loaded, program # <<>>
    PROVE  /\ DOMAIN program = 1 .. Len(program)
           /\ \A p : Held(p) <=> p \in {program[i].path : i \in DOMAIN program}
           /\ \A p \in {program[i].path : i \in DOMAIN program} : p \in Path
           /\ \A p, q : ~Awaits(p, q)
           /\ calling = None
<1>1. stack = <<>> /\ calling = None
  BY DEF ReachIInv, BeginAndEnd
<1>2. program \in Seq(Decl) /\ DOMAIN program = 1 .. Len(program)
  BY LenProperties DEF IInv, IncludesTypeOK
<1>3. \A a : a \in 1 .. Len(stack) <=> FALSE
  BY <1>1
<1>4. ASSUME NEW i \in DOMAIN program
      PROVE  program[i].path \in Path
  <2>1. program[i] \in Decl
    BY <1>2, ElementOfSeq
  <2> QED BY <2>1 DEF Decl
<1> QED BY <1>1, <1>2, <1>3, <1>4 DEF Held, Awaits

\* Nothing is missing in it, and nothing else is in it.
LEMMA AllOfThem == IInv /\ ReachIInv => AllAndOnly
<1> DEFINE paths == {program[i].path : i \in DOMAIN program}
<1> SUFFICES ASSUME IInv, ReachIInv, loaded, program # <<>>
             PROVE  /\ \A p \in Path : p \in paths => Readable(p)
                    /\ \A p \in paths : \A q \in LeadsTo(p) : q \in paths \/ project.at[q] \in project.broken
                    /\ \A set \in SUBSET Path :
                           project.start \in set /\ ClosedUnderIncludes(set) => paths \subseteq set
  BY DEF AllAndOnly, Readable
<1>1. /\ \A p : Held(p) <=> p \in paths
      /\ \A p \in paths : p \in Path
      /\ \A p, q : ~Awaits(p, q)
      /\ calling = None
  BY ProgramHeld
<1> HIDE DEF paths
<1>2. \A p \in Path : p \in paths => Readable(p)
  BY <1>1 DEF ReachIInv, HeldReadable
<1>3. ASSUME NEW p \in paths, NEW q \in LeadsTo(p)
      PROVE  q \in paths \/ project.at[q] \in project.broken
  <2>1. p \in Path /\ Readable(p)
    BY <1>1, <1>2
  <2>2. q # None /\ q \in Path /\ project.at[q] # NoFile
    BY <2>1, Placed DEF IInv
  <2>3. q \in visited
    BY <1>1, <2>1, <2>2 DEF ReachIInv, FollowedUp
  <2> QED BY <1>1, <2>2, <2>3 DEF ReachIInv, VisitedHeld, Readable
<1>4. \A set \in SUBSET Path : project.start \in set /\ ClosedUnderIncludes(set) => paths \subseteq set
  BY <1>1 DEF ReachIInv, WithinReach
<1> QED BY <1>2, <1>3, <1>4

-----------------------------------------------------------------------------
(* The removal, on its own.                                                *)

\* Looking for a name finds the first function that has it, or 0.
LEMMA FindFinds ==
    ASSUME funcs \in Seq(Func), NEW name
    PROVE  Find(name) \in Spans \union {0}
<1>1. CASE \E f \in Spans : funcs[f].name = name
  <2> DEFINE T == {f \in Spans : funcs[f].name = name}
  <2>1. Spans = 1..Len(funcs) /\ Len(funcs) \in Nat
    BY DEF Spans
  <2>2. PICK x \in T : \A y \in T : x <= y
    <3>1. T \in SUBSET (1..Len(funcs)) /\ T # {}
      BY <1>1, <2>1
    <3> HIDE DEF T
    <3> QED BY <2>1, <3>1, Earliest
  <2>3. \E f \in Spans : /\ funcs[f].name = name
                         /\ \A g \in Spans : g < f => funcs[g].name # name
    <3>1. ASSUME NEW g \in Spans, g < x
          PROVE  funcs[g].name # name
      BY <2>1, <2>2, <3>1
    <3> QED BY <2>2, <3>1
  <2> QED BY <1>1, <2>3 DEF Find
<1>2. CASE ~ \E f \in Spans : funcs[f].name = name
  BY <1>2 DEF Find
<1> QED BY <1>1, <1>2

-----------------------------------------------------------------------------
\* The first k instructions of f lead to nothing but reachable functions.
Followed(f, k) == \A i \in 1..k : Callee(f, i) \in reachable \union {0}

\* What each phase has done.
Phases ==
    /\ phase = "begin" => reachable = {} /\ work = <<>> /\ cur = 0 /\ next = 1 /\ kept = <<>>
    /\ phase = "roots" =>
           /\ reachable = {f \in Strong : f < next}
           /\ \A f \in reachable : \E i \in DOMAIN work : work[i] = f
           /\ cur = 0 /\ kept = <<>>
    /\ phase = "close" => Strong \subseteq reachable /\ next = 1 /\ kept = <<>>
    /\ phase = "compact" => Strong \subseteq reachable /\ ClosedUnderUse(reachable)
    /\ phase = "compact" => Kept = {f \in reachable : f < next}
    /\ phase = "done" => \/ Kept = Spans /\ (weak = {} \/ funcs = <<>>)
                         \/ Kept = reachable /\ Strong \subseteq reachable /\ ClosedUnderUse(reachable)

\* A reachable function waits on the stack, is being looked at, or leads to
\* reachable functions only.
Looked ==
    phase = "close" =>
        /\ \A f \in reachable : \/ f = cur
                                \/ \E i \in DOMAIN work : work[i] = f
                                \/ Followed(f, Len(funcs[f].refs))
        /\ cur # 0 => Followed(cur, at - 1)

\* Nothing waits that is not reachable, nor twice.
Waiting ==
    /\ \A i \in DOMAIN work : work[i] \in reachable
    /\ cur \in reachable \union {0}
    /\ \A i \in DOMAIN work : work[i] # cur
    /\ \A i, j \in DOMAIN work : work[i] = work[j] => i = j

\* Every set that the user's functions need contains what is reachable.
Least ==
    \A set \in SUBSET Spans : Strong \subseteq set /\ ClosedUnderUse(set) => reachable \subseteq set

\* The compaction has written no more than it has read.
Behind ==
    /\ \A i, j \in DOMAIN kept : i < j => kept[i] < kept[j]
    /\ phase = "compact" => \A i \in DOMAIN kept : kept[i] < next
    /\ Len(kept) < next \/ phase = "done"

StripIInv == TypeOK /\ Phases /\ Looked /\ Waiting /\ Least /\ Behind

-----------------------------------------------------------------------------
\* What the type invariant says of one function.
LEMMA FuncsAre ==
    ASSUME TypeOK
    PROVE  \A f \in Spans : funcs[f].name \in Name /\ funcs[f].refs \in Seq(Ref)
<1>1. \A f \in Spans : funcs[f] \in Func
  BY DEF TypeOK, Spans
<1> QED BY <1>1 DEF Func

\* What an instruction counts as a use of is what its code refers to.
LEMMA TargetRefers ==
    ASSUME TypeOK, NEW f \in Spans, NEW i \in DOMAIN funcs[f].refs
    PROVE  /\ Callee(f, i) \in Spans \union {0}
           /\ funcs[f].refs[i].op = "asm" => Callee(f, i) = 0
           /\ funcs[f].refs[i].op # "asm" => Callee(f, i) = Find(Refers(funcs[f].refs[i]))
<1> DEFINE ref == funcs[f].refs[i]
<1>1. ref \in Ref
  BY FuncsAre
<1>2. Callee(f, i) \in Spans \union {0}
  BY FindFinds DEF Callee, TypeOK
<1>3. CASE ref.op = "asm"
  <2>1. Target(ref) = Nobody
    BY <1>3 DEF Target
  <2>2. \A g \in Spans : funcs[g].name # Nobody
    BY StripAssumption, FuncsAre
  <2>3. Find(Nobody) = 0
    BY <2>2 DEF Find
  <2> QED BY <1>2, <1>3, <2>1, <2>3 DEF Callee
<1>4. CASE ref.op # "asm"
  <2>1. Target(ref) = Refers(ref)
    BY <1>1, <1>4 DEF Target, Refers, Ref
  <2> QED BY <1>2, <1>4, <2>1 DEF Callee
<1> QED BY <1>3, <1>4

\* A set is closed under use when every instruction of its functions leads
\* into it.
LEMMA ClosedByCallees ==
    ASSUME TypeOK, NEW set \in SUBSET Spans
    PROVE  ClosedUnderUse(set) <=>
               \A f \in set : \A i \in DOMAIN funcs[f].refs : Callee(f, i) \in set \union {0}
<1>1. ASSUME NEW f \in set, NEW i \in DOMAIN funcs[f].refs
      PROVE  (funcs[f].refs[i].op # "asm" => Find(Refers(funcs[f].refs[i])) \in set \union {0})
             <=> Callee(f, i) \in set \union {0}
  BY <1>1, TargetRefers
<1> QED BY <1>1 DEF ClosedUnderUse

\* Any functions and names are a beginning.
StripBegins ==
    /\ funcs \in Seq(Func) /\ weak \subseteq Name
    /\ phase = "begin"
    /\ reachable = {} /\ work = <<>> /\ cur = 0 /\ at = 0 /\ next = 1 /\ kept = <<>>

\* The invariant holds at the start, of any functions and names.
LEMMA Beginning == StripBegins => StripIInv
<1> SUFFICES ASSUME StripBegins PROVE StripIInv
  OBVIOUS
<1> USE DEF StripBegins
<1>1. TypeOK
  BY DEF TypeOK, Spans
<1>2. Phases /\ Looked /\ Waiting /\ Least /\ Behind
  BY DEF Phases, Looked, Waiting, Least, Behind
<1> QED BY <1>1, <1>2 DEF StripIInv

\* The invariant of the removal holds at the start.
LEMMA StripInitially == StripInit => StripIInv
<1> SUFFICES ASSUME StripInit PROVE StripIInv
  OBVIOUS
<1>1. PICK m \in Modules : funcs = m.funcs /\ weak = m.weak
  BY DEF StripInit
<1>2. funcs \in Seq(Func) /\ weak \subseteq Name
  BY <1>1, StripAssumption
<1> QED BY <1>2, Beginning DEF StripInit, StripBegins

-----------------------------------------------------------------------------
(* One lemma for each action of the removal.                               *)

\* What the actions that leave the functions alone leave alone with them.
LEMMA Static ==
    ASSUME UNCHANGED <<funcs, weak>>
    PROVE  /\ Spans' = Spans /\ Strong' = Strong
           /\ \A f : IsWeak(f)' <=> IsWeak(f)
           /\ \A f, i : Callee(f, i)' = Callee(f, i)
           /\ \A set : ClosedUnderUse(set)' <=> ClosedUnderUse(set)
BY DEF Spans, Strong, IsWeak, Callee, ClosedUnderUse, Find

\* The least closed set depends on the module only.
LEMMA LeastStays == Least /\ UNCHANGED <<funcs, weak, reachable>> => Least'
<1> SUFFICES ASSUME Least, UNCHANGED <<funcs, weak, reachable>> PROVE Least'
  OBVIOUS
<1>1. ASSUME NEW set \in (SUBSET Spans)', Strong' \subseteq set, ClosedUnderUse(set)'
      PROVE  reachable' \subseteq set
  BY <1>1, Static DEF Least
<1> QED BY <1>1, Zenon DEF Least

\* Without functions, or without names from includes, all is kept.
LEMMA NothingToDoKeeps == StripIInv /\ NothingToDo => StripIInv'
<1> SUFFICES ASSUME StripIInv, NothingToDo PROVE StripIInv'
  OBVIOUS
<1> USE DEF NothingToDo, StripIInv
<1>1. Spans = 1..Len(funcs) /\ Len(funcs) \in Nat /\ Spans' = Spans
  BY DEF TypeOK, Spans
<1>2. kept' \in Seq(Spans) /\ DOMAIN kept' = Spans /\ \A i \in Spans : kept'[i] = i
  BY <1>1
<1>3. TypeOK'
  BY <1>1, <1>2 DEF TypeOK
<1>4. Kept' = Spans
  BY <1>2 DEF Kept
<1>8. Phases'
  BY <1>1, <1>4 DEF Phases
<1>9. Looked' /\ Waiting' /\ Behind'
  BY <1>1, <1>2 DEF Looked, Waiting, Behind, Phases
<1>10. Least'
  BY LeastStays
<1> QED BY <1>3, <1>8, <1>9, <1>10

\* The scan for roots begins with nothing marked.
LEMMA BeginKeeps == StripIInv /\ Begin => StripIInv'
<1> SUFFICES ASSUME StripIInv, Begin PROVE StripIInv'
  OBVIOUS
<1> USE DEF Begin, StripIInv
<1>1. TypeOK'
  BY DEF TypeOK, Spans
<1>2. Phases'
  <2>1. Strong' = Strong
    BY DEF Strong, Spans, IsWeak
  <2> QED BY <2>1 DEF Phases, Strong, TypeOK, Spans
<1>3. Looked' /\ Waiting' /\ Behind'
  BY DEF Looked, Waiting, Behind, Phases
<1>4. Least'
  BY LeastStays
<1> QED BY <1>1, <1>2, <1>3, <1>4

\* What pushing one more function on the stack, and marking it, preserves.
LEMMA Push ==
    ASSUME TypeOK, Waiting, NEW f \in Spans, f \notin reachable,
           reachable' = reachable \union {f}, work' = Append(work, f), cur' = cur
    PROVE  /\ work' \in Seq(Spans)
           /\ \A g : (\E i \in DOMAIN work' : work'[i] = g)
                      <=> g = f \/ \E i \in DOMAIN work : work[i] = g
           /\ Waiting'
<1>1. /\ work' \in Seq(Spans) /\ Len(work) \in Nat
      /\ DOMAIN work = 1..Len(work) /\ DOMAIN work' = 1..(Len(work) + 1)
      /\ work'[Len(work) + 1] = f
      /\ \A i \in 1..Len(work) : work'[i] = work[i]
  BY DEF TypeOK
<1>2. f # 0 /\ f # cur
  BY DEF TypeOK, Spans, Waiting
<1>3. \A i \in DOMAIN work' : (i \in DOMAIN work /\ work'[i] = work[i]) \/ (i = Len(work) + 1 /\ work'[i] = f)
  BY <1>1
<1>4. \A g : (\E i \in DOMAIN work' : work'[i] = g) <=> g = f \/ \E i \in DOMAIN work : work[i] = g
  <2>1. Len(work) + 1 \in DOMAIN work'
    BY <1>1
  <2>2. \A i \in DOMAIN work : i \in DOMAIN work' /\ work'[i] = work[i]
    BY <1>1
  <2> QED BY <1>1, <1>3, <2>1, <2>2, Zenon
<1>5. \A i \in DOMAIN work : work[i] # f
  BY DEF Waiting
<1>6. (\A i \in DOMAIN work' : work'[i] \in reachable') /\ cur' \in reachable' \union {0}
  BY <1>3 DEF Waiting
<1>7. \A i \in DOMAIN work' : work'[i] # cur'
  BY <1>2, <1>3 DEF Waiting
<1>8. ASSUME NEW i \in DOMAIN work', NEW j \in DOMAIN work', work'[i] = work'[j]
      PROVE  i = j
  BY <1>3, <1>5, <1>8 DEF Waiting
<1>9. Waiting'
  BY <1>6, <1>7, <1>8 DEF Waiting
<1> QED BY <1>1, <1>4, <1>9

\* A root is marked and pushed once.
LEMMA RootKeeps == StripIInv /\ Root => StripIInv'
<1> SUFFICES ASSUME StripIInv, Root PROVE StripIInv'
  OBVIOUS
<1> USE DEF StripIInv
<1>0. /\ phase = "roots" /\ next <= Len(funcs) /\ next' = next + 1
      /\ UNCHANGED <<funcs, weak, phase, cur, at, kept>>
      /\ IF IsWeak(next)
         THEN UNCHANGED <<reachable, work>>
         ELSE reachable' = reachable \union {next} /\ work' = Append(work, next)
  BY DEF Root
<1>1. Spans = 1..Len(funcs) /\ Len(funcs) \in Nat /\ next \in Spans
  BY <1>0 DEF TypeOK, Spans
<1>2. /\ Spans' = Spans /\ Strong' = Strong
      /\ \A set : ClosedUnderUse(set)' <=> ClosedUnderUse(set)
  BY <1>0, Static
<1>3. CASE IsWeak(next)
  <2>1. TypeOK'
    <3>1. cur' = 0 /\ reachable' = reachable /\ work' = work /\ next' \in 1..(Len(funcs) + 1)
      BY <1>0, <1>1, <1>3 DEF Phases
    <3> QED BY <1>0, <1>2, <3>1 DEF TypeOK
  <2>2. Phases'
    BY <1>0, <1>1, <1>2, <1>3 DEF Phases, Strong, TypeOK
  <2>3. Looked' /\ Waiting' /\ Behind'
    BY <1>0, <1>1, <1>3 DEF Looked, Waiting, Behind, Phases, TypeOK
  <2>4. Least'
    BY <1>0, <1>3, LeastStays
  <2> QED BY <2>1, <2>2, <2>3, <2>4
<1>4. CASE ~IsWeak(next)
  <2>0. reachable' = reachable \union {next} /\ work' = Append(work, next)
    BY <1>0, <1>4
  <2>1. next \notin reachable /\ cur' = cur
    BY <1>0, <1>1 DEF Phases
  <2>2. /\ work' \in Seq(Spans) /\ Waiting'
        /\ \A g : (\E i \in DOMAIN work' : work'[i] = g)
                   <=> g = next \/ \E i \in DOMAIN work : work[i] = g
    BY <1>1, <2>0, <2>1, Push
  <2>3. TypeOK'
    BY <1>0, <1>1, <1>2, <2>0, <2>2 DEF TypeOK, Phases
  <2>4. next \in Strong /\ reachable' = {f \in Strong : f < next'}
    BY <1>0, <1>1, <1>4, <2>0 DEF Phases, Strong
  <2>5. \A f \in reachable' : \E i \in DOMAIN work' : work'[i] = f
    BY <1>0, <2>0, <2>2 DEF Phases
  <2>6. Phases'
    BY <1>0, <1>2, <2>4, <2>5 DEF Phases
  <2>7. Looked' /\ Behind'
    BY <1>0, <1>1 DEF Looked, Behind, Phases
  <2>8. Least'
    BY <1>0, <1>2, <2>4, Zenon DEF Least
  <2> QED BY <2>2, <2>3, <2>6, <2>7, <2>8
<1> QED BY <1>3, <1>4

\* When the roots are through, what is marked is reachable, and waits.
LEMMA RootsDoneKeeps == StripIInv /\ RootsDone => StripIInv'
<1> SUFFICES ASSUME StripIInv, RootsDone PROVE StripIInv'
  OBVIOUS
<1> USE DEF RootsDone, StripIInv
<1>1. Spans = 1..Len(funcs) /\ Len(funcs) \in Nat
  BY DEF TypeOK, Spans
<1>2. Spans' = Spans /\ Strong' = Strong
  BY Static
<1>3. TypeOK'
  BY <1>1, <1>2 DEF TypeOK
<1>4. Strong \subseteq reachable
  BY <1>1 DEF Phases, Strong, TypeOK
<1>5. Phases'
  BY <1>2, <1>4 DEF Phases
<1>6. Looked' /\ Waiting' /\ Behind'
  BY DEF Looked, Waiting, Behind, Phases
<1>7. Least'
  BY LeastStays
<1> QED BY <1>3, <1>5, <1>6, <1>7

\* The function that is taken off the stack is looked at from its first instruction.
LEMMA TakeKeeps == StripIInv /\ Take => StripIInv'
<1> SUFFICES ASSUME StripIInv, Take PROVE StripIInv'
  OBVIOUS
<1> USE DEF Take, StripIInv
<1>1. Spans' = Spans /\ Strong' = Strong /\ \A f, i : Callee(f, i)' = Callee(f, i)
  BY Static
<1>2. /\ Len(work) \in Nat \ {0} /\ DOMAIN work = 1..Len(work)
      /\ work' \in Seq(Spans) /\ DOMAIN work' = 1..(Len(work) - 1)
      /\ \A i \in DOMAIN work' : work'[i] = work[i]
      /\ cur' \in Spans
  BY DEF TypeOK
<1>3. funcs[cur'].refs \in Seq(Ref) /\ 0 \notin Spans
  BY <1>2, FuncsAre DEF TypeOK, Spans
<1>4. TypeOK'
  BY <1>1, <1>2, <1>3 DEF TypeOK
<1>5. Phases'
  BY <1>1, <1>2 DEF Phases
<1>6. Waiting'
  BY <1>2 DEF Waiting
<1>7. Looked'
  <2>1. ASSUME NEW f \in reachable
        PROVE  f = cur' \/ (\E i \in DOMAIN work' : work'[i] = f) \/ Followed(f, Len(funcs[f].refs))
    <3>1. CASE \E i \in DOMAIN work : work[i] = f
      BY <1>2, <3>1
    <3>2. f # cur
      BY <1>3 DEF TypeOK
    <3> QED BY <2>1, <3>1, <3>2 DEF Looked
  <2>2. \A f, k : Followed(f, k)' <=> Followed(f, k)
    BY <1>1 DEF Followed
  <2>3. Followed(cur', 0)
    BY DEF Followed
  <2> QED BY <2>1, <2>2, <2>3 DEF Looked
<1>8. Behind' /\ Least'
  BY LeastStays DEF Behind, Phases
<1> QED BY <1>4, <1>5, <1>6, <1>7, <1>8

\* What an instruction refers to is marked and waits, or was marked before.
LEMMA VisitKeeps == StripIInv /\ Visit => StripIInv'
<1> SUFFICES ASSUME StripIInv, Visit PROVE StripIInv'
  OBVIOUS
<1> USE DEF StripIInv
<1> DEFINE callee == Callee(cur, at)
<1>0. /\ phase = "close" /\ cur # 0 /\ at <= Len(funcs[cur].refs) /\ at' = at + 1
      /\ UNCHANGED <<funcs, weak, phase, cur, next, kept>>
      /\ IF callee = 0 \/ callee \in reachable
         THEN UNCHANGED <<reachable, work>>
         ELSE reachable' = reachable \union {callee} /\ work' = Append(work, callee)
  BY DEF Visit, Looking
<1>1. /\ Spans' = Spans /\ Strong' = Strong
      /\ \A f, i : Callee(f, i)' = Callee(f, i)
      /\ \A set : ClosedUnderUse(set)' <=> ClosedUnderUse(set)
  BY <1>0, Static
<1>2. cur \in Spans /\ funcs[cur].refs \in Seq(Ref) /\ at \in 1..Len(funcs[cur].refs)
  BY <1>0, FuncsAre DEF TypeOK
<1>3. at \in DOMAIN funcs[cur].refs /\ callee \in Spans \union {0}
  BY <1>2, TargetRefers
<1>4. callee \in reachable' \union {0} /\ reachable \subseteq reachable'
  BY <1>0
<1>5. Followed(cur, at - 1)'
  <2>1. ASSUME NEW i \in 1..at PROVE Callee(cur, i) \in reachable' \union {0}
    <3>1. CASE i = at
      BY <1>4, <3>1
    <3>2. CASE i \in 1..(at - 1)
      BY <1>0, <1>4, <3>2 DEF Looked, Followed
    <3> QED BY <1>2, <3>1, <3>2
  <2>2. at' - 1 = at /\ cur' = cur
    BY <1>0, <1>2
  <2> QED BY <1>1, <1>2, <2>1, <2>2 DEF Followed
<1>6. CASE callee = 0 \/ callee \in reachable
  <2>0. UNCHANGED <<reachable, work>>
    BY <1>0, <1>6
  <2>1. TypeOK'
    BY <1>0, <1>1, <1>2, <2>0 DEF TypeOK
  <2>2. Phases' /\ Waiting' /\ Behind'
    BY <1>0, <1>1, <2>0 DEF Phases, Waiting, Behind
  <2>3. \A f, k : Followed(f, k)' <=> Followed(f, k)
    BY <1>1, <2>0 DEF Followed
  <2>5. Looked'
    BY <1>0, <1>5, <2>0, <2>3 DEF Looked
  <2>6. Least'
    BY <1>0, <2>0, LeastStays
  <2> QED BY <2>1, <2>2, <2>5, <2>6
<1>7. CASE callee # 0 /\ callee \notin reachable
  <2>0. reachable' = reachable \union {callee} /\ work' = Append(work, callee)
        /\ callee \in Spans
    BY <1>0, <1>3, <1>7
  <2>1. /\ work' \in Seq(Spans) /\ Waiting'
        /\ \A g : (\E i \in DOMAIN work' : work'[i] = g)
                   <=> g = callee \/ \E i \in DOMAIN work : work[i] = g
    <3> HIDE DEF callee
    <3> QED BY <1>0, <1>7, <2>0, Push
  <2>2. TypeOK'
    BY <1>0, <1>1, <1>2, <2>0, <2>1 DEF TypeOK
  <2>3. Phases' /\ Behind'
    BY <1>0, <1>1, <2>0 DEF Phases, Behind
  <2>4. \A f, k : Followed(f, k) => Followed(f, k)'
    BY <1>1, <1>4 DEF Followed
  <2>5. Looked'
    <3>1. ASSUME NEW f \in reachable'
          PROVE  \/ f = cur'
                 \/ \E i \in DOMAIN work' : work'[i] = f
                 \/ Followed(f, Len(funcs[f].refs))'
      BY <1>0, <2>0, <2>1, <2>4, <3>1 DEF Looked
    <3> QED BY <1>0, <1>5, <3>1 DEF Looked
  <2>6. Least'
    <3>1. ASSUME NEW set \in SUBSET Spans, Strong \subseteq set, ClosedUnderUse(set)
          PROVE  reachable' \subseteq set
      <4>1. cur \in reachable /\ reachable \subseteq set
        BY <1>0, <3>1 DEF Waiting, Least
      <4>2. callee \in set
        BY <1>3, <1>7, <3>1, <4>1, ClosedByCallees
      <4> QED BY <2>0, <4>1, <4>2
    <3> QED BY <1>1, <3>1, Zenon DEF Least
  <2> QED BY <2>1, <2>2, <2>3, <2>5, <2>6
<1> QED BY <1>6, <1>7

\* A function that has been looked at to its end has nothing unmarked ahead.
LEMMA LeaveKeeps == StripIInv /\ Leave => StripIInv'
<1> SUFFICES ASSUME StripIInv, Leave PROVE StripIInv'
  OBVIOUS
<1> USE DEF StripIInv
<1>0. /\ phase = "close" /\ cur # 0 /\ at > Len(funcs[cur].refs) /\ cur' = 0 /\ at' = 0
      /\ UNCHANGED <<funcs, weak, phase, reachable, work, next, kept>>
  BY DEF Leave, Looking
<1>1. /\ Spans' = Spans /\ Strong' = Strong
      /\ \A f, i : Callee(f, i)' = Callee(f, i)
  BY <1>0, Static
<1>2. Len(funcs[cur].refs) \in Nat /\ at = Len(funcs[cur].refs) + 1
  <2>1. cur \in Spans
    BY <1>0 DEF TypeOK
  <2>2. funcs[cur].refs \in Seq(Ref)
    BY <2>1, FuncsAre
  <2>3. Len(funcs[cur].refs) \in Nat
    BY <2>2
  <2>4. at \in 1..(Len(funcs[cur].refs) + 1)
    BY <1>0 DEF TypeOK
  <2> HIDE DEF StripIInv
  <2> QED BY <1>0, <2>3, <2>4
<1>3. TypeOK'
  BY <1>0, <1>1 DEF TypeOK
<1>4. Phases' /\ Behind'
  BY <1>0, <1>1 DEF Phases, Behind
<1>5. Waiting'
  BY <1>0 DEF Waiting, TypeOK, Spans
<1>6. \A f, k : Followed(f, k)' <=> Followed(f, k)
  BY <1>0, <1>1 DEF Followed
<1>7. Followed(cur, Len(funcs[cur].refs))
  BY <1>0, <1>2 DEF Looked
<1>8. Looked'
  BY <1>0, <1>6, <1>7 DEF Looked
<1>9. Least'
  BY <1>0, LeastStays
<1> QED BY <1>3, <1>4, <1>5, <1>8, <1>9

\* An empty stack means that the marked functions are closed under references.
LEMMA ClosedKeeps == StripIInv /\ Closed => StripIInv'
<1> SUFFICES ASSUME StripIInv, Closed PROVE StripIInv'
  OBVIOUS
<1> USE DEF StripIInv
<1>0. /\ phase = "close" /\ cur = 0 /\ work = <<>> /\ phase' = "compact"
      /\ UNCHANGED <<funcs, weak, reachable, work, cur, at, next, kept>>
  BY DEF Closed
<1>1. /\ Spans' = Spans /\ Strong' = Strong
      /\ \A set : ClosedUnderUse(set)' <=> ClosedUnderUse(set)
  BY <1>0, Static
<1>2. TypeOK'
  BY <1>0, <1>1 DEF TypeOK
<1>3. ClosedUnderUse(reachable)
  <2>1. \A f \in reachable : f \in Spans /\ Followed(f, Len(funcs[f].refs))
    BY <1>0 DEF Looked, TypeOK, Spans
  <2>2. \A f \in reachable : DOMAIN funcs[f].refs = 1..Len(funcs[f].refs)
    BY <2>1, FuncsAre
  <2>3. \A f \in reachable : \A i \in DOMAIN funcs[f].refs : Callee(f, i) \in reachable \union {0}
    BY <2>1, <2>2 DEF Followed
  <2> QED BY <2>3, ClosedByCallees DEF TypeOK
<1>4. Kept' = {f \in reachable' : f < next'}
  <2>1. kept' = <<>> /\ next' = 1 /\ reachable' = reachable
    BY <1>0 DEF Phases
  <2>2. \A f \in reachable : ~ (f < 1)
    BY DEF TypeOK, Spans
  <2> QED BY <2>1, <2>2 DEF Kept
<1>5. Phases'
  BY <1>0, <1>1, <1>3, <1>4 DEF Phases
<1>6. Looked' /\ Waiting' /\ Behind'
  BY <1>0 DEF Looked, Waiting, Behind, Phases
<1>7. Least'
  BY <1>0, LeastStays
<1> QED BY <1>2, <1>5, <1>6, <1>7

\* The compaction copies a survivor to where the survivors before it end.
LEMMA CompactKeeps == StripIInv /\ Compact => StripIInv'
<1> SUFFICES ASSUME StripIInv, Compact PROVE StripIInv'
  OBVIOUS
<1> USE DEF StripIInv
<1>0. /\ phase = "compact" /\ next <= Len(funcs) /\ next' = next + 1
      /\ kept' = IF Dropped(next) THEN kept ELSE Append(kept, next)
      /\ UNCHANGED <<funcs, weak, phase, reachable, work, cur, at>>
  BY DEF Compact
<1>1. /\ Spans' = Spans /\ Strong' = Strong
      /\ \A set : ClosedUnderUse(set)' <=> ClosedUnderUse(set)
  BY <1>0, Static
<1>2. Spans = 1..Len(funcs) /\ Len(funcs) \in Nat /\ next \in Spans
  BY <1>0 DEF TypeOK, Spans
<1>3. Dropped(next) <=> next \notin reachable
  BY <1>0, <1>2 DEF Dropped, Phases, Strong
<1>4. Least' /\ Waiting' /\ Looked'
  BY <1>0, LeastStays DEF Waiting, Looked
<1>5. CASE next \notin reachable
  <2>0. kept' = kept
    BY <1>0, <1>3, <1>5
  <2>1. TypeOK'
    BY <1>0, <1>1, <1>2, <2>0 DEF TypeOK
  <2>2. Kept' = {f \in reachable' : f < next'}
    <3>1. Kept' = Kept /\ reachable' = reachable /\ reachable \subseteq 1..Len(funcs)
      BY <1>0, <1>2, <2>0 DEF Kept, TypeOK
    <3>2. Kept = {f \in reachable : f < next}
      BY <1>0 DEF Phases
    <3>3. \A f \in reachable : f < next' <=> f < next
      BY <1>0, <1>2, <1>5, <3>1
    <3> QED BY <3>1, <3>2, <3>3, Zenon
  <2>3. Phases'
    BY <1>0, <1>1, <2>2 DEF Phases
  <2>4. Behind'
    BY <1>0, <1>2, <2>0 DEF Behind, TypeOK, Spans
  <2> QED BY <1>4, <2>1, <2>3, <2>4
<1>6. CASE next \in reachable
  <2>0. kept' = Append(kept, next)
    BY <1>0, <1>3, <1>6
  <2>1. /\ kept' \in Seq(Spans) /\ Len(kept) \in Nat /\ Len(kept') = Len(kept) + 1
        /\ DOMAIN kept = 1..Len(kept) /\ DOMAIN kept' = 1..(Len(kept) + 1)
        /\ kept'[Len(kept) + 1] = next
        /\ \A i \in 1..Len(kept) : kept'[i] = kept[i]
    BY <1>2, <2>0 DEF TypeOK
  <2>2. \A i \in DOMAIN kept' : (i \in DOMAIN kept /\ kept'[i] = kept[i]) \/ (i = Len(kept) + 1 /\ kept'[i] = next)
    BY <2>1
  <2>3. TypeOK'
    BY <1>0, <1>1, <1>2, <2>1 DEF TypeOK
  <2>4. Kept' = Kept \union {next}
    <3>1. Len(kept) + 1 \in DOMAIN kept'
      BY <2>1
    <3>2. \A i \in DOMAIN kept : i \in DOMAIN kept' /\ kept'[i] = kept[i]
      BY <2>1
    <3> QED BY <2>1, <2>2, <3>1, <3>2 DEF Kept
  <2>5. Kept' = {f \in reachable' : f < next'}
    <3>1. reachable' = reachable /\ reachable \subseteq 1..Len(funcs)
      BY <1>0, <1>2 DEF TypeOK
    <3>2. Kept = {f \in reachable : f < next}
      BY <1>0 DEF Phases
    <3>3. \A f \in 1..Len(funcs) : f < next' <=> f < next \/ f = next
      BY <1>0, <1>2
    <3>4. \A f \in reachable' : f < next' <=> f < next \/ f = next
      BY <3>1, <3>3
    <3>5. Kept' = {f \in reachable' : f < next \/ f = next}
      BY <1>6, <2>4, <3>1, <3>2, Zenon
    <3> QED BY <3>4, <3>5, Zenon
  <2>6. Phases'
    BY <1>0, <1>1, <2>5 DEF Phases
  <2>7. Behind'
    <3>1. \A i \in DOMAIN kept : kept[i] < next /\ kept[i] \in Nat
      BY <1>0, <1>2 DEF Behind, TypeOK
    <3>2. \A i, j \in DOMAIN kept' : i < j => kept'[i] < kept'[j]
      BY <2>1, <2>2, <3>1 DEF Behind
    <3>3. \A i \in DOMAIN kept' : kept'[i] < next'
      BY <1>0, <1>2, <2>2, <3>1
    <3>4. Len(kept') < next'
      BY <1>0, <1>2, <2>1 DEF Behind
    <3> QED BY <3>2, <3>3, <3>4 DEF Behind
  <2> QED BY <1>4, <2>3, <2>6, <2>7
<1> QED BY <1>5, <1>6

\* The module is cut after the last survivor.
LEMMA FinishKeeps == StripIInv /\ Finish => StripIInv'
<1> SUFFICES ASSUME StripIInv, Finish PROVE StripIInv'
  OBVIOUS
<1> USE DEF StripIInv
<1>0. /\ phase = "compact" /\ next > Len(funcs) /\ phase' = "done"
      /\ UNCHANGED <<funcs, weak, reachable, work, cur, at, next, kept>>
  BY DEF Finish
<1>1. /\ Spans' = Spans /\ Spans = 1..Len(funcs) /\ Len(funcs) \in Nat
      /\ \A set : ClosedUnderUse(set)' <=> ClosedUnderUse(set)
  BY <1>0, Static DEF TypeOK, Spans
<1>2. TypeOK'
  BY <1>0, <1>1 DEF TypeOK
<1>3. Kept = reachable /\ Kept' = Kept
  <2>1. Kept = {f \in reachable : f < next}
    BY <1>0 DEF Phases
  <2>2. \A f \in reachable : f < next
    BY <1>0, <1>1 DEF TypeOK
  <2>3. Kept' = Kept
    BY <1>0 DEF Kept
  <2> QED BY <2>1, <2>2, <2>3, Zenon
<1>4. Strong' = Strong /\ Strong \subseteq reachable /\ ClosedUnderUse(reachable)
  BY <1>0, Static DEF Phases
<1>5. Phases'
  <2>1. Kept' = reachable' /\ Strong' \subseteq reachable'
    BY <1>0, <1>3, <1>4
  <2>2. ClosedUnderUse(reachable)' <=> ClosedUnderUse(reachable)
    BY <1>0 DEF ClosedUnderUse, Find, Spans
  <2> QED BY <1>0, <1>4, <2>1, <2>2 DEF Phases
<1>6. Looked' /\ Waiting' /\ Behind'
  BY <1>0 DEF Looked, Waiting, Behind
<1>7. Least'
  BY <1>0, LeastStays
<1> QED BY <1>2, <1>5, <1>6, <1>7

-----------------------------------------------------------------------------
\* All steps of the removal together.
LEMMA StripKeeps == StripIInv /\ [StripNext]_stripVars => StripIInv'
<1>1. CASE UNCHANGED stripVars
  <2> SUFFICES ASSUME StripIInv, UNCHANGED stripVars PROVE StripIInv'
    BY <1>1
  <2>1. UNCHANGED <<funcs, weak, phase, reachable, work, cur, at, next, kept>>
    BY DEF stripVars
  <2>2. /\ Spans' = Spans /\ Strong' = Strong
        /\ \A f, i : Callee(f, i)' = Callee(f, i)
        /\ \A set : ClosedUnderUse(set)' <=> ClosedUnderUse(set)
    BY <2>1, Static
  <2>3. TypeOK' /\ Waiting' /\ Behind'
    BY <2>1, <2>2 DEF StripIInv, TypeOK, Waiting, Behind
  <2>4. Kept' = Kept /\ \A f, k : Followed(f, k)' <=> Followed(f, k)
    BY <2>1, <2>2 DEF Kept, Followed
  <2>5. Phases' /\ Looked' /\ Least'
    BY <2>1, <2>2, <2>4, LeastStays DEF StripIInv, Phases, Looked
  <2> QED BY <2>3, <2>5 DEF StripIInv
<1>2. StripIInv /\ StripNext => StripIInv'
  BY NothingToDoKeeps, BeginKeeps, RootKeeps, RootsDoneKeeps, TakeKeeps, VisitKeeps,
     LeaveKeeps, ClosedKeeps, CompactKeeps, FinishKeeps DEF StripNext
<1> QED BY <1>1, <1>2

-----------------------------------------------------------------------------
(* The closure ends.                                                       *)

Stage == [begin |-> 4, roots |-> 3, close |-> 2, compact |-> 1, done |-> 0][phase]

\* What a loop over all functions has to look at, or the closure to discover.
Ahead == IF phase = "close" THEN Cardinality(Spans \ reachable) ELSE Len(funcs) + 1 - next

\* What is left of the function that is being looked at, to leave it included.
Unread == IF cur = 0 THEN 0 ELSE Len(funcs[cur].refs) + 2 - at

\* What is left to do: phases, functions, those that wait, instructions.
StripLeft == <<Stage, Ahead, Len(work), Unread>>

\* The numbers that the removal counts down are natural.
LEMMA StripLeftFacts ==
    ASSUME StripIInv
    PROVE  /\ Stage \in Nat /\ Ahead \in Nat /\ Len(work) \in Nat /\ Unread \in Nat
           /\ cur # 0 => Unread > 0
           /\ Len(funcs) \in Nat /\ Spans = 1 .. Len(funcs) /\ next \in Nat
           /\ IsFiniteSet(Spans \ reachable) /\ Cardinality(Spans \ reachable) \in Nat
<1>1. /\ funcs \in Seq(Func) /\ work \in Seq(Spans) /\ next \in 1 .. Len(funcs) + 1 /\ at \in Nat
      /\ cur \in Spans \union {0}
      /\ cur # 0 => at \in 1 .. Len(funcs[cur].refs) + 1
      /\ phase \in {"begin", "roots", "close", "compact", "done"}
  BY DEF StripIInv, TypeOK
<1>2. Len(funcs) \in Nat /\ Spans = 1 .. Len(funcs) /\ Len(work) \in Nat
  BY <1>1 DEF Spans
<1>3. IsFiniteSet(Spans \ reachable) /\ Cardinality(Spans \ reachable) \in Nat
  <2>1. IsFiniteSet(Spans)
    BY <1>2, FS_Interval
  <2>2. IsFiniteSet(Spans \ reachable)
    BY <2>1, FS_Subset
  <2> QED BY <2>2, FS_CardinalityType
<1>4. Ahead \in Nat
  BY <1>1, <1>2, <1>3 DEF Ahead
<1>5. Unread \in Nat /\ (cur # 0 => Unread > 0)
  <2>1. CASE cur = 0
    BY <2>1 DEF Unread
  <2>2. CASE cur # 0
    <3>1. Len(funcs[cur].refs) \in Nat
      BY <1>1, <2>2, FuncsAre DEF StripIInv
    <3> QED BY <1>1, <2>2, <3>1 DEF Unread
  <2> QED BY <2>1, <2>2
<1>6. Stage \in Nat
  BY <1>1 DEF Stage
<1> QED BY <1>1, <1>2, <1>3, <1>4, <1>5, <1>6

\* What is left of the removal is a quadruple of natural numbers.
LEMMA StripLeftIsMeasure == StripIInv => StripLeft \in Measure
<1> SUFFICES ASSUME StripIInv PROVE StripLeft \in Measure
  OBVIOUS
<1> QED BY StripLeftFacts DEF StripLeft, Measure

\* Every step makes what is left smaller: a function is discovered once.
LEMMA StripStepEnds ==
    ASSUME StripIInv, StripIInv', StripNext
    PROVE  Below(StripLeft', StripLeft)
<1>1. /\ StripLeft = <<Stage, Ahead, Len(work), Unread>>
      /\ StripLeft' = <<Stage', Ahead', Len(work'), Unread'>>
      /\ Len(funcs) \in Nat /\ next \in Nat /\ funcs' = funcs /\ Spans' = Spans
  BY StripLeftFacts DEF StripLeft, StripNext, NothingToDo, Begin, Root, RootsDone, Take, Visit, Leave, Closed,
                   Compact, Finish, Spans
<1>2. CASE NothingToDo \/ Begin \/ RootsDone \/ Closed \/ Finish
  <2>1. Stage' < Stage
    BY <1>2 DEF NothingToDo, Begin, RootsDone, Closed, Finish, Stage
  <2> QED BY <1>1, <2>1 DEF Below
<1>3. CASE Root \/ Compact
  <2>1. Stage' = Stage /\ Ahead' < Ahead
    BY <1>1, <1>3 DEF Root, Compact, Stage, Ahead
  <2> QED BY <1>1, <2>1 DEF Below
<1>4. CASE Take
  <2>1. Stage' = Stage /\ Ahead' = Ahead
    BY <1>1, <1>4 DEF Take, Stage, Ahead
  <2>2. Len(work') < Len(work)
    <3>1. work \in Seq(Spans) /\ work # <<>> /\ work' = SubSeq(work, 1, Len(work) - 1)
      BY <1>4 DEF Take, StripIInv, TypeOK
    <3> QED BY <3>1
  <2> QED BY <1>1, <2>1, <2>2 DEF Below
<1>5. CASE Leave
  <2>1. Stage' = Stage /\ Ahead' = Ahead /\ Len(work') = Len(work)
    BY <1>1, <1>5 DEF Leave, Stage, Ahead
  <2>2. Unread' < Unread
    BY <1>5, StripLeftFacts DEF Leave, Looking, Unread
  <2> QED BY <1>1, <2>1, <2>2 DEF Below
<1>6. CASE Visit
  <2> DEFINE callee == Callee(cur, at)
  <2>1. Stage' = Stage /\ phase = "close" /\ phase' = "close" /\ cur # 0 /\ cur' = cur /\ at' = at + 1
    BY <1>6 DEF Visit, Looking, Stage
  <2>2. CASE callee = 0 \/ callee \in reachable
    <3>1. Ahead' = Ahead /\ Len(work') = Len(work)
      BY <1>1, <1>6, <2>1, <2>2 DEF Visit, Ahead
    <3>2. Unread' < Unread
      <4>1. Len(funcs[cur].refs) \in Nat /\ at \in Nat
        BY <2>1, FuncsAre DEF StripIInv, TypeOK
      <4> QED BY <1>1, <2>1, <4>1 DEF Unread
    <3> QED BY <1>1, <2>1, <3>1, <3>2 DEF Below
  <2>3. CASE ~(callee = 0 \/ callee \in reachable)
    <3>1. reachable' = reachable \union {callee} /\ callee \notin reachable
      BY <1>6, <2>3 DEF Visit
    <3> HIDE DEF callee
    <3>2. callee \in Spans
      BY <1>1, <3>1 DEF StripIInv, TypeOK
    <3>3. IsFiniteSet(Spans \ reachable) /\ Cardinality(Spans \ reachable) \in Nat
      BY StripLeftFacts
    <3>4. Spans \ reachable' \in SUBSET (Spans \ reachable) /\ Spans \ reachable' # Spans \ reachable
      BY <3>1, <3>2
    <3>5. /\ IsFiniteSet(Spans \ reachable')
          /\ Cardinality(Spans \ reachable') <= Cardinality(Spans \ reachable)
          /\ Cardinality(Spans \ reachable') # Cardinality(Spans \ reachable)
      BY <3>3, <3>4, FS_Subset
    <3>6. Cardinality(Spans \ reachable') \in Nat
      BY <3>5, FS_CardinalityType
    <3>7. Cardinality(Spans \ reachable') < Cardinality(Spans \ reachable)
      BY <3>3, <3>5, <3>6
    <3>8. Ahead' < Ahead
      BY <1>1, <2>1, <3>7 DEF Ahead
    <3> QED BY <1>1, <2>1, <3>8 DEF Below
  <2> QED BY <2>2, <2>3
<1> QED BY <1>2, <1>3, <1>4, <1>5, <1>6 DEF StripNext

-----------------------------------------------------------------------------
(* What the removal leaves.                                                *)

\* The invariant of opt_strip_unreachable, its type invariant included.
THEOREM StripInvariance == StripSpec => []StripIInv
BY StripInitially, StripKeeps, PTL DEF StripSpec

\* What the invariant says of what is kept.
LEMMA KeptLinks == StripIInv => NoDangling
<1> SUFFICES ASSUME StripIInv, phase = "done" PROVE ClosedUnderUse(Kept)
  BY DEF NoDangling
<1>1. CASE Kept = Spans
  <2>1. ClosedUnderUse(Spans)
    BY TargetRefers, ClosedByCallees DEF StripIInv
  <2> QED BY <1>1, <2>1
<1>2. CASE Kept = reachable /\ ClosedUnderUse(reachable)
  BY <1>2
<1> QED BY <1>1, <1>2 DEF StripIInv, Phases

\* No pruned module has lost a function that its code refers to, whatever
\* the calls, cycles, addresses and constructors in it.
THEOREM Links == StripSpec => []NoDangling
BY KeptLinks, StripInvariance, PTL

\* And none holds a function of an include that the user's code does not
\* lead to.
THEOREM Minimal == StripSpec => []NoneTooMany
<1>1. StripIInv => NoneTooMany
  <2> SUFFICES ASSUME StripIInv, phase = "done", weak # {},
                      NEW set \in SUBSET Spans, Strong \subseteq set, ClosedUnderUse(set)
               PROVE  Kept \subseteq set
    BY DEF NoneTooMany
  <2>1. CASE funcs = <<>>
    BY <2>1 DEF StripIInv, TypeOK, Kept, Spans
  <2>2. CASE Kept = reachable
    BY <2>2 DEF StripIInv, Least
  <2> QED BY <2>1, <2>2 DEF StripIInv, Phases
<1> QED BY <1>1, StripInvariance, PTL

\* The array behind the stack is never overrun: what is on it, are
\* different functions.
THEOREM StackFits == StripSpec => []WorkFits
<1>1. StripIInv => WorkFits
  <2> SUFFICES ASSUME StripIInv PROVE WorkFits
    OBVIOUS
  <2>1. /\ Len(work) \in Nat /\ DOMAIN work = 1..Len(work) /\ work \in [1..Len(work) -> Spans]
        /\ Spans = 1..Len(funcs) /\ Len(funcs) \in Nat
    BY DEF StripIInv, TypeOK, Spans
  <2>2. Len(work) <= Len(funcs)
    <3> SUFFICES ASSUME Len(work) > Len(funcs) PROVE FALSE
      BY <2>1
    <3>1. /\ IsFiniteSet(1..Len(work)) /\ Cardinality(1..Len(work)) = Len(work)
          /\ IsFiniteSet(Spans) /\ Cardinality(Spans) = Len(funcs)
      <4>1. ASSUME NEW k \in Nat PROVE IsFiniteSet(1..k) /\ Cardinality(1..k) = k
        <5>1. IsFiniteSet(1..k) /\ Cardinality(1..k) = IF 1 > k THEN 0 ELSE k - 1 + 1
          BY FS_Interval, 1 \in Int, k \in Int, Zenon
        <5> QED BY <5>1
      <4> QED BY <2>1, <4>1
    <3>2. \E i, j \in 1..Len(work) : i # j /\ work[i] = work[j]
      BY <2>1, <3>1, FS_PigeonHole
    <3> QED BY <2>1, <3>2 DEF StripIInv, Waiting
  <2> QED BY <2>2 DEF WorkFits, StripIInv, Waiting
<1> QED BY <1>1, StripInvariance, PTL

\* The compaction (opt.c:687) never writes over what it has still to read, and
\* keeps the functions in order.
THEOREM InPlace == StripSpec => []Behind
<1>1. StripIInv => Behind
  BY DEF StripIInv
<1> QED BY <1>1, StripInvariance, PTL

\* The closure ends, on functions that call each other as well (opt.c:658 passes
\* over what is reachable already): every step makes what is left smaller.
THEOREM RemovalEnds == StripSpec => [](StripLeft \in Measure) /\ [][Below(StripLeft', StripLeft)]_stripVars
<1>1. StripIInv /\ StripIInv' /\ [StripNext]_stripVars => [Below(StripLeft', StripLeft)]_stripVars
  BY StripStepEnds
<1> QED BY <1>1, StripLeftIsMeasure, StripInvariance, PTL DEF StripSpec

-----------------------------------------------------------------------------
(* From the program to what is left of its functions.                      *)

\* The functions of each declaration of the program.
Bodies == [i \in DOMAIN program |-> FunctionsOf(program[i])]

\* Before the lowering the removal has not begun.
Fresh == phase = "idle" => reachable = {} /\ work = <<>> /\ cur = 0 /\ at = 0 /\ next = 1 /\ kept = <<>>

\* Afterwards it works on what the program was lowered to.
Lowered ==
    /\ loaded /\ program # <<>> /\ ~Errors
    /\ funcs = FlattenSeq(Bodies)
    /\ weak = UNION {{f.name : f \in ToSet(FunctionsOf(program[i]))} :
                         i \in {j \in DOMAIN program : program[j].included}}

\* The inductive invariant of the whole.
FrontIInv ==
    /\ IInv
    /\ ReachIInv
    /\ Fresh
    /\ phase # "idle" => Lowered /\ StripIInv

\* It has no action before the lowering.
LEMMA StripWaits == StripNext => phase # "idle" /\ phase' # "idle"
BY DEF StripNext, NothingToDo, Begin, Root, RootsDone, Take, Visit, Leave, Closed, Compact, Finish, Looking

\* Once the program is put together, loading is over.
LEMMA LoadOver == ASSUME ReachIInv, loaded, IncludesNext PROVE FALSE
<1>1. stack = <<>> /\ calling = None
  BY DEF ReachIInv, BeginAndEnd
<1> QED BY <1>1 DEF IncludesNext, Refuse, Parse, Skip, IncludeStd, IncludeVendor, IncludeFile, Return, Walking

\* A file of the program has functions.
LEMMA BodiesAre ==
    ASSUME IInv, ReachIInv, loaded, program # <<>>
    PROVE  /\ DOMAIN program = 1 .. Len(program) /\ Len(program) \in Nat
           /\ 1 \in 1 .. Len(program)
           /\ Bodies \in Seq(Seq(Func)) /\ Bodies # <<>> /\ Len(Bodies) = Len(program)
           /\ \A i \in 1 .. Len(program) :
                  /\ program[i].path \in Path
                  /\ Readable(program[i].path)
                  /\ Bodies[i] = Functions[project.at[program[i].path]]
<1>1. program \in Seq(Decl)
  BY DEF IInv, IncludesTypeOK
<1>2. DOMAIN program = 1 .. Len(program) /\ Len(program) \in Nat /\ 1 \in 1 .. Len(program)
  BY <1>1, LenProperties, EmptySeq
<1>3. ASSUME NEW i \in 1 .. Len(program)
      PROVE  /\ program[i].path \in Path
             /\ Readable(program[i].path)
             /\ FunctionsOf(program[i]) = Functions[project.at[program[i].path]]
             /\ FunctionsOf(program[i]) \in Seq(Func)
  <2>1. program[i] \in Decl
    BY <1>1, ElementOfSeq
  <2>2. program[i].path \in Path /\ Held(program[i].path)
    BY <2>1 DEF Decl, Held
  <2>3. Readable(program[i].path)
    BY <2>2 DEF ReachIInv, HeldReadable
  <2>4. project.at \in [Path -> File \union {NoFile}]
    BY DEF IInv, IncludesTypeOK, Project
  <2>5. project.at[program[i].path] \in File
    BY <2>2, <2>3, <2>4 DEF Readable
  <2> QED BY <2>2, <2>3, <2>5, FrontendAssumption DEF FunctionsOf
<1>4. Bodies \in [1 .. Len(program) -> Seq(Func)]
  BY <1>2, <1>3 DEF Bodies
<1>5. \A i \in 1 .. Len(program) : Bodies[i] = Functions[project.at[program[i].path]]
  BY <1>2, <1>3 DEF Bodies
<1>6. Bodies \in Seq(Seq(Func)) /\ Len(Bodies) = Len(program)
  BY <1>2, <1>4
<1>7. Bodies # <<>>
  BY <1>2, <1>6
<1> QED BY <1>2, <1>3, <1>5, <1>6, <1>7

\* Init.
LEMMA FrontInitially == Init => FrontIInv
<1> SUFFICES ASSUME Init PROVE FrontIInv
  OBVIOUS
<1>1. IInv /\ ReachIInv
  BY Initially, ReachInitially DEF Init
<1> QED BY <1>1 DEF FrontIInv, Init, Fresh

\* What loading leaves alone.
LEMMA LoadKeeps == FrontIInv /\ Load => FrontIInv'
<1> SUFFICES ASSUME FrontIInv, Load PROVE FrontIInv'
  OBVIOUS
<1>1. IncludesNext /\ UNCHANGED <<funcs, weak, phase, reachable, work, cur, at, next, kept>>
  BY DEF Load, stripVars
<1>2. IInv' /\ ReachIInv'
  BY <1>1, StepKeeps, StepReaches DEF FrontIInv
<1>3. phase = "idle"
  BY <1>1, LoadOver DEF FrontIInv, Lowered
<1> QED BY <1>1, <1>2, <1>3 DEF FrontIInv, Fresh

\* The lowering hands the removal a module it may be given.
LEMMA LowerKeeps == FrontIInv /\ Lower => FrontIInv'
<1> SUFFICES ASSUME FrontIInv, Lower PROVE FrontIInv'
  OBVIOUS
<1>1. /\ loaded /\ program # <<>> /\ ~Errors /\ phase = "idle"
      /\ funcs' = FlattenSeq(Bodies)
      /\ weak' = UNION {{f.name : f \in ToSet(FunctionsOf(program[i]))} :
                            i \in {j \in DOMAIN program : program[j].included}}
      /\ phase' = "begin"
      /\ UNCHANGED <<project, visited, stack, calling, loaded, program, reachable, work, cur, at, next, kept>>
  BY DEF Lower, Bodies, includesVars
<1>2. IInv' /\ ReachIInv'
  <2>1. UNCHANGED includesVars
    BY <1>1 DEF includesVars
  <2> QED BY <2>1, StepKeeps, StepReaches DEF FrontIInv
<1>3. Errors' = Errors /\ Bodies' = Bodies /\ \A d : FunctionsOf(d)' = FunctionsOf(d)
  BY <1>1 DEF Errors, Bodies, FunctionsOf
<1>4. Lowered'
  BY <1>1, <1>3 DEF Lowered
<1>5. funcs' \in Seq(Func)
  <2>1. Bodies \in Seq(Seq(Func)) /\ Bodies # <<>>
    BY <1>1, BodiesAre DEF FrontIInv
  <2> QED BY <1>1, <2>1, Flattened
<1>6. weak' \subseteq Name
  <2> SUFFICES ASSUME NEW i \in DOMAIN program, NEW f \in ToSet(FunctionsOf(program[i]))
               PROVE  f.name \in Name
    BY <1>1
  <2>1. FunctionsOf(program[i]) \in Seq(Func)
    <3>1. Bodies \in Seq(Seq(Func)) /\ i \in 1 .. Len(Bodies)
      BY <1>1, BodiesAre DEF FrontIInv
    <3>2. Bodies[i] \in Seq(Func)
      BY <3>1, ElementOfSeq
    <3> QED BY <3>2 DEF Bodies
  <2>2. f \in Func
    BY <2>1, ElementOfSeq, LenProperties DEF ToSet
  <2> QED BY <2>2 DEF Func
<1>7. StripBegins'
  BY <1>1, <1>5, <1>6 DEF FrontIInv, Fresh, StripBegins
<1>8. (StripBegins => StripIInv)'
  BY Beginning, PTL
<1>9. StripIInv'
  BY <1>7, <1>8
<1> QED BY <1>1, <1>2, <1>4, <1>9 DEF FrontIInv, Fresh

\* What the removal leaves alone.
LEMMA PruneKeeps == FrontIInv /\ Prune => FrontIInv'
<1> SUFFICES ASSUME FrontIInv, Prune PROVE FrontIInv'
  OBVIOUS
<1>1. /\ StripNext /\ phase # "idle" /\ phase' # "idle"
      /\ UNCHANGED <<project, visited, stack, calling, loaded, program>>
  BY StripWaits DEF Prune, includesVars
<1>2. IInv' /\ ReachIInv'
  <2>1. UNCHANGED includesVars
    BY <1>1 DEF includesVars
  <2> QED BY <2>1, StepKeeps, StepReaches DEF FrontIInv
<1>3. StripIInv'
  BY <1>1, StripKeeps DEF FrontIInv
<1>4. funcs' = funcs /\ weak' = weak
  BY <1>1 DEF StripNext, NothingToDo, Begin, Root, RootsDone, Take, Visit, Leave, Closed, Compact, Finish
<1>5. Errors' = Errors /\ Bodies' = Bodies /\ \A d : FunctionsOf(d)' = FunctionsOf(d)
  BY <1>1 DEF Errors, Bodies, FunctionsOf
<1>6. Lowered'
  BY <1>1, <1>4, <1>5 DEF FrontIInv, Lowered
<1> QED BY <1>1, <1>2, <1>3, <1>6 DEF FrontIInv, Fresh

\* All steps together.
LEMMA FrontStep == FrontIInv /\ [Next]_frontendVars => FrontIInv'
<1>1. ASSUME FrontIInv, UNCHANGED frontendVars PROVE FrontIInv'
  <2>1. /\ UNCHANGED <<project, visited, stack, calling, loaded, program>>
        /\ UNCHANGED <<funcs, weak, phase, reachable, work, cur, at, next, kept>>
    BY <1>1 DEF frontendVars, includesVars, stripVars
  <2>2. IInv' /\ ReachIInv'
    <3>1. UNCHANGED includesVars
      BY <2>1 DEF includesVars
    <3> QED BY <1>1, <3>1, StepKeeps, StepReaches DEF FrontIInv
  <2>3. Errors' = Errors /\ Bodies' = Bodies /\ \A d : FunctionsOf(d)' = FunctionsOf(d)
    BY <2>1 DEF Errors, Bodies, FunctionsOf
  <2>4. Lowered => Lowered'
    BY <2>1, <2>3 DEF Lowered
  <2>5. StripIInv => StripIInv'
    BY <2>1, StripKeeps DEF stripVars
  <2> QED BY <1>1, <2>1, <2>2, <2>4, <2>5 DEF FrontIInv, Fresh
<1> QED BY <1>1, LoadKeeps, LowerKeeps, PruneKeeps DEF Next

\* What was lowered are the functions of the program, file by file.
LEMMA FunctionsInRow ==
    ASSUME IInv, ReachIInv, Lowered
    PROVE  /\ funcs \in Seq(Func) /\ DOMAIN funcs = 1 .. Len(funcs) /\ Len(funcs) \in Nat
           /\ Len(Bodies[1]) <= Len(funcs)
           /\ \A i \in 1 .. Len(Bodies[1]) : funcs[i] = Bodies[1][i]
           /\ \A k \in 1 .. Len(program) : \A i \in 1 .. Len(Bodies[k]) :
                  \E l \in 1 .. Len(funcs) : funcs[l] = Bodies[k][i]
           /\ \A l \in 1 .. Len(funcs) :
                  \E k \in 1 .. Len(program) : \E i \in 1 .. Len(Bodies[k]) : funcs[l] = Bodies[k][i]
<1>1. loaded /\ program # <<>> /\ funcs = FlattenSeq(Bodies)
  BY DEF Lowered
<1>2. Bodies \in Seq(Seq(Func)) /\ Bodies # <<>> /\ Len(Bodies) = Len(program)
  BY <1>1, BodiesAre
<1>3. /\ funcs \in Seq(Func)
      /\ Len(Bodies[1]) <= Len(funcs)
      /\ \A i \in 1 .. Len(Bodies[1]) : funcs[i] = Bodies[1][i]
      /\ \A k \in 1 .. Len(Bodies) : \A i \in 1 .. Len(Bodies[k]) :
             \E l \in 1 .. Len(funcs) : funcs[l] = Bodies[k][i]
      /\ \A l \in 1 .. Len(funcs) :
             \E k \in 1 .. Len(Bodies) : \E i \in 1 .. Len(Bodies[k]) : funcs[l] = Bodies[k][i]
  <2>1. /\ FlattenSeq(Bodies) \in Seq(Func)
        /\ Len(Bodies[1]) <= Len(FlattenSeq(Bodies))
        /\ \A i \in 1 .. Len(Bodies[1]) : FlattenSeq(Bodies)[i] = Bodies[1][i]
        /\ \A k \in 1 .. Len(Bodies) : \A i \in 1 .. Len(Bodies[k]) :
               \E l \in 1 .. Len(FlattenSeq(Bodies)) : FlattenSeq(Bodies)[l] = Bodies[k][i]
        /\ \A l \in 1 .. Len(FlattenSeq(Bodies)) :
               \E k \in 1 .. Len(Bodies) : \E i \in 1 .. Len(Bodies[k]) : FlattenSeq(Bodies)[l] = Bodies[k][i]
    BY <1>2, Flattened, Zenon
  <2> QED BY <1>1, <2>1, Zenon
<1>4. DOMAIN funcs = 1 .. Len(funcs) /\ Len(funcs) \in Nat
  BY <1>3, LenProperties
<1> QED BY <1>2, <1>3, <1>4

\* Every function is one of some file.
LEMMA OwnFunctions ==
    ASSUME IInv, ReachIInv, Lowered, NEW f \in 1 .. Len(funcs)
    PROVE  \E file \in File : funcs[f] \in ToSet(Functions[file])
<1>1. /\ Bodies \in Seq(Seq(Func)) /\ Len(Bodies) = Len(program)
      /\ \A k \in 1 .. Len(program) :
             /\ program[k].path \in Path
             /\ Readable(program[k].path)
             /\ Bodies[k] = Functions[project.at[program[k].path]]
  <2>1. loaded /\ program # <<>>
    BY DEF Lowered
  <2> QED BY <2>1, BodiesAre
<1>2. PICK k \in 1 .. Len(program) : \E n \in 1 .. Len(Bodies[k]) : funcs[f] = Bodies[k][n]
  BY FunctionsInRow
<1>3. project.at[program[k].path] \in File
  <2>1. project.at \in [Path -> File \union {NoFile}]
    BY DEF IInv, IncludesTypeOK, Project
  <2>2. program[k].path \in Path /\ project.at[program[k].path] # NoFile
    BY <1>1 DEF Readable
  <2> QED BY <2>1, <2>2
<1>4. Bodies[k] \in Seq(Func)
  BY <1>1, ElementOfSeq
<1>5. DOMAIN Bodies[k] = 1 .. Len(Bodies[k])
  BY <1>4, LenProperties
<1>6. funcs[f] \in ToSet(Bodies[k])
  BY <1>2, <1>5 DEF ToSet
<1> QED BY <1>1, <1>3, <1>6

\* A name that a function has is found.
LEMMA FindNames ==
    ASSUME funcs \in Seq(Func), NEW f \in Spans
    PROVE  Find(funcs[f].name) \in Spans /\ funcs[Find(funcs[f].name)].name = funcs[f].name
<1> DEFINE name == funcs[f].name
           found == {g \in Spans : funcs[g].name = name}
<1>1. Spans = 1 .. Len(funcs) /\ Len(funcs) \in Nat
  BY LenProperties DEF Spans
<1>2. PICK x \in found : \A y \in found : x <= y
  <2>1. found \in SUBSET (1 .. Len(funcs)) /\ found # {}
    BY <1>1
  <2> HIDE DEF found
  <2> QED BY <1>1, <2>1, Earliest
<1>3. x \in Spans /\ funcs[x].name = name /\ \A g \in Spans : g < x => funcs[g].name # name
  BY <1>1, <1>2
<1> HIDE DEF name
<1> QED BY <1>3 DEF Find, name

-----------------------------------------------------------------------------
(* Loading ends.                                                           *)

LinesLeft == IF stack = <<>> THEN 0 ELSE Len(Top.todo)

\* What is left to do: paths to visit, calls under way, include lines of the
\* last one, the file it is about to include.
Left == <<Cardinality(Path \ visited), Len(stack), LinesLeft, IF calling = None THEN 0 ELSE 1>>

\* Paths that are marked are no more to visit.
LEMMA FewerToVisit ==
    ASSUME visited \subseteq visited', visited' \subseteq Path
    PROVE  /\ Cardinality(Path \ visited) \in Nat /\ Cardinality(Path \ visited') \in Nat
           /\ Cardinality(Path \ visited') <= Cardinality(Path \ visited)
           /\ visited' # visited => Cardinality(Path \ visited') < Cardinality(Path \ visited)
<1>1. IsFiniteSet(Path \ visited)
  <2>1. IsFiniteSet(Path)
    BY IncludesAssumption
  <2> QED BY <2>1, FS_Subset
<1>2. Path \ visited' \in SUBSET (Path \ visited) /\ (visited' # visited => Path \ visited' # Path \ visited)
  OBVIOUS
<1>3. IsFiniteSet(Path \ visited') /\ Cardinality(Path \ visited') <= Cardinality(Path \ visited)
      /\ (Cardinality(Path \ visited) = Cardinality(Path \ visited') => Path \ visited = Path \ visited')
  BY <1>1, <1>2, FS_Subset
<1>4. Cardinality(Path \ visited) \in Nat /\ Cardinality(Path \ visited') \in Nat
  BY <1>1, <1>3, FS_CardinalityType
<1> QED BY <1>2, <1>3, <1>4

\* The top call, if there is one.
LEMMA TopCall ==
    ASSUME IInv, stack # <<>>
    PROVE  /\ Len(stack) \in Nat /\ Len(stack) >= 1 /\ Top = stack[Len(stack)] /\ Top \in Call
           /\ Top.todo \in Seq(Include) /\ Under \in Seq(Call) /\ Len(Under) = Len(stack) - 1
<1>1. stack \in Seq(Call) /\ Top = stack[Len(stack)]
  BY DEF IInv, IncludesTypeOK, Call, Top
<1>2. Len(stack) \in Nat /\ Len(stack) >= 1 /\ Len(stack) \in 1 .. Len(stack)
  BY <1>1, EmptySeq
<1>3. Top \in Call
  BY <1>1, <1>2, ElementOfSeq
<1>4. Under \in Seq(Call) /\ Len(Under) = Len(stack) - 1
  <2>1. \A i \in 1 .. Len(stack) - 1 : stack[i] \in Call
    BY <1>1, <1>2, ElementOfSeq
  <2>2. Len(stack) - 1 \in Int /\ Len(stack) - 1 = IF 1 <= Len(stack) - 1 THEN Len(stack) - 1 - 1 + 1 ELSE 0
    <3>1. \A k \in Nat : k >= 1 => k - 1 \in Int /\ k - 1 = IF 1 <= k - 1 THEN k - 1 - 1 + 1 ELSE 0
      OBVIOUS
    <3> QED BY <1>2, <3>1
  <2>3. Under \in Seq(Call) /\ Len(Under) = IF 1 <= Len(stack) - 1 THEN Len(stack) - 1 - 1 + 1 ELSE 0
    BY <2>1, <2>2, SubSeqProperties DEF Under
  <2> QED BY <1>2, <2>2, <2>3
<1> QED BY <1>1, <1>2, <1>3, <1>4 DEF Call

\* What is left of the loading is a quadruple of natural numbers.
LEMMA LeftIsMeasure == IInv => Left \in Measure
<1> SUFFICES ASSUME IInv PROVE Left \in Measure
  OBVIOUS
<1>1. IsFiniteSet(Path \ visited)
  <2>1. IsFiniteSet(Path)
    BY IncludesAssumption
  <2> QED BY <2>1, FS_Subset
<1>2. Cardinality(Path \ visited) \in Nat
  BY <1>1, FS_CardinalityType
<1>3. Len(stack) \in Nat
  BY DEF IInv, IncludesTypeOK
<1>4. LinesLeft \in Nat
  BY TopCall DEF LinesLeft
<1> QED BY <1>2, <1>3, <1>4 DEF Left, Measure

\* A step that marks a path has one less to visit.
LEMMA VisitingEnds ==
    ASSUME visited \subseteq visited', visited' \subseteq Path, visited' # visited
    PROVE  Below(Left', Left)
<1>1. Cardinality(Path \ visited') < Cardinality(Path \ visited)
  BY FewerToVisit
<1> QED BY <1>1 DEF Left, Below

\* An include line is dealt with once, whatever it brings.
LEMMA LineEnds ==
    ASSUME IInv, IInv', Walking, NEW dep, Advance(dep), visited \subseteq visited'
    PROVE  Below(Left', Left)
<1>1. visited' \subseteq Path
  BY DEF IInv, IncludesTypeOK
<1>2. CASE visited' # visited
  BY <1>1, <1>2, VisitingEnds
<1>3. CASE visited' = visited
  <2> DEFINE n == Len(stack)
             call == [Top EXCEPT !.todo = Tail(Top.todo), !.decls = Merged(Top.decls, dep)]
  <2>1. /\ n \in Nat /\ n >= 1 /\ Top \in Call /\ Top.todo \in Seq(Include) /\ Top.todo # <<>>
        /\ Under \in Seq(Call) /\ Len(Under) = n - 1 /\ stack # <<>>
    BY TopCall DEF Walking
  <2>2. call.todo = Tail(Top.todo)
    BY <2>1 DEF Call
  <2>3. stack' = Append(Under, call)
    BY DEF Advance
  <2> HIDE DEF call
  <2>4. Len(stack') = n /\ stack'[n] = call
    BY <2>1, <2>3
  <2>5. stack' # <<>> /\ Top' = call
    BY <2>1, <2>4 DEF Top
  <2>6. LinesLeft' < LinesLeft
    <3>1. Len(Tail(Top.todo)) < Len(Top.todo)
      BY <2>1, HeadTailProperties, EmptySeq
    <3>2. LinesLeft' = Len(call.todo) /\ LinesLeft = Len(Top.todo)
      BY <2>1, <2>5 DEF LinesLeft
    <3> QED BY <2>2, <3>1, <3>2
  <2> QED BY <1>3, <2>4, <2>6 DEF Left, Below
<1> QED BY <1>2, <1>3

\* Every step makes what is left smaller: a path is marked before it is
\* followed.
LEMMA StepEnds ==
    ASSUME IInv, IInv', IncludesNext
    PROVE  Below(Left', Left)
<1>1. visited \subseteq Path /\ visited' \subseteq Path
  BY DEF IInv, IncludesTypeOK
<1>2. CASE Refuse
  <2>1. calling \in Path /\ calling # None /\ calling' = None /\ visited' = Mark({calling}) /\ stack' = stack
    BY <1>2 DEF Refuse, IInv, IncludesTypeOK
  <2>2. visited \subseteq visited'
    BY <1>1, <2>1, MarkFits
  <2>3. CASE visited' = visited
    <3>1. LinesLeft' = LinesLeft /\ Len(stack') = Len(stack)
      BY <2>1 DEF LinesLeft, Top
    <3>2. (IF calling = None THEN 0 ELSE 1) = 1 /\ (IF calling' = None THEN 0 ELSE 1) = 0
      BY <2>1
    <3>3. Left = <<Cardinality(Path \ visited), Len(stack), LinesLeft, 1>>
          /\ Left' = <<Cardinality(Path \ visited), Len(stack), LinesLeft, 0>>
      BY <2>3, <3>1, <3>2 DEF Left
    <3> QED BY <3>3 DEF Below
  <2> QED BY <1>1, <2>2, <2>3, VisitingEnds
<1>3. CASE Parse
  <2>1. visited' = visited \union {calling} /\ calling \notin visited
    BY <1>3, ParseShape
  <2> QED BY <1>1, <2>1, VisitingEnds
<1>4. CASE Skip \/ IncludeFile
  BY <1>4, LineEnds DEF Skip, IncludeFile
<1>5. CASE IncludeStd \/ IncludeVendor
  <2> DEFINE hyi == FirstExisting(Head(Top.todo).hyi)
             new == IF Unseen(hyi) THEN {hyi} ELSE {}
  <2>1. Walking /\ Advance(IF new # {} THEN Stub(hyi) ELSE <<>>) /\ visited' = Mark(new)
    BY <1>5 DEF IncludeStd, IncludeVendor
  <2>2. visited \subseteq Mark(new)
    BY DEF Mark
  <2> HIDE DEF hyi, new
  <2> QED BY <2>1, <2>2, LineEnds
<1>6. CASE Return
  <2>1. visited' = visited /\ stack # <<>>
    BY <1>6 DEF Return
  <2>2. Len(stack') < Len(stack)
    <3>1. CASE Len(stack) = 1
      <4>1. stack' = <<>>
        BY <1>6, <3>1 DEF Return
      <4>2. Len(stack') = 0
        BY <4>1, EmptySeq
      <4> QED BY <3>1, <4>2
    <3>2. CASE Len(stack) # 1
      BY <1>6, <3>2, InnerShape
    <3> QED BY <3>1, <3>2
  <2> QED BY <2>1, <2>2 DEF Left, Below
<1> QED BY <1>2, <1>3, <1>4, <1>5, <1>6 DEF IncludesNext

-----------------------------------------------------------------------------
(* Theorems.                                                               *)

\* The inductive invariant, the type invariant included, holds for every project
\* that MAX_VISITED is enough for.
THEOREM Invariance == IncludesSpec => []IInv
<1> QED BY Initially, StepKeeps, PTL DEF IncludesSpec

\* A file that is reached on several ways, or from itself, is loaded once, and
\* its declarations are in the program once.
THEOREM LoadedOnce == IncludesSpec => []Once
BY NothingTwice, Invariance, PTL

\* The invariant together with what has been reached, and what is still to be.
THEOREM ReachInvariance == IncludesSpec => [](IInv /\ ReachIInv)
<1> QED BY Initially, ReachInitially, StepKeeps, StepReaches, PTL DEF IncludesSpec

\* Loading comes to an end, whatever includes what (mark_visited comes before
\* the includes of the file, compiler.c): every step makes what is left smaller.
THEOREM LoadingEnds == IncludesSpec => [](Left \in Measure) /\ [][Below(Left', Left)]_includesVars
<1>1. IInv /\ IInv' /\ [IncludesNext]_includesVars => [Below(Left', Left)]_includesVars
  BY StepEnds
<1> QED BY <1>1, LeftIsMeasure, Invariance, PTL DEF IncludesSpec

\* The type invariant.
THEOREM TypeCorrect == IncludesSpec => []IncludesTypeOK
<1>1. IInv => IncludesTypeOK
  BY DEF IInv
<1> QED BY <1>1, Invariance, PTL

\* The program holds every file that the first one leads to, and no other,
\* whatever cycles and diamonds there are among the includes.
THEOREM AllIncluded == IncludesSpec => []AllAndOnly
BY AllOfThem, ReachInvariance, PTL

\* The whole, from the file given to the compiler to what is left of its
\* functions, keeps its invariant.
THEOREM FrontInvariance == Spec => []FrontIInv
BY FrontInitially, FrontStep, PTL DEF Spec

\* What the program is put together from keeps its types, and is loaded once
\* and completely, also where the removal follows.
THEOREM FrontIncludes == Spec => [](IncludesTypeOK /\ Once /\ AllAndOnly)
<1>1. FrontIInv => IncludesTypeOK /\ Once /\ AllAndOnly
  BY NothingTwice, AllOfThem DEF FrontIInv, IInv
<1> QED BY <1>1, FrontInvariance, PTL

\* No other file that the compiler may read defines a function of the name of
\* one in the file it is given.  (That file, by another spelling of its path,
\* is such a file.)
NamesApart ==
    \A p \in Path \ {project.start} : Readable(p) /\ Readable(project.start) =>
        \A f \in ToSet(Functions[project.at[project.start]]) :
            \A g \in ToSet(Functions[project.at[p]]) : f.name # g.name

\* Nothing that the user wrote is removed, called or not, as long as his
\* functions share their names with no other file's.
THEOREM UserCode == Spec /\ NamesApart => []UserCodeStays
<1>1. FrontIInv /\ NamesApart => UserCodeStays
  <2> DEFINE own == Functions[project.at[project.start]]
  <2> SUFFICES ASSUME FrontIInv, NamesApart, phase = "done", NEW f \in 1 .. Len(own)
               PROVE  f \in Kept
    BY DEF UserCodeStays
  <2>1. Lowered /\ StripIInv /\ IInv /\ ReachIInv
    BY DEF FrontIInv
  <2>2. /\ DOMAIN program = 1 .. Len(program)
        /\ 1 \in 1 .. Len(program)
        /\ Bodies \in Seq(Seq(Func)) /\ Bodies # <<>> /\ Len(Bodies) = Len(program)
        /\ \A i \in 1 .. Len(program) :
               /\ program[i].path \in Path
               /\ Readable(program[i].path)
               /\ Bodies[i] = Functions[project.at[program[i].path]]
    BY <2>1, BodiesAre DEF Lowered
  <2>3. program[1].path = project.start /\ ~program[1].included
    BY <2>1 DEF ReachIInv, StartFirst, Lowered
  <2>4. Bodies[1] = own /\ own \in Seq(Func) /\ Len(own) \in Nat /\ Readable(project.start)
    BY <2>2, <2>3, ElementOfSeq, LenProperties
  <2> HIDE DEF own
  <2>5. /\ funcs \in Seq(Func)
        /\ Len(own) <= Len(funcs)
        /\ \A i \in 1 .. Len(own) : funcs[i] = own[i]
    BY <2>1, <2>4, FunctionsInRow
  <2>6. f \in 1 .. Len(funcs) /\ f \in Spans
    BY <2>4, <2>5, LenProperties DEF Spans
  <2>7. funcs[f].name \notin weak
    <3> SUFFICES ASSUME NEW i \in DOMAIN program, program[i].included,
                        NEW g \in ToSet(FunctionsOf(program[i])), g.name = funcs[f].name
                 PROVE  FALSE
      BY <2>1 DEF Lowered
    <3>1. program[i].path # project.start
      <4>1. i # 1 /\ i \in 1 .. Len(program)
        BY <2>2, <2>3
      <4> QED BY <2>1, <2>2, <2>3, <4>1 DEF IInv, ProgramOnce
    <3>2. program[i].path \in Path \ {project.start} /\ Readable(program[i].path)
      BY <2>2, <3>1
    <3>3. g \in ToSet(Functions[project.at[program[i].path]])
      BY DEF FunctionsOf
    <3>4. own[f] \in ToSet(own)
      BY <2>4, LenProperties DEF ToSet
    <3>5. own[f].name # g.name
      BY <2>4, <3>2, <3>3, <3>4 DEF NamesApart, own
    <3> QED BY <2>5, <3>5
  <2>8. f \in Strong
    BY <2>6, <2>7 DEF Strong, IsWeak
  <2>9. \/ Kept = Spans
        \/ Kept = reachable /\ Strong \subseteq reachable
    BY <2>1 DEF StripIInv, Phases
  <2> QED BY <2>8, <2>9 DEF Strong
<1>2. NamesApart /\ [Next]_frontendVars => NamesApart'
  <2> SUFFICES ASSUME NamesApart, [Next]_frontendVars PROVE NamesApart'
    OBVIOUS
  <2>1. project' = project
    BY DEF Next, Load, Lower, Prune, frontendVars, includesVars, IncludesNext, Refuse, Parse, Skip, IncludeStd,
           IncludeVendor, IncludeFile, Return
  <2>2. \A p : Readable(p)' <=> Readable(p)
    BY <2>1 DEF Readable
  <2> QED BY <2>1, <2>2 DEF NamesApart
<1> QED BY <1>1, <1>2, FrontInvariance, PTL DEF Spec

\* No function mentions another in an asm block.
NoAsm ==
    \A file \in File : \A f \in ToSet(Functions[file]) :
        \A i \in DOMAIN f.refs : f.refs[i].op # "asm"

\* What the pruned program refers to and some file of it defines, is in it,
\* unless an asm block refers to it.
THEOREM Linked == NoAsm => (Spec => []ProgramLinks)
<1> SUFFICES ASSUME NoAsm PROVE Spec => []ProgramLinks
  OBVIOUS
<1>1. FrontIInv => ProgramLinks
  <2> SUFFICES ASSUME FrontIInv, phase = "done",
                      NEW f \in Kept, NEW i \in DOMAIN funcs[f].refs,
                      NEW p \in visited, project.at[p] # NoFile,
                      NEW g \in ToSet(Functions[project.at[p]]), g.name = Refers(funcs[f].refs[i])
               PROVE  \E h \in Kept : funcs[h].name = Refers(funcs[f].refs[i])
    BY DEF ProgramLinks
  <2> DEFINE name == Refers(funcs[f].refs[i])
  <2> HIDE DEF name
  <2>1. Lowered /\ StripIInv /\ IInv /\ ReachIInv
    BY DEF FrontIInv
  <2>2. /\ DOMAIN program = 1 .. Len(program)
        /\ Bodies \in Seq(Seq(Func)) /\ Bodies # <<>> /\ Len(Bodies) = Len(program)
        /\ \A k \in 1 .. Len(program) :
               /\ program[k].path \in Path
               /\ Readable(program[k].path)
               /\ Bodies[k] = Functions[project.at[program[k].path]]
    BY <2>1, BodiesAre DEF Lowered
  <2>3. p \in Path /\ Readable(p)
    BY <2>1 DEF Lowered, Errors, Readable, IInv, IncludesTypeOK
  <2>4. PICK k \in 1 .. Len(program) : program[k].path = p
    <3>1. Held(p)
      BY <2>1, <2>3 DEF ReachIInv, VisitedHeld
    <3>2. \A q : Held(q) <=> q \in {program[l].path : l \in DOMAIN program}
      BY <2>1, ProgramHeld DEF Lowered
    <3> QED BY <2>2, <3>1, <3>2
  <2>5. PICK l \in 1 .. Len(funcs) : funcs[l] = g
    <3>1. g \in ToSet(Bodies[k]) /\ Bodies[k] \in Seq(Func)
      BY <2>2, <2>4, ElementOfSeq
    <3>2. PICK n \in 1 .. Len(Bodies[k]) : Bodies[k][n] = g
      BY <3>1, LenProperties DEF ToSet
    <3> QED BY <2>1, <2>4, <3>2, FunctionsInRow
  <2>6. funcs \in Seq(Func) /\ DOMAIN funcs = 1 .. Len(funcs)
    BY <2>1, FunctionsInRow
  <2>7. kept \in Seq(Spans) /\ Spans = 1 .. Len(funcs)
    BY <2>1, <2>6 DEF StripIInv, TypeOK, Spans
  <2>8. f \in Spans /\ Kept \subseteq Spans
    BY <2>7, LenProperties, ElementOfSeq DEF Kept
  <2>9. funcs[f].refs[i].op # "asm"
    <3>1. \E file \in File : funcs[f] \in ToSet(Functions[file])
      BY <2>1, <2>7, <2>8, OwnFunctions
    <3> QED BY <3>1 DEF NoAsm
  <2>10. Find(name) \in Spans /\ funcs[Find(name)].name = name
    <3>1. l \in Spans /\ funcs[l].name = name
      BY <2>5, <2>7 DEF name
    <3> QED BY <2>6, <3>1, FindNames
  <2>11. ClosedUnderUse(Kept)
    BY <2>1, KeptLinks DEF NoDangling
  <2>12. Find(name) \in Kept \union {0}
    BY <2>9, <2>11 DEF ClosedUnderUse, name
  <2>13. 0 \notin Spans
    BY <2>7
  <2> QED BY <2>10, <2>12, <2>13 DEF name
<1> QED BY <1>1, FrontInvariance, PTL
=============================================================================
