---------------------------- MODULE ArenaProofs ----------------------------
(***************************************************************************)
(* Proofs about Arena: the invariants the runs check on three blocks hold  *)
(* for any number of blocks, frames, sizes and any block and pool limit,   *)
(* and every step of mem.hy is a step of ArenaHeap or leaves it alone.     *)
(***************************************************************************)
EXTENDS Arena, TLAPS

\* The inductive invariant.  On top of what the runs check: the header of an
\* unmapped block reads 0, as the one _arena_new_block writes, and arena_free
\* runs only under a frame.
IInv ==
    /\ TypeOK
    /\ OneHomePerBlock
    /\ UnusedIsZero
    /\ PoolIsClean
    /\ PoolCounted
    /\ ObjectsAreHeld
    /\ ObjectsAreDisjoint
    /\ ReturnedFramesAreEmpty
    /\ \A b \in Blocks \ mapped : used[b] = 0
    /\ freeing => depth > 0

-----------------------------------------------------------------------------
(* Lists: what pushing on and popping off the front do.                    *)

\* Pushing a new element on a list without repetitions.
LEMMA PushFacts ==
    ASSUME NEW S, NEW s \in Seq(S), NEW e \in S
    PROVE  /\ <<e>> \o s \in Seq(S)
           /\ <<e>> \o s # <<>>
           /\ Len(<<e>> \o s) = Len(s) + 1
           /\ Head(<<e>> \o s) = e
           /\ Range(<<e>> \o s) = {e} \union Range(s)
           /\ IsInjective(s) /\ e \notin Range(s) => IsInjective(<<e>> \o s)
<1> DEFINE t == <<e>> \o s
<1>1. /\ t \in Seq(S) /\ Len(t) = Len(s) + 1 /\ t # <<>>
      /\ t[1] = e
      /\ \A i \in 1 .. Len(s) : t[i + 1] = s[i]
      /\ DOMAIN t = 1 .. Len(s) + 1 /\ DOMAIN s = 1 .. Len(s)
      /\ Len(s) \in Nat
  OBVIOUS
<1>2. \A j \in DOMAIN t : j = 1 \/ (j - 1 \in 1 .. Len(s) /\ t[j] = s[j - 1])
  BY <1>1
<1>3. Range(t) = {e} \union Range(s)
  <2>1. ASSUME NEW x \in Range(t) PROVE x \in {e} \union Range(s)
    <3>1. PICK j \in DOMAIN t : x = t[j]
      BY DEF Range
    <3> QED BY <3>1, <1>1, <1>2 DEF Range
  <2>2. ASSUME NEW x \in Range(s) PROVE x \in Range(t)
    <3>1. PICK i \in 1 .. Len(s) : x = s[i]
      BY <1>1 DEF Range
    <3>2. i + 1 \in DOMAIN t /\ t[i + 1] = x
      BY <3>1, <1>1
    <3> QED BY <3>2 DEF Range
  <2>3. e \in Range(t)
    BY <1>1 DEF Range
  <2> QED BY <2>1, <2>2, <2>3
<1>4. ASSUME IsInjective(s), e \notin Range(s) PROVE IsInjective(t)
  <2>1. ASSUME NEW j \in DOMAIN t, NEW k \in DOMAIN t, t[j] = t[k] PROVE j = k
    <3>1. \A i \in 1 .. Len(s) : s[i] # e
      BY <1>1, <1>4 DEF Range
    <3>2. CASE j = 1 \/ k = 1
      BY <3>1, <3>2, <2>1, <1>1, <1>2
    <3>3. CASE j # 1 /\ k # 1
      <4>1. /\ j - 1 \in DOMAIN s /\ k - 1 \in DOMAIN s
            /\ s[j - 1] = s[k - 1]
        BY <3>3, <2>1, <1>1, <1>2
      <4>2. j - 1 = k - 1
        BY <4>1, <1>4 DEF IsInjective
      <4> QED BY <4>2, <1>1
    <3> QED BY <3>2, <3>3
  <2> QED BY <2>1 DEF IsInjective
<1> QED BY <1>1, <1>3, <1>4

\* Popping the head of a nonempty list without repetitions.
LEMMA PopFacts ==
    ASSUME NEW S, NEW s \in Seq(S), s # <<>>, IsInjective(s)
    PROVE  /\ Head(s) \in S
           /\ Head(s) \in Range(s)
           /\ Tail(s) \in Seq(S)
           /\ Len(Tail(s)) = Len(s) - 1
           /\ Len(s) > 0
           /\ Range(Tail(s)) = Range(s) \ {Head(s)}
           /\ IsInjective(Tail(s))
<1> DEFINE t == Tail(s)
<1>1. /\ t \in Seq(S) /\ Len(t) = Len(s) - 1 /\ Len(s) > 0 /\ Len(s) \in Nat
      /\ Head(s) = s[1] /\ s[1] \in S
      /\ \A i \in 1 .. Len(s) - 1 : t[i] = s[i + 1]
      /\ DOMAIN t = 1 .. Len(s) - 1 /\ DOMAIN s = 1 .. Len(s)
  OBVIOUS
<1>2. Head(s) \in Range(s)
  BY <1>1 DEF Range
<1>3. Range(t) \subseteq Range(s) \ {Head(s)}
  <2>1. ASSUME NEW x \in Range(t) PROVE x \in Range(s) /\ x # s[1]
    <3>1. PICK i \in 1 .. Len(s) - 1 : x = t[i]
      BY <1>1 DEF Range
    <3>2. x = s[i + 1] /\ i + 1 \in DOMAIN s /\ i + 1 # 1 /\ 1 \in DOMAIN s
      BY <3>1, <1>1
    <3> QED BY <3>2 DEF Range, IsInjective
  <2> QED BY <2>1, <1>1
<1>4. Range(s) \ {Head(s)} \subseteq Range(t)
  <2>1. ASSUME NEW x \in Range(s), x # s[1] PROVE x \in Range(t)
    <3>1. PICK j \in 1 .. Len(s) : x = s[j]
      BY <1>1 DEF Range
    <3>2. j - 1 \in DOMAIN t /\ t[j - 1] = x
      BY <3>1, <2>1, <1>1
    <3> QED BY <3>2 DEF Range
  <2> QED BY <2>1, <1>1
<1>5. IsInjective(t)
  <2>1. ASSUME NEW i \in DOMAIN t, NEW j \in DOMAIN t, t[i] = t[j] PROVE i = j
    <3>1. s[i + 1] = s[j + 1] /\ i + 1 \in DOMAIN s /\ j + 1 \in DOMAIN s
      BY <2>1, <1>1
    <3>2. i + 1 = j + 1
      BY <3>1 DEF IsInjective
    <3> QED BY <3>2, <1>1
  <2> QED BY <2>1 DEF IsInjective
<1> QED BY <1>1, <1>2, <1>3, <1>4, <1>5

-----------------------------------------------------------------------------
(* The initial state.                                                      *)

\* Nothing is mapped and nothing is live.
LEMMA InitIInv == Init => IInv
<1> SUFFICES ASSUME Init PROVE IInv
  OBVIOUS
<1> USE ArenaAssumption DEF Init
<1>1. Range(<<>>) = {} /\ IsInjective(<<>>)
  BY DEF Range, IsInjective
<1>2. TypeOK
  <2>1. <<>> \in Seq(Blocks) /\ [a \in Arenas |-> <<>>] \in [Arenas -> Seq(Blocks)]
    OBVIOUS
  <2>2. 0 \in 0 .. MaxDepth
    OBVIOUS
  <2> QED BY <2>1, <2>2 DEF TypeOK
<1>3. \A a \in Arenas : chain[a] = <<>> /\ BlocksOf(a) = {}
  BY <1>1 DEF BlocksOf
<1>4. OneHomePerBlock
  BY <1>1, <1>3 DEF OneHomePerBlock, Held
<1>5. ReturnedFramesAreEmpty
  BY <1>3 DEF ReturnedFramesAreEmpty
<1> QED
  BY <1>1, <1>2, <1>4, <1>5 DEF IInv, UnusedIsZero, PoolIsClean, PoolCounted,
     ObjectsAreHeld, ObjectsAreDisjoint

-----------------------------------------------------------------------------
(* arena_alloc.                                                            *)

\* The block _arena_new_block returns is nobody's, is empty, and has room.
LEMMA TakeBlock ==
    ASSUME IInv, NEW n \in Nat \ {0}, NEW b \in Blocks,
           PopPooled(n, b) \/ MapFresh(n, b)
    PROVE  /\ \A a \in Arenas : b \notin BlocksOf(a)
           /\ used[b] = 0
           /\ pool' \in Seq(Blocks)
           /\ IsInjective(pool')
           /\ Range(pool') = Range(pool) \ {b}
           /\ mapped' = mapped \union {b}
           /\ cap' \in [Blocks -> Nat]
           /\ n <= cap'[b]
           /\ \A c \in Blocks : c # b => cap'[c] = cap[c]
           /\ poolCount' \in Nat /\ poolCount' = Len(pool') /\ poolCount' <= ARENA_POOL_MAX
<1> USE ArenaAssumption
<1>1. /\ pool \in Seq(Blocks) /\ IsInjective(pool)
      /\ mapped = Range(pool) \union Held
      /\ \A a \in Arenas : BlocksOf(a) \cap Range(pool) = {}
      /\ poolCount = Len(pool) /\ poolCount <= ARENA_POOL_MAX /\ poolCount \in Nat
      /\ cap \in [Blocks -> Nat]
  BY DEF IInv, TypeOK, OneHomePerBlock, PoolCounted
<1>2. CASE PopPooled(n, b)
  <2>1. /\ n <= ARENA_BLOCK_SIZE /\ pool # <<>> /\ b = Head(pool)
        /\ pool' = Tail(pool) /\ poolCount' = poolCount - 1
        /\ mapped' = mapped /\ cap' = cap
    BY <1>2 DEF PopPooled, FromPool
  <2>2. /\ b \in Range(pool) /\ pool' \in Seq(Blocks)
        /\ Len(pool') = Len(pool) - 1 /\ Len(pool) > 0
        /\ Range(pool') = Range(pool) \ {b} /\ IsInjective(pool')
    BY <1>1, <2>1, PopFacts
  <2>3. used[b] = 0 /\ cap[b] = ARENA_BLOCK_SIZE
    BY <2>2 DEF IInv, PoolIsClean
  <2>4. poolCount' \in Nat /\ poolCount' = Len(pool') /\ poolCount' <= ARENA_POOL_MAX
    BY <1>1, <2>1, <2>2
  <2> QED BY <1>1, <2>1, <2>2, <2>3, <2>4
<1>3. CASE MapFresh(n, b)
  <2>1. /\ b \in Blocks \ mapped /\ mapped' = mapped \union {b}
        /\ cap' = [cap EXCEPT ![b] = IF n < ARENA_BLOCK_SIZE THEN ARENA_BLOCK_SIZE ELSE n]
        /\ pool' = pool /\ poolCount' = poolCount
    BY <1>3 DEF MapFresh
  <2>2. used[b] = 0
    BY <2>1 DEF IInv
  <2>3. b \notin Range(pool) /\ \A a \in Arenas : b \notin BlocksOf(a)
    BY <1>1, <2>1 DEF Held
  <2>4. cap' \in [Blocks -> Nat] /\ n <= cap'[b] /\ \A c \in Blocks : c # b => cap'[c] = cap[c]
    BY <1>1, <2>1
  <2> QED BY <1>1, <2>1, <2>2, <2>3, <2>4
<1> QED BY <1>2, <1>3

\* An object bumped off a block that is in its owner's chain, from the `used`
\* word up and within the capacity, is disjoint from every other object.
LEMMA BumpIsDisjoint ==
    ASSUME IInv, NEW a \in Arenas, NEW b \in Blocks, NEW n \in Nat \ {0},
           Bump(a, b, used[b], n)
    PROVE  /\ objects' \subseteq Objects
           /\ ObjectsAreDisjoint'
           /\ \A o \in objects' : o \in objects \/ WordsOf(o) \cap LiveWords(objects) = {}
           /\ used' \in [Blocks -> Nat]
           /\ used'[b] = used[b] + n
           /\ \A c \in Blocks : c # b => used'[c] = used[c]
           /\ \A c \in Blocks : used[c] <= used'[c]
<1> DEFINE new == [owner |-> a, block |-> b, at |-> used[b], len |-> n]
<1>1. /\ used' = [used EXCEPT ![b] = used[b] + n] /\ objects' = objects \union {new}
      /\ used \in [Blocks -> Nat] /\ objects \subseteq Objects
  BY DEF Bump, IInv, TypeOK
<1>2. new \in Objects
  BY <1>1 DEF Objects
<1>3. \A o \in objects : WordsOf(o) \cap WordsOf(new) = {}
  <2> SUFFICES ASSUME NEW o \in objects, NEW i \in o.at .. o.at + o.len - 1,
                      NEW j \in used[b] .. used[b] + n - 1, o.block = b
               PROVE  i # j
    BY DEF WordsOf
  <2>1. o.at + o.len <= used[b] /\ o.at \in Nat /\ o.len \in Nat /\ used[b] \in Nat
    BY <1>1 DEF IInv, ObjectsAreHeld, Objects
  <2> QED BY <2>1
<1>4. ObjectsAreDisjoint'
  <2>1. ASSUME NEW o \in objects', NEW p \in objects', o # p
        PROVE  WordsOf(o) \cap WordsOf(p) = {}
    <3>1. CASE o \in objects /\ p \in objects
      BY <3>1, <2>1 DEF IInv, ObjectsAreDisjoint
    <3>2. CASE o = new /\ p \in objects
      BY <3>2, <1>3
    <3>3. CASE p = new /\ o \in objects
      BY <3>3, <1>3
    <3> QED BY <2>1, <1>1, <3>1, <3>2, <3>3
  <2> QED BY <2>1 DEF ObjectsAreDisjoint, WordsOf
<1>5. WordsOf(new) \cap LiveWords(objects) = {}
  BY <1>3 DEF LiveWords
<1> QED BY <1>1, <1>2, <1>4, <1>5

\* Allocation from the head block keeps the invariant.
LEMMA AllocInHeadIInv ==
    ASSUME IInv, ~freeing, NEW a \in Arenas, a <= depth, NEW n \in Nat \ {0}, AllocInHead(a, n)
    PROVE  IInv'
<1> USE ArenaAssumption
<1> DEFINE b == Head(chain[a])
<1>1. /\ chain[a] # <<>> /\ used[b] + n <= cap[b] /\ Bump(a, b, used[b], n)
      /\ chain' = chain /\ pool' = pool /\ poolCount' = poolCount
      /\ mapped' = mapped /\ cap' = cap /\ dirty' = dirty /\ depth' = depth
      /\ freeing' = freeing
      /\ objects' = objects \union {[owner |-> a, block |-> b, at |-> used[b], len |-> n]}
  BY DEF AllocInHead, Fits, Bump
<1>2. b \in Blocks /\ b \in BlocksOf(a)
  <2>1. chain[a] \in Seq(Blocks) /\ IsInjective(chain[a])
    BY DEF IInv, TypeOK, OneHomePerBlock
  <2> QED BY <2>1, <1>1, PopFacts DEF BlocksOf
<1>3. b \in mapped /\ b \notin Range(pool)
  BY <1>2 DEF IInv, OneHomePerBlock, Held
<1>4. /\ objects' \subseteq Objects /\ ObjectsAreDisjoint'
      /\ used' \in [Blocks -> Nat] /\ used'[b] = used[b] + n
      /\ \A c \in Blocks : c # b => used'[c] = used[c]
      /\ \A c \in Blocks : used[c] <= used'[c]
  BY <1>1, <1>2, BumpIsDisjoint
<1>5. TypeOK'
  BY <1>1, <1>4 DEF IInv, TypeOK
<1>6. OneHomePerBlock' /\ PoolCounted'
  BY <1>1 DEF IInv, OneHomePerBlock, BlocksOf, Held, PoolCounted
<1>7. UnusedIsZero'
  <2>1. ASSUME NEW w \in dirty PROVE w[1] \in mapped /\ w[2] < used'[w[1]]
    <3>1. w[1] \in mapped /\ w[2] < used[w[1]] /\ w[1] \in Blocks /\ w[2] \in Nat
      BY DEF IInv, UnusedIsZero, TypeOK
    <3>2. used[w[1]] <= used'[w[1]] /\ used[w[1]] \in Nat /\ used'[w[1]] \in Nat
      BY <3>1, <1>4 DEF IInv, TypeOK
    <3> QED BY <3>1, <3>2
  <2> QED BY <2>1, <1>1 DEF UnusedIsZero
<1>8. PoolIsClean'
  BY <1>1, <1>3, <1>4 DEF IInv, PoolIsClean, TypeOK, OneHomePerBlock
<1>9. ObjectsAreHeld'
  <2>1. ASSUME NEW o \in objects
        PROVE  o.block \in BlocksOf(o.owner) /\ o.at + o.len <= used'[o.block]
               /\ used'[o.block] <= cap[o.block]
    <3>1. /\ o.block \in BlocksOf(o.owner) /\ o.at + o.len <= used[o.block]
          /\ used[o.block] <= cap[o.block]
          /\ o.at \in Nat /\ o.len \in Nat /\ o.block \in Blocks
      BY DEF IInv, ObjectsAreHeld, TypeOK, Objects
    <3>2. used \in [Blocks -> Nat] /\ cap \in [Blocks -> Nat]
      BY DEF IInv, TypeOK
    <3>3. used'[o.block] <= cap[o.block]
      BY <3>1, <3>2, <1>1, <1>4
    <3>4. o.at + o.len <= used'[o.block]
      BY <3>1, <3>2, <1>4
    <3> QED BY <3>1, <3>3, <3>4
  <2>2. used[b] + n <= used'[b] /\ used'[b] <= cap[b]
    BY <1>1, <1>2, <1>4 DEF IInv, TypeOK
  <2> QED BY <2>1, <2>2, <1>1, <1>2 DEF ObjectsAreHeld, BlocksOf
<1>10. ReturnedFramesAreEmpty'
  BY <1>1 DEF IInv, ReturnedFramesAreEmpty
<1>11. (\A c \in Blocks \ mapped : used[c] = 0)' /\ (freeing => depth > 0)'
  BY <1>1, <1>3, <1>4 DEF IInv
<1> QED BY <1>4, <1>5, <1>6, <1>7, <1>8, <1>9, <1>10, <1>11 DEF IInv

\* Hanging a taken block in front of a chain and bumping from its start keeps
\* the invariant.
LEMMA AttachIInv ==
    ASSUME IInv, ~freeing, NEW a \in Arenas, a <= depth, NEW n \in Nat \ {0}, NEW b \in Blocks,
           PopPooled(n, b) \/ MapFresh(n, b),
           chain' = [chain EXCEPT ![a] = <<b>> \o chain[a]],
           Bump(a, b, 0, n)
    PROVE  IInv'
<1> USE ArenaAssumption
<1>1. /\ \A c \in Arenas : b \notin BlocksOf(c)
      /\ used[b] = 0
      /\ pool' \in Seq(Blocks) /\ IsInjective(pool') /\ Range(pool') = Range(pool) \ {b}
      /\ mapped' = mapped \union {b}
      /\ cap' \in [Blocks -> Nat] /\ n <= cap'[b]
      /\ \A c \in Blocks : c # b => cap'[c] = cap[c]
      /\ poolCount' \in Nat /\ poolCount' = Len(pool') /\ poolCount' <= ARENA_POOL_MAX
  BY TakeBlock
<1>2. /\ objects' \subseteq Objects /\ ObjectsAreDisjoint'
      /\ used' \in [Blocks -> Nat] /\ used'[b] = n
      /\ \A c \in Blocks : c # b => used'[c] = used[c]
      /\ \A c \in Blocks : used[c] <= used'[c]
  <2>1. Bump(a, b, used[b], n)
    BY <1>1
  <2> QED BY <2>1, <1>1, BumpIsDisjoint
<1>3. /\ dirty' = dirty /\ depth' = depth /\ freeing' = freeing
      /\ objects' = objects \union {[owner |-> a, block |-> b, at |-> 0, len |-> n]}
  BY DEF Bump
<1>4. /\ chain \in [Arenas -> Seq(Blocks)] /\ \A c \in Arenas : IsInjective(chain[c])
      /\ \A c \in Arenas : BlocksOf(c) \cap Range(pool) = {}
      /\ \A c, d \in Arenas : c # d => BlocksOf(c) \cap BlocksOf(d) = {}
      /\ mapped = Range(pool) \union Held
  BY DEF IInv, TypeOK, OneHomePerBlock
<1>5. /\ chain' \in [Arenas -> Seq(Blocks)]
      /\ IsInjective(chain'[a])
      /\ BlocksOf(a)' = {b} \union BlocksOf(a)
      /\ \A c \in Arenas : c # a => chain'[c] = chain[c] /\ BlocksOf(c)' = BlocksOf(c)
  <2>1. /\ chain'[a] = <<b>> \o chain[a]
        /\ \A c \in Arenas : c # a => chain'[c] = chain[c]
    BY <1>4
  <2>2. /\ <<b>> \o chain[a] \in Seq(Blocks)
        /\ Range(<<b>> \o chain[a]) = {b} \union Range(chain[a])
        /\ IsInjective(<<b>> \o chain[a])
    BY <1>1, <1>4, PushFacts DEF BlocksOf
  <2>3. chain' \in [Arenas -> Seq(Blocks)]
    BY <1>4, <2>2
  <2> QED BY <2>1, <2>2, <2>3 DEF BlocksOf
<1>6. TypeOK'
  BY <1>1, <1>2, <1>3, <1>5 DEF IInv, TypeOK
<1>7. OneHomePerBlock'
  <2>1. \A c \in Arenas : IsInjective(chain'[c]) /\ BlocksOf(c)' \cap Range(pool') = {}
    BY <1>1, <1>4, <1>5
  <2>2. ASSUME NEW c \in Arenas, NEW d \in Arenas, c # d
        PROVE  BlocksOf(c)' \cap BlocksOf(d)' = {}
    <3>1. BlocksOf(c) \cap BlocksOf(d) = {} /\ b \notin BlocksOf(c) /\ b \notin BlocksOf(d)
      BY <1>1, <1>4, <2>2
    <3>2. CASE c = a
      BY <3>1, <3>2, <2>2, <1>5
    <3>3. CASE d = a
      BY <3>1, <3>3, <2>2, <1>5
    <3>4. CASE c # a /\ d # a
      BY <3>1, <3>4, <1>5
    <3> QED BY <3>2, <3>3, <3>4
  <2>3. mapped' = Range(pool') \union Held'
    <3>1. Held' = {b} \union Held
      <4>1. \A e \in Blocks : (\E c \in Arenas : e \in BlocksOf(c)')
                              <=> (e = b \/ \E c \in Arenas : e \in BlocksOf(c))
        BY <1>5
      <4> QED BY <4>1 DEF Held
    <3> QED BY <3>1, <1>1, <1>4
  <2> QED BY <1>1, <2>1, <2>2, <2>3 DEF OneHomePerBlock
<1>8. UnusedIsZero'
  <2>1. ASSUME NEW w \in dirty PROVE w[1] \in mapped' /\ w[2] < used'[w[1]]
    <3>1. w[1] \in mapped /\ w[2] < used[w[1]] /\ w[1] \in Blocks /\ w[2] \in Nat
      BY DEF IInv, UnusedIsZero, TypeOK
    <3>2. used[w[1]] <= used'[w[1]] /\ used[w[1]] \in Nat /\ used'[w[1]] \in Nat
      BY <3>1, <1>2 DEF IInv, TypeOK
    <3> QED BY <3>1, <3>2, <1>1
  <2> QED BY <2>1, <1>3 DEF UnusedIsZero
<1>9. PoolIsClean'
  <2>1. ASSUME NEW c \in Range(pool') PROVE cap'[c] = ARENA_BLOCK_SIZE /\ used'[c] = 0
    <3>1. c \in Range(pool) /\ c # b /\ c \in Blocks
      BY <1>1 DEF IInv, TypeOK, OneHomePerBlock
    <3> QED BY <3>1, <1>1, <1>2 DEF IInv, PoolIsClean
  <2> QED BY <2>1 DEF PoolIsClean
<1>10. PoolCounted'
  BY <1>1 DEF PoolCounted
<1>11. ObjectsAreHeld'
  <2>1. ASSUME NEW o \in objects
        PROVE  o.block \in BlocksOf(o.owner)' /\ o.at + o.len <= used'[o.block]
               /\ used'[o.block] <= cap'[o.block]
    <3>1. /\ o.block \in BlocksOf(o.owner) /\ o.at + o.len <= used[o.block]
          /\ used[o.block] <= cap[o.block] /\ o.owner \in Arenas /\ o.block \in Blocks
      BY DEF IInv, ObjectsAreHeld, TypeOK, Objects
    <3>2. o.block # b
      BY <3>1, <1>1
    <3> QED BY <3>1, <3>2, <1>1, <1>2, <1>5
  <2>2. b \in BlocksOf(a)' /\ 0 + n <= used'[b] /\ used'[b] <= cap'[b]
    BY <1>1, <1>2, <1>5
  <2> QED BY <2>1, <2>2, <1>3 DEF ObjectsAreHeld, BlocksOf
<1>12. ReturnedFramesAreEmpty'
  BY <1>3, <1>5 DEF IInv, ReturnedFramesAreEmpty, TypeOK, Arenas
<1>13. (\A c \in Blocks \ mapped : used[c] = 0)' /\ (freeing => depth > 0)'
  BY <1>1, <1>2, <1>3 DEF IInv
<1> QED
  BY <1>2, <1>6, <1>7, <1>8, <1>9, <1>10, <1>11, <1>12, <1>13 DEF IInv

\* arena_alloc keeps the invariant, whichever way it finds its block.
LEMMA ArenaAllocIInv ==
    ASSUME IInv, ~freeing, NEW a \in Arenas, a <= depth, NEW n \in Nat \ {0}, ArenaAlloc(a, n)
    PROVE  IInv'
<1>1. CASE AllocInHead(a, n)
  BY <1>1, AllocInHeadIInv
<1>2. CASE AllocFirst(a, n)
  <2>1. PICK b \in Blocks : /\ PopPooled(n, b) \/ MapFresh(n, b)
                            /\ chain' = [chain EXCEPT ![a] = <<b>>]
                            /\ Bump(a, b, used[b], n)
                            /\ chain[a] = <<>>
    BY <1>2 DEF AllocFirst
  <2>2. used[b] = 0
    BY <2>1, TakeBlock
  <2>3. <<b>> = <<b>> \o chain[a]
    BY <2>1
  <2> QED BY <2>1, <2>2, <2>3, AttachIInv
<1>3. CASE AllocGrow(a, n)
  <2>1. PICK b \in Blocks : /\ PopPooled(n, b) \/ MapFresh(n, b)
                            /\ chain' = [chain EXCEPT ![a] = <<b>> \o chain[a]]
                            /\ Bump(a, b, 0, n)
    BY <1>3 DEF AllocGrow
  <2> QED BY <2>1, AttachIInv
<1> QED BY <1>1, <1>2, <1>3 DEF ArenaAlloc

\* Every request is for at least one word.
LEMMA AlignedPositive == \A size \in Sizes : Aligned(size) \in Nat \ {0}
BY ArenaAssumption DEF Aligned

-----------------------------------------------------------------------------
(* arena_free.                                                             *)

\* One iteration of the loop keeps the invariant: the head of the returning
\* function's chain moves to the pool, or back to the kernel.
LEMMA FreeBlockIInv ==
    ASSUME IInv, FreeBlock
    PROVE  IInv'
<1> USE ArenaAssumption
<1> DEFINE b == Head(chain[depth])
<1>1. /\ freeing /\ chain[depth] # <<>> /\ depth \in Arenas /\ depth > 0
      /\ Recycle(b) \/ Unmap(b)
      /\ chain' = [chain EXCEPT ![depth] = Tail(chain[depth])]
      /\ objects' = objects /\ depth' = depth /\ freeing' = freeing /\ cap' = cap
  BY DEF FreeBlock, IInv, TypeOK, Arenas, Recycle, Unmap
<1>2. /\ chain \in [Arenas -> Seq(Blocks)] /\ \A c \in Arenas : IsInjective(chain[c])
      /\ pool \in Seq(Blocks) /\ IsInjective(pool)
      /\ \A c \in Arenas : BlocksOf(c) \cap Range(pool) = {}
      /\ \A c, d \in Arenas : c # d => BlocksOf(c) \cap BlocksOf(d) = {}
      /\ mapped = Range(pool) \union Held
      /\ used \in [Blocks -> Nat]
  BY DEF IInv, TypeOK, OneHomePerBlock
<1>3. /\ b \in Blocks /\ b \in BlocksOf(depth)
      /\ chain' \in [Arenas -> Seq(Blocks)]
      /\ \A c \in Arenas : IsInjective(chain'[c])
      /\ BlocksOf(depth)' = BlocksOf(depth) \ {b}
      /\ \A c \in Arenas : c # depth => chain'[c] = chain[c] /\ BlocksOf(c)' = BlocksOf(c)
  <2>1. /\ chain'[depth] = Tail(chain[depth])
        /\ \A c \in Arenas : c # depth => chain'[c] = chain[c]
    BY <1>1, <1>2
  <2>2. /\ b \in Blocks /\ b \in Range(chain[depth])
        /\ Tail(chain[depth]) \in Seq(Blocks) /\ IsInjective(Tail(chain[depth]))
        /\ Range(Tail(chain[depth])) = Range(chain[depth]) \ {b}
    BY <1>1, <1>2, PopFacts
  <2>3. chain' \in [Arenas -> Seq(Blocks)]
    BY <1>1, <1>2, <2>2
  <2> QED BY <1>1, <1>2, <2>1, <2>2, <2>3 DEF BlocksOf
<1>4. /\ \A c \in Arenas : b \notin BlocksOf(c)'
      /\ \A c \in Arenas : BlocksOf(c)' \subseteq BlocksOf(c)
      /\ b \notin Range(pool) /\ b \in mapped
  BY <1>1, <1>2, <1>3 DEF Held
<1>5. \A o \in objects : o.block # b
  <2> SUFFICES ASSUME NEW o \in objects PROVE o.block # b
    OBVIOUS
  <2>1. o.block \in BlocksOf(o.owner) /\ o.owner \in Arenas /\ o.owner # depth
    BY <1>1 DEF IInv, ObjectsAreHeld, TypeOK, Objects, ReturnedFramesAreEmpty
  <2> QED BY <2>1, <1>1, <1>2, <1>3
\* What both ways of disposing of b have in common.
<1>6. /\ used' = [used EXCEPT ![b] = 0]
      /\ dirty' \subseteq {w \in dirty : w[1] # b}
      /\ pool' \in Seq(Blocks) /\ IsInjective(pool')
      /\ \A c \in Range(pool') : c \in Range(pool) \/ (c = b /\ cap[b] = ARENA_BLOCK_SIZE)
      /\ \A c \in Arenas : BlocksOf(c)' \cap Range(pool') = {}
      /\ mapped' = Range(pool') \union Held'
      /\ \A c \in Blocks : c \in mapped' <=> c \in mapped /\ (c # b \/ b \in Range(pool'))
      /\ poolCount' = Len(pool') /\ poolCount' <= ARENA_POOL_MAX /\ poolCount' \in Nat
  <2>0. /\ Held' = Held \ {b}
        /\ poolCount = Len(pool) /\ poolCount <= ARENA_POOL_MAX /\ poolCount \in Nat
    <3>1. \A e \in Blocks : (\E c \in Arenas : e \in BlocksOf(c)')
                            <=> (e # b /\ \E c \in Arenas : e \in BlocksOf(c))
      BY <1>1, <1>3, <1>4
    <3>2. Held' = Held \ {b}
      BY <3>1 DEF Held
    <3> QED BY <3>2 DEF IInv, PoolCounted, TypeOK
  <2>1. CASE Recycle(b)
    <3>1. /\ cap[b] = ARENA_BLOCK_SIZE /\ poolCount < ARENA_POOL_MAX
          /\ dirty' = dirty \ {<<b, i>> : i \in 0 .. used[b] - 1}
          /\ used' = [used EXCEPT ![b] = 0]
          /\ pool' = <<b>> \o pool /\ poolCount' = poolCount + 1 /\ mapped' = mapped
      BY <2>1 DEF Recycle, Recyclable
    <3>2. \A w \in dirty' : w \in dirty /\ w[1] # b
      <4> SUFFICES ASSUME NEW w \in dirty, w \notin {<<b, i>> : i \in 0 .. used[b] - 1}
                   PROVE  w[1] # b
        BY <3>1
      <4>1. w \in Blocks \X Nat /\ w[2] < used[w[1]]
        BY DEF IInv, TypeOK, UnusedIsZero
      <4>2. w = <<w[1], w[2]>> /\ w[2] \in Nat
        BY <4>1
      <4>3. w[1] = b => w[2] \in 0 .. used[b] - 1
        BY <4>1, <4>2, <1>2, <1>3
      <4> QED BY <4>2, <4>3
    <3>3. /\ pool' \in Seq(Blocks) /\ Len(pool') = Len(pool) + 1
          /\ Range(pool') = {b} \union Range(pool) /\ IsInjective(pool')
      BY <3>1, <1>2, <1>3, <1>4, PushFacts
    <3>4. \A c \in Arenas : BlocksOf(c)' \cap Range(pool') = {}
      BY <3>3, <1>2, <1>4
    <3>5. mapped' = Range(pool') \union Held'
      BY <3>1, <3>3, <2>0, <1>2, <1>4
    <3>6. poolCount' = Len(pool') /\ poolCount' <= ARENA_POOL_MAX /\ poolCount' \in Nat
      BY <3>1, <3>3, <2>0
    <3> QED BY <3>1, <3>2, <3>3, <3>4, <3>5, <3>6
  <2>2. CASE Unmap(b)
    <3>1. /\ mapped' = mapped \ {b} /\ dirty' = {w \in dirty : w[1] # b}
          /\ used' = [used EXCEPT ![b] = 0]
          /\ pool' = pool /\ poolCount' = poolCount
      BY <2>2 DEF Unmap
    <3>2. mapped' = Range(pool') \union Held'
      BY <3>1, <2>0, <1>2, <1>4
    <3>3. \A c \in Arenas : BlocksOf(c)' \cap Range(pool') = {}
      BY <3>1, <1>2, <1>4
    <3> QED BY <3>1, <3>2, <3>3, <2>0, <1>2, <1>4
  <2> QED BY <1>1, <2>1, <2>2
<1>7. /\ used' \in [Blocks -> Nat] /\ used'[b] = 0
      /\ \A c \in Blocks : c # b => used'[c] = used[c]
  BY <1>2, <1>3, <1>6
<1>8. TypeOK'
  <2>1. mapped' \subseteq Blocks
    BY <1>6, <1>3 DEF Held, Range
  <2> QED BY <2>1, <1>1, <1>3, <1>6, <1>7 DEF IInv, TypeOK
<1>9. OneHomePerBlock'
  <2>1. \A c, d \in Arenas : c # d => BlocksOf(c)' \cap BlocksOf(d)' = {}
    BY <1>2, <1>4
  <2> QED BY <2>1, <1>3, <1>6 DEF OneHomePerBlock
<1>10. UnusedIsZero'
  <2>1. ASSUME NEW w \in dirty' PROVE w[1] \in mapped' /\ w[2] < used'[w[1]]
    <3>1. w \in dirty /\ w[1] # b
      BY <1>6
    <3>2. w[1] \in mapped /\ w[2] < used[w[1]] /\ w[1] \in Blocks
      BY <3>1 DEF IInv, UnusedIsZero, TypeOK
    <3> QED BY <3>1, <3>2, <1>6, <1>7
  <2> QED BY <2>1 DEF UnusedIsZero
<1>11. PoolIsClean'
  <2>1. ASSUME NEW c \in Range(pool') PROVE cap[c] = ARENA_BLOCK_SIZE /\ used'[c] = 0
    <3>1. CASE c \in Range(pool)
      <4>1. cap[c] = ARENA_BLOCK_SIZE /\ used[c] = 0 /\ c # b
        BY <3>1, <1>4 DEF IInv, PoolIsClean
      <4>2. c \in Blocks
        BY <3>1, <1>2 DEF IInv, TypeOK
      <4> QED BY <4>1, <4>2, <1>7
    <3>2. CASE c = b /\ cap[b] = ARENA_BLOCK_SIZE
      BY <3>2, <1>7
    <3> QED BY <3>1, <3>2, <1>6
  <2> QED BY <2>1, <1>1 DEF PoolIsClean
<1>12. PoolCounted'
  BY <1>6 DEF PoolCounted
<1>13. ObjectsAreHeld'
  <2>1. ASSUME NEW o \in objects
        PROVE  o.block \in BlocksOf(o.owner)' /\ o.at + o.len <= used'[o.block]
               /\ used'[o.block] <= cap[o.block]
    <3>1. /\ o.block \in BlocksOf(o.owner) /\ o.at + o.len <= used[o.block]
          /\ used[o.block] <= cap[o.block] /\ o.owner \in Arenas /\ o.block \in Blocks
          /\ o.owner # depth
      BY <1>1 DEF IInv, ObjectsAreHeld, TypeOK, Objects, ReturnedFramesAreEmpty
    <3> QED BY <3>1, <1>3, <1>5, <1>7
  <2> QED BY <2>1, <1>1 DEF ObjectsAreHeld, BlocksOf
<1>14. ObjectsAreDisjoint' /\ (freeing => depth > 0)'
  BY <1>1 DEF IInv, ObjectsAreDisjoint, WordsOf
<1>15. ReturnedFramesAreEmpty'
  <2>1. \A c \in Arenas : c > depth => chain'[c] = chain[c]
    BY <1>1, <1>3 DEF Arenas
  <2> QED BY <2>1, <1>1 DEF IInv, ReturnedFramesAreEmpty
<1>16. (\A c \in Blocks \ mapped : used[c] = 0)'
  BY <1>6, <1>7 DEF IInv
<1> QED
  BY <1>8, <1>9, <1>10, <1>11, <1>12, <1>13, <1>14, <1>15, <1>16 DEF IInv

-----------------------------------------------------------------------------
(* The invariant.                                                          *)

\* Every step of the program, of arena_alloc and of arena_free keeps IInv.
LEMMA NextIInv == IInv /\ [Next]_vars => IInv'
<1> SUFFICES ASSUME IInv, [Next]_vars PROVE IInv'
  OBVIOUS
<1> USE ArenaAssumption
<1>1. CASE Enter
  <2>1. /\ ~freeing /\ depth < MaxDepth /\ depth' = depth + 1
        /\ chain' = [chain EXCEPT ![depth + 1] = <<>>]
        /\ UNCHANGED <<pool, poolCount, mapped, used, cap, dirty, objects, freeing>>
    BY <1>1 DEF Enter
  <2>2. depth \in Nat /\ depth + 1 \in Arenas /\ chain \in [Arenas -> Seq(Blocks)]
    BY <2>1 DEF IInv, TypeOK, Arenas
  <2>3. chain[depth + 1] = <<>>
    BY <2>2 DEF IInv, ReturnedFramesAreEmpty
  <2>4. chain' = chain
    BY <2>1, <2>2, <2>3
  <2>5. TypeOK'
    BY <2>1, <2>2, <2>4 DEF IInv, TypeOK, Arenas
  <2>6. ReturnedFramesAreEmpty'
    BY <2>1, <2>2, <2>4 DEF IInv, ReturnedFramesAreEmpty, TypeOK, Arenas, Objects
  <2>7. OneHomePerBlock' /\ UnusedIsZero' /\ PoolIsClean' /\ PoolCounted'
        /\ ObjectsAreHeld' /\ ObjectsAreDisjoint'
    BY <2>1, <2>4 DEF IInv, OneHomePerBlock, UnusedIsZero, PoolIsClean, PoolCounted,
       ObjectsAreHeld, ObjectsAreDisjoint, BlocksOf, Held, WordsOf
  <2> QED BY <2>1, <2>5, <2>6, <2>7 DEF IInv
<1>2. CASE New
  <2>1. PICK size \in Sizes : ArenaAlloc(depth, Aligned(size))
    BY <1>2 DEF New
  <2>2. ~freeing /\ depth \in Arenas /\ depth <= depth
    BY <1>2 DEF New, IInv, TypeOK, Arenas
  <2> QED BY <2>1, <2>2, AlignedPositive, ArenaAllocIInv
<1>3. CASE NewForProcess
  <2>1. PICK size \in Sizes : ArenaAlloc(MULTI_ARENA, Aligned(size))
    BY <1>3 DEF NewForProcess
  <2>2. ~freeing /\ MULTI_ARENA \in Arenas /\ MULTI_ARENA <= depth
    BY <1>3 DEF NewForProcess, IInv, TypeOK, Arenas, MULTI_ARENA
  <2> QED BY <2>1, <2>2, AlignedPositive, ArenaAllocIInv
<1>4. CASE Write
  <2>1. PICK w \in LiveWords(objects) : dirty' = dirty \union {w}
    BY <1>4 DEF Write
  <2>2. UNCHANGED <<chain, pool, poolCount, mapped, used, cap, objects, depth, freeing>>
    BY <1>4 DEF Write
  <2>3. w \in Blocks \X Nat /\ w[1] \in mapped /\ w[2] < used[w[1]]
    <3>1. PICK o \in objects : w \in WordsOf(o)
      BY DEF LiveWords
    <3>2. PICK i \in o.at .. o.at + o.len - 1 : w = <<o.block, i>>
      BY <3>1 DEF WordsOf
    <3>3. /\ o.block \in Blocks /\ o.at \in Nat /\ o.len \in Nat /\ o.owner \in Arenas
          /\ o.block \in BlocksOf(o.owner) /\ o.at + o.len <= used[o.block]
          /\ used[o.block] \in Nat
      BY DEF IInv, TypeOK, Objects, ObjectsAreHeld
    <3>4. o.block \in mapped
      BY <3>3 DEF IInv, OneHomePerBlock, Held
    <3> QED BY <3>2, <3>3, <3>4
  <2>4. TypeOK'
    BY <2>1, <2>2, <2>3 DEF IInv, TypeOK
  <2>5. UnusedIsZero'
    BY <2>1, <2>2, <2>3 DEF IInv, UnusedIsZero
  <2>6. OneHomePerBlock' /\ PoolIsClean' /\ PoolCounted' /\ ReturnedFramesAreEmpty'
        /\ ObjectsAreHeld' /\ ObjectsAreDisjoint'
    BY <2>2 DEF IInv, OneHomePerBlock, PoolIsClean, PoolCounted, ReturnedFramesAreEmpty,
       ObjectsAreHeld, ObjectsAreDisjoint, BlocksOf, Held, WordsOf
  <2> QED BY <2>2, <2>4, <2>5, <2>6 DEF IInv
<1>5. CASE Return
  <2>1. /\ depth > 0 /\ freeing' = TRUE
        /\ objects' = {o \in objects : o.owner # depth}
        /\ UNCHANGED <<chain, pool, poolCount, mapped, used, cap, dirty, depth>>
    BY <1>5 DEF Return
  <2>2. TypeOK' /\ ReturnedFramesAreEmpty'
    BY <2>1 DEF IInv, TypeOK, ReturnedFramesAreEmpty
  <2>3. OneHomePerBlock' /\ PoolIsClean' /\ PoolCounted' /\ UnusedIsZero'
    BY <2>1 DEF IInv, OneHomePerBlock, PoolIsClean, PoolCounted, UnusedIsZero, BlocksOf, Held
  <2>4. ObjectsAreHeld' /\ ObjectsAreDisjoint'
    BY <2>1 DEF IInv, ObjectsAreHeld, ObjectsAreDisjoint, BlocksOf
  <2> QED BY <2>1, <2>2, <2>3, <2>4 DEF IInv
<1>6. CASE FreeBlock
  BY <1>6, FreeBlockIInv
<1>7. CASE FreeDone
  <2>1. /\ freeing /\ chain[depth] = <<>> /\ freeing' = FALSE /\ depth' = depth - 1
        /\ UNCHANGED <<chain, pool, poolCount, mapped, used, cap, dirty, objects>>
    BY <1>7 DEF FreeDone
  <2>2. depth \in 1 .. MaxDepth
    BY <2>1 DEF IInv, TypeOK
  <2>3. TypeOK'
    <3>1. depth' \in 0 .. MaxDepth
      BY <2>1, <2>2
    <3> QED BY <2>1, <3>1 DEF IInv, TypeOK
  <2>4. ReturnedFramesAreEmpty'
    <3>1. ASSUME NEW a \in Arenas, a > depth - 1 PROVE chain[a] = <<>>
      <4>1. a = depth \/ a > depth
        BY <3>1, <2>2 DEF Arenas
      <4> QED BY <4>1, <2>1 DEF IInv, ReturnedFramesAreEmpty
    <3>2. ASSUME NEW o \in objects PROVE o.owner <= depth - 1
      <4>1. o.owner <= depth /\ o.owner # depth /\ o.owner \in Arenas
        BY <2>1 DEF IInv, ReturnedFramesAreEmpty, TypeOK, Objects
      <4> QED BY <4>1, <2>2 DEF Arenas
    <3> QED BY <3>1, <3>2, <2>1 DEF ReturnedFramesAreEmpty
  <2>5. OneHomePerBlock' /\ PoolIsClean' /\ PoolCounted' /\ UnusedIsZero'
        /\ ObjectsAreHeld' /\ ObjectsAreDisjoint'
    BY <2>1 DEF IInv, OneHomePerBlock, PoolIsClean, PoolCounted, UnusedIsZero,
       ObjectsAreHeld, ObjectsAreDisjoint, BlocksOf, Held, WordsOf
  <2> QED BY <2>1, <2>3, <2>4, <2>5 DEF IInv
<1>8. CASE UNCHANGED vars
  BY <1>8 DEF vars, IInv, TypeOK, OneHomePerBlock, PoolIsClean, PoolCounted, UnusedIsZero,
     ObjectsAreHeld, ObjectsAreDisjoint, ReturnedFramesAreEmpty, BlocksOf, Held, WordsOf
<1> QED
  BY <1>1, <1>2, <1>3, <1>4, <1>5, <1>6, <1>7, <1>8 DEF Next

\* IInv holds in every state a program reaches.
THEOREM Invariance == Spec => []IInv
<1> QED BY InitIInv, NextIInv, PTL DEF Spec

\* A mapped block is on exactly one list, once, and none is lost.
THEOREM OneHome == Spec => []OneHomePerBlock
<1>1. IInv => OneHomePerBlock
  BY DEF IInv
<1> QED BY <1>1, Invariance, PTL

\* The pool's counter says how long its list is: arena_free decides by it
\* whether a block is kept or unmapped.
THEOREM PoolInStep == Spec => []PoolCounted
<1>1. IInv => PoolCounted
  BY DEF IInv
<1> QED BY <1>1, Invariance, PTL

\* Live objects never share a word, and each lies in a block its owner holds.
THEOREM Disjointness == Spec => [](ObjectsAreDisjoint /\ ObjectsAreHeld)
<1>1. IInv => ObjectsAreDisjoint /\ ObjectsAreHeld
  BY DEF IInv
<1> QED BY <1>1, Invariance, PTL

\* Memory that `new` has yet to hand out is zero.
THEOREM ZeroedMemory == Spec => [](UnusedIsZero /\ PoolIsClean)
<1>1. IInv => UnusedIsZero /\ PoolIsClean
  BY DEF IInv
<1> QED BY <1>1, Invariance, PTL

-----------------------------------------------------------------------------
(* The refinement.                                                         *)

\* A step of arena_alloc is an allocation of ArenaHeap: the object is new, in
\* words nobody holds, and reads 0 throughout.
LEMMA AllocRefines ==
    ASSUME IInv, ~freeing, NEW a \in {depth, MULTI_ARENA}, a <= depth, NEW n \in Nat \ {0},
           ArenaAlloc(a, n)
    PROVE  Heap!New
<1>0. a \in Arenas /\ depth' = depth /\ freeing' = freeing /\ dirty' = dirty
  <2>1. a \in Arenas
    BY ArenaAssumption DEF IInv, TypeOK, Arenas, MULTI_ARENA
  <2> QED BY <2>1 DEF ArenaAlloc, AllocInHead, AllocFirst, AllocGrow, Bump
<1>1. PICK b \in Blocks : Bump(a, b, used[b], n)
  <2>1. CASE AllocInHead(a, n)
    <3>1. chain[a] \in Seq(Blocks) /\ chain[a] # <<>> /\ IsInjective(chain[a])
      BY <2>1, <1>0 DEF AllocInHead, IInv, TypeOK, OneHomePerBlock
    <3> QED BY <3>1, <2>1, PopFacts DEF AllocInHead
  <2>2. CASE AllocFirst(a, n)
    BY <2>2 DEF AllocFirst
  <2>3. CASE AllocGrow(a, n)
    <3>1. PICK b \in Blocks : (PopPooled(n, b) \/ MapFresh(n, b)) /\ Bump(a, b, 0, n)
      BY <2>3 DEF AllocGrow
    <3>2. used[b] = 0
      BY <3>1, TakeBlock
    <3> QED BY <3>1, <3>2
  <2> QED BY <2>1, <2>2, <2>3 DEF ArenaAlloc
<1> DEFINE new == [owner |-> a, block |-> b, at |-> used[b], len |-> n]
<1>2. objects' = objects \union {new}
  BY <1>1 DEF Bump
<1>3. used[b] \in Nat /\ dirty \subseteq Blocks \X Nat
  BY DEF IInv, TypeOK
<1>4. WordsOf(new) \cap LiveWords(objects) = {} /\ new \in Objects
  <2>1. new \in Objects
    BY <1>0, <1>3 DEF Objects
  <2>2. ASSUME NEW o \in objects PROVE WordsOf(new) \cap WordsOf(o) = {}
    <3>1. o.at + o.len <= used[o.block] /\ o.at \in Nat /\ o.len \in Nat
      BY DEF IInv, TypeOK, Objects, ObjectsAreHeld
    <3>2. \A i \in o.at .. o.at + o.len - 1 : o.block = b => i \notin used[b] .. used[b] + n - 1
      BY <3>1, <1>3
    <3> QED BY <3>2 DEF WordsOf
  <2> QED BY <2>1, <2>2 DEF LiveWords
<1>5. WordsOf(new) \cap dirty = {}
  <2> SUFFICES ASSUME NEW i \in used[b] .. used[b] + n - 1, <<b, i>> \in dirty PROVE FALSE
    BY DEF WordsOf
  <2>1. i < used[b]
    BY DEF IInv, UnusedIsZero
  <2> QED BY <2>1, <1>3
<1>6. LiveWords(objects') = LiveWords(objects) \union WordsOf(new)
  BY <1>2 DEF LiveWords
<1>7. dirty' \cap LiveWords(objects') = dirty \cap LiveWords(objects)
  BY <1>0, <1>5, <1>6
<1>8. \E o \in objects' :
          /\ objects' = objects \union {o}
          /\ o \in Heap!Objects
          /\ o.owner \in {IF freeing THEN depth - 1 ELSE depth, Heap!Process}
          /\ Heap!WordsOf(o) \cap Heap!LiveWords(objects) = {}
  <2>1. new \in objects'
    BY <1>2
  <2>2. new \in Heap!Objects
    BY <1>4 DEF Objects, Heap!Objects, Arenas
  <2>3. new.owner \in {IF freeing THEN depth - 1 ELSE depth, Heap!Process}
    BY DEF Heap!Process, MULTI_ARENA
  <2>4. Heap!WordsOf(new) \cap Heap!LiveWords(objects) = {}
    BY <1>4 DEF WordsOf, LiveWords, Heap!WordsOf, Heap!LiveWords
  <2> QED BY <2>1, <2>2, <2>3, <2>4, <1>2
<1> QED BY <1>0, <1>7, <1>8 DEF Heap!New

\* Every step is a step of ArenaHeap, or none at all in its terms.
LEMMA NextRefines == IInv /\ IInv' /\ [Next]_vars => [Heap!Next]_(Heap!vars)
<1> SUFFICES ASSUME IInv, IInv', [Next]_vars PROVE Heap!Next \/ UNCHANGED Heap!vars
  OBVIOUS
<1>0. depth \in 0 .. MaxDepth /\ MaxDepth \in Nat /\ (freeing => depth > 0)
  BY ArenaAssumption DEF IInv, TypeOK
<1>1. CASE Enter
  BY <1>1, <1>0 DEF Enter, Heap!Enter, Heap!Next
<1>2. CASE New
  <2>1. PICK size \in Sizes : ArenaAlloc(depth, Aligned(size))
    BY <1>2 DEF New
  <2>2. Heap!New
    BY <2>1, <1>0, <1>2, AlignedPositive, AllocRefines DEF New, Arenas
  <2> QED BY <2>2 DEF Heap!Next
<1>3. CASE NewForProcess
  <2>1. PICK size \in Sizes : ArenaAlloc(MULTI_ARENA, Aligned(size))
    BY <1>3 DEF NewForProcess
  <2>2. Heap!New
    BY <2>1, <1>0, <1>3, AlignedPositive, AllocRefines DEF NewForProcess, MULTI_ARENA
  <2> QED BY <2>2 DEF Heap!Next
<1>4. CASE Write
  <2>1. PICK w \in LiveWords(objects) : dirty' = dirty \union {w}
    BY <1>4 DEF Write
  <2>2. objects' = objects /\ depth' = depth /\ freeing' = freeing
    BY <1>4 DEF Write
  <2>3. dirty' \cap LiveWords(objects') = (dirty \cap LiveWords(objects)) \union {w}
    BY <2>1, <2>2
  <2>4. w \in Heap!LiveWords(objects)
    BY <2>1 DEF LiveWords, WordsOf, Heap!LiveWords, Heap!WordsOf
  <2> QED BY <2>2, <2>3, <2>4 DEF Heap!Write, Heap!Next
<1>5. CASE Return
  <2>1. /\ ~freeing /\ depth > 0 /\ freeing' = TRUE /\ depth' = depth /\ dirty' = dirty
        /\ objects' = {o \in objects : o.owner # depth}
    BY <1>5 DEF Return
  <2>2. Heap!LiveWords(objects') = LiveWords(objects')
    BY DEF LiveWords, WordsOf, Heap!LiveWords, Heap!WordsOf
  <2>3. LiveWords(objects') \subseteq LiveWords(objects)
    BY <2>1 DEF LiveWords
  <2>4. dirty' \cap LiveWords(objects')
          = (dirty \cap LiveWords(objects)) \cap Heap!LiveWords(objects')
    BY <2>1, <2>2, <2>3
  <2> QED BY <2>1, <2>4 DEF Heap!Return, Heap!Next
<1>6. CASE FreeBlock
  <2>1. /\ objects' = objects /\ depth' = depth /\ freeing' = freeing /\ freeing
    BY <1>6 DEF FreeBlock
  <2>2. dirty' \cap LiveWords(objects) = dirty \cap LiveWords(objects)
    <3>1. \A w \in LiveWords(objects) : w[1] # Head(chain[depth])
      <4> SUFFICES ASSUME NEW o \in objects PROVE o.block # Head(chain[depth])
        BY DEF LiveWords, WordsOf
      <4>1. chain[depth] # <<>> /\ chain[depth] \in Seq(Blocks) /\ IsInjective(chain[depth])
            /\ depth \in Arenas
        BY <1>6, <1>0 DEF FreeBlock, IInv, TypeOK, OneHomePerBlock, Arenas
      <4>2. Head(chain[depth]) \in BlocksOf(depth)
        BY <4>1, PopFacts DEF BlocksOf
      <4>3. o.block \in BlocksOf(o.owner) /\ o.owner # depth /\ o.owner \in Arenas
        BY <2>1 DEF IInv, TypeOK, Objects, ObjectsAreHeld, ReturnedFramesAreEmpty
      <4> QED BY <4>1, <4>2, <4>3 DEF IInv, OneHomePerBlock
    <3>2. /\ dirty' \subseteq dirty
          /\ \A w \in dirty : w[1] # Head(chain[depth]) => w \in dirty'
      BY <1>6 DEF FreeBlock, Recycle, Unmap
    <3> QED BY <3>1, <3>2
  <2> QED BY <2>1, <2>2 DEF Heap!vars
<1>7. CASE FreeDone
  BY <1>7, <1>0 DEF FreeDone, Heap!vars
<1>8. CASE UNCHANGED vars
  BY <1>8 DEF vars, Heap!vars
<1> QED
  BY <1>1, <1>2, <1>3, <1>4, <1>5, <1>6, <1>7, <1>8 DEF Next

\* mem.hy implements what ArenaHeap promises of `new` and of returning.
THEOREM Refinement == Spec => HeapSpec
<1>1. Init => Heap!Init
  BY DEF Init, Heap!Init
<1> QED BY <1>1, NextRefines, Invariance, PTL DEF Spec, HeapSpec, Heap!Spec
=============================================================================
