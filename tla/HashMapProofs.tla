---------------------------- MODULE HashMapProofs ----------------------------
(***************************************************************************)
(* The hash map of stdlib/hashmap.hy is an ordered map, whatever its keys, *)
(* its hash function and the size it begins with.                          *)
(***************************************************************************)
EXTENDS HashMap, FiniteSetTheorems, SequenceTheorems, TLAPS

\* A key has one entry.
OneEntryPerKey == \A i, j \in 1 .. Len(keys) : keys[i] = keys[j] => i = j

\* Never more than half of the slots are taken.
HalfEmpty == 2 * Len(keys) <= cap

\* The index holds numbers of entries that are in it, each once at most.
OneSlotPerEntry ==
    /\ \A s \in Slots : index[s] <= fill
    /\ \A s, t \in Slots : index[s] = index[t] /\ index[s] # 0 => s = t

\* From a key's home to its entry there is no empty slot.
Chained ==
    \A e \in 1 .. fill : \E j \in Slots :
        /\ index[Nth(keys[e], j)] = e
        /\ \A h \in 0 .. j : index[Nth(keys[e], h)] # 0

\* The inductive invariant.
IInv ==
    /\ TypeOK
    /\ OneEntryPerKey
    /\ HalfEmpty
    /\ OneSlotPerEntry
    /\ Chained

-----------------------------------------------------------------------------
(* Remainders: a probe of cap steps comes by every slot.                   *)

\* The only multiple of c between -c and c is 0.
LEMMA SmallMultiple ==
    ASSUME NEW c \in Nat \ {0}, NEW d \in Int, NEW e \in Int, e = c * d, e < c, -c < e
    PROVE  d = 0
<1>1. CASE d >= 1
  <2>1. c * d >= c * 1
    BY <1>1
  <2> QED BY <2>1
<1>2. CASE d <= -1
  <2>1. c * d <= c * (-1)
    BY <1>2
  <2> QED BY <2>1
<1> QED BY <1>1, <1>2

\* Quotient and remainder.
LEMMA Division ==
    ASSUME NEW c \in Nat \ {0}, NEW a \in Int
    PROVE  a % c \in 0 .. c - 1 /\ a \div c \in Int /\ a = c * (a \div c) + (a % c)
OBVIOUS

\* There is no other remainder.
LEMMA Remainder ==
    ASSUME NEW c \in Nat \ {0}, NEW q \in Int, NEW s \in 0 .. c - 1, NEW a \in Int, a = c * q + s
    PROVE  a % c = s
<1>1. PICK m \in 0 .. c - 1, t \in Int : a % c = m /\ a = c * t + m
  BY Division
<1>2. c * (q - t) = c * q - c * t /\ c * q \in Int /\ c * t \in Int /\ c * (q - t) \in Int
  BY <1>1
<1>3. c * q - c * t = m - s
  <2> DEFINE x == c * q
             y == c * t
  <2>1. a = x + s /\ a = y + m /\ x \in Int /\ y \in Int
    BY <1>1, <1>2
  <2> HIDE DEF x, y
  <2>2. x - y = m - s
    BY <2>1
  <2> QED BY <2>2 DEF x, y
<1>4. q - t = 0
  <2>1. m - s \in Int /\ q - t \in Int /\ m - s < c /\ -c < m - s
    BY <1>1
  <2>2. m - s = c * (q - t)
    BY <1>2, <1>3
  <2> QED BY <2>1, <2>2, SmallMultiple
<1>5. q = t
  BY <1>1, <1>4
<1> QED BY <1>1, <1>3, <1>5

\* Counting up from h, modulo c, one meets every remainder within c steps.
LEMMA Hits ==
    ASSUME NEW c \in Nat \ {0}, NEW h \in Nat, NEW s \in 0 .. c - 1
    PROVE  \E j \in 0 .. c - 1 : (h + j) % c = s
<1>1. PICK r \in 0 .. c - 1, q \in Int : h = c * q + r
  <2>1. h \in Int
    OBVIOUS
  <2>2. h % c \in 0 .. c - 1 /\ h \div c \in Int /\ h = c * (h \div c) + (h % c)
    BY <2>1, Division
  <2> QED BY <2>2
<1>2. c * q \in Int /\ c * (q + 1) = c * q + c
  BY <1>1
<1>3. CASE s >= r
  <2>1. s - r \in 0 .. c - 1 /\ h + (s - r) \in Int /\ h + (s - r) = c * q + s
    BY <1>1, <1>2, <1>3
  <2>2. (h + (s - r)) % c = s
    BY <1>1, <2>1, Remainder
  <2> QED BY <2>1, <2>2
<1>4. CASE s < r
  <2>0. PICK p \in Int : p = q + 1
    BY <1>1
  <2>1. s - r + c \in 0 .. c - 1 /\ h + (s - r + c) \in Int
    BY <1>1, <1>4
  <2>2. h + (s - r + c) = c * p + s
    BY <1>1, <1>2, <2>0
  <2>3. (h + (s - r + c)) % c = s
    BY <2>1, <2>2, Remainder
  <2> QED BY <2>1, <2>3
<1> QED BY <1>1, <1>3, <1>4

\* A set of probes that is not empty has a first one.  (If none of them were,
\* counting up by one would map what lies before all of them into itself, and
\* miss 0.)
LEMMA Earliest ==
    ASSUME NEW n \in Nat, NEW S \in SUBSET (0 .. n - 1), S # {}
    PROVE  First(S) \in S /\ \A h \in S : First(S) <= h
<1>1. \E j \in S : \A h \in S : j <= h
  <2> DEFINE D == {x \in 0 .. n - 1 : \A y \in S : x <= y}
             up == [x \in D |-> x + 1]
  <2> SUFFICES ASSUME \A j \in S : \E h \in S : ~(j <= h)
               PROVE  FALSE
    OBVIOUS
  <2>1. ASSUME NEW x \in D
        PROVE  x + 1 \in D
    <3>1. x \notin S
      OBVIOUS
    <3>2. \A y \in S : x + 1 <= y
      BY <3>1
    <3>3. PICK y \in S : TRUE
      OBVIOUS
    <3> QED BY <3>2, <3>3
  <2>2. 0 \in D
    <3>1. PICK y \in S : TRUE
      OBVIOUS
    <3> QED BY <3>1
  <2>3. IsFiniteSet(D)
    <3>1. IsFiniteSet(0 .. n - 1)
      BY FS_Interval
    <3> QED BY <3>1, FS_Subset
  <2>4. up \in Injection(D, D)
    BY <2>1 DEF Injection, IsInjective
  <2>5. up \in Surjection(D, D)
    BY <2>3, <2>4, FS_Injection
  <2>6. PICK x \in D : up[x] = 0
    BY <2>2, <2>5 DEF Surjection
  <2> QED BY <2>6
<1> QED BY <1>1 DEF First

-----------------------------------------------------------------------------
(* Searching.                                                              *)

\* What the constants and the type invariant say of a probe.
LEMMA ProbeFacts ==
    ASSUME TypeOK, NEW k \in Key
    PROVE  /\ cap \in Nat \ {0} /\ hash[k] \in Nat
           /\ \A j \in Nat : Nth(k, j) \in Slots
           /\ \A s \in Slots : \E j \in Slots : Nth(k, j) = s
<1>1. cap \in Nat \ {0} /\ hash[k] \in Nat
  BY MapAssumption DEF TypeOK
<1>2. ASSUME NEW j \in Nat
      PROVE  Nth(k, j) \in Slots
  <2>1. hash[k] + j \in Int
    BY <1>1
  <2> QED BY <1>1, <2>1, Division DEF Nth, Slots
<1>3. ASSUME NEW s \in Slots
      PROVE  \E j \in Slots : Nth(k, j) = s
  BY <1>1, Hits DEF Nth, Slots
<1> QED BY <1>1, <1>2, <1>3

\* There is an empty slot: fewer entries than slots, each in one of them.
LEMMA SlotLeft ==
    ASSUME TypeOK, HalfEmpty, OneSlotPerEntry
    PROVE  \E s \in Slots : index[s] = 0
<1> SUFFICES ASSUME \A s \in Slots : index[s] # 0
             PROVE  FALSE
  OBVIOUS
<1>1. cap \in Nat \ {0} /\ fill \in Nat /\ Len(keys) \in Nat /\ fill <= Len(keys)
  BY DEF TypeOK
<1>2. index \in [Slots -> 1 .. fill]
  <2>1. \A s \in Slots : index[s] \in 1 .. fill
    BY <1>1 DEF TypeOK, OneSlotPerEntry
  <2> QED BY <2>1 DEF TypeOK
<1>3. IsFiniteSet(Slots) /\ Cardinality(Slots) = cap
  <2>1. 0 \in Int /\ cap - 1 \in Int /\ ~(0 > cap - 1) /\ cap - 1 - 0 + 1 = cap
    BY <1>1
  <2> QED BY <2>1, FS_Interval DEF Slots
<1>4. IsFiniteSet(1 .. fill) /\ Cardinality(1 .. fill) = fill
  BY <1>1, FS_Interval
<1>5. fill < cap
  BY <1>1 DEF HalfEmpty
<1>6. \E s, t \in Slots : s # t /\ index[s] = index[t]
  BY <1>2, <1>3, <1>4, <1>5, FS_PigeonHole
<1> QED BY <1>6 DEF OneSlotPerEntry

\* So every probe ends.
LEMMA ProbesAlwaysEnd ==
    ASSUME TypeOK, HalfEmpty, OneSlotPerEntry
    PROVE  ProbesEnd
<1> SUFFICES ASSUME NEW k \in Key
             PROVE  Ends(k) # {} /\ Free(k) # {}
  BY DEF ProbesEnd
<1>1. PICK s \in Slots : index[s] = 0
  BY SlotLeft
<1>2. PICK j \in Slots : Nth(k, j) = s
  BY ProbeFacts
<1> QED BY <1>1, <1>2 DEF Ends, Free

\* A search finds the number of a key's entry, if that is in the index.
LEMMA Search ==
    ASSUME IInv, NEW k \in Key
    PROVE  /\ \A e \in 1 .. fill : keys[e] = k => Find(k) = e
           /\ (\A e \in 1 .. fill : keys[e] # k) => Find(k) = 0
           /\ Find(k) \in 0 .. fill
<1> DEFINE j == First(Ends(k))
<1>1. cap \in Nat \ {0} /\ fill \in Nat /\ fill <= Len(keys) /\ Len(keys) \in Nat
  BY DEF IInv, TypeOK
<1>2. j \in Ends(k) /\ \A h \in Ends(k) : j <= h
  <2>1. Ends(k) \in SUBSET (0 .. cap - 1) /\ Ends(k) # {}
    BY ProbesAlwaysEnd DEF IInv, ProbesEnd, Ends, Slots
  <2> QED BY <1>1, <2>1, Earliest
<1> HIDE DEF j
<1>3. Find(k) = index[Nth(k, j)]
  BY DEF Find, j
<1>4. j \in Slots /\ j \in Nat /\ Nth(k, j) \in Slots
  <2>1. j \in Slots
    BY <1>2 DEF Ends
  <2>2. j \in Nat
    BY <1>1, <2>1 DEF Slots
  <2> QED BY <2>1, <2>2, ProbeFacts DEF IInv
<1>5. Find(k) \in 0 .. fill
  BY <1>1, <1>3, <1>4 DEF IInv, TypeOK, OneSlotPerEntry
<1>6. Find(k) = 0 \/ keys[Find(k)] = k
  BY <1>2, <1>3 DEF Ends
<1>7. ASSUME NEW e \in 1 .. fill, keys[e] = k
      PROVE  Find(k) = e
  <2>1. PICK i \in Slots : index[Nth(k, i)] = e /\ \A h \in 0 .. i : index[Nth(k, h)] # 0
    BY <1>7 DEF IInv, Chained
  <2>2. i \in Ends(k)
    BY <1>7, <2>1 DEF Ends
  <2>3. j \in 0 .. i
    BY <1>1, <1>2, <1>4, <2>1, <2>2 DEF Slots
  <2>4. keys[Find(k)] = k /\ Find(k) # 0
    BY <1>3, <1>6, <2>1, <2>3
  <2>5. Find(k) \in 1 .. Len(keys) /\ e \in 1 .. Len(keys)
    BY <1>1, <1>5, <2>4
  <2> QED BY <1>7, <2>4, <2>5 DEF IInv, OneEntryPerKey
<1>8. ASSUME \A e \in 1 .. fill : keys[e] # k
      PROVE  Find(k) = 0
  BY <1>1, <1>5, <1>6, <1>8
<1> QED BY <1>5, <1>7, <1>8

\* An insertion goes to an empty slot that is next behind taken ones.
LEMMA Landing ==
    ASSUME IInv, NEW k \in Key
    PROVE  \E j \in Slots : /\ SlotFor(k) = Nth(k, j) /\ SlotFor(k) \in Slots
                            /\ index[SlotFor(k)] = 0
                            /\ \A h \in Nat : h < j => index[Nth(k, h)] # 0
<1> DEFINE j == First(Free(k))
<1>1. cap \in Nat \ {0}
  BY DEF IInv, TypeOK
<1>2. j \in Free(k) /\ \A h \in Free(k) : j <= h
  <2>1. Free(k) \in SUBSET (0 .. cap - 1) /\ Free(k) # {}
    BY ProbesAlwaysEnd DEF IInv, ProbesEnd, Free, Slots
  <2> QED BY <1>1, <2>1, Earliest
<1>3. SlotFor(k) = Nth(k, j)
  BY DEF SlotFor
<1> HIDE DEF j
<1>4. j \in Slots /\ j \in Nat /\ index[Nth(k, j)] = 0 /\ Nth(k, j) \in Slots
  BY <1>1, <1>2, ProbeFacts DEF IInv, Free, Slots
<1>5. ASSUME NEW h \in Nat, h < j
      PROVE  index[Nth(k, h)] # 0
  <2>1. h \in Slots /\ ~(j <= h)
    BY <1>1, <1>4, <1>5 DEF Slots
  <2> QED BY <1>2, <2>1 DEF Free
<1> QED BY <1>3, <1>4, <1>5

-----------------------------------------------------------------------------
(* Entries and the index.                                                  *)

\* Without entry e, those behind it move up by one.
LEMMA Removal ==
    ASSUME NEW S, NEW q \in Seq(S), NEW e \in 1 .. Len(q)
    PROVE  /\ Without(q, e) \in Seq(S)
           /\ Len(Without(q, e)) = Len(q) - 1
           /\ \A i \in 1 .. Len(q) - 1 : Without(q, e)[i] = IF i < e THEN q[i] ELSE q[i + 1]
<1> DEFINE l == SubSeq(q, 1, e - 1)
           r == SubSeq(q, e + 1, Len(q))
<1>1. Len(q) \in Nat /\ e \in Int /\ \A i \in 1 .. Len(q) : q[i] \in S
  BY ElementOfSeq
<1>2. l \in Seq(S) /\ Len(l) = e - 1 /\ \A i \in 1 .. e - 1 : l[i] = q[i]
  <2>1. 1 \in Int /\ e - 1 \in Int /\ \A i \in 1 .. e - 1 : q[i] \in S
    BY <1>1
  <2>2. /\ l \in Seq(S)
        /\ Len(l) = IF 1 <= e - 1 THEN e - 1 - 1 + 1 ELSE 0
        /\ \A i \in 1 .. e - 1 - 1 + 1 : l[i] = q[1 + i - 1]
    BY <2>1, SubSeqProperties
  <2> QED BY <1>1, <2>2
<1>3. r \in Seq(S) /\ Len(r) = Len(q) - e /\ \A i \in 1 .. Len(q) - e : r[i] = q[e + i]
  <2>1. e + 1 \in Int /\ Len(q) \in Int /\ \A i \in e + 1 .. Len(q) : q[i] \in S
    BY <1>1
  <2>2. /\ r \in Seq(S)
        /\ Len(r) = IF e + 1 <= Len(q) THEN Len(q) - (e + 1) + 1 ELSE 0
        /\ \A i \in 1 .. Len(q) - (e + 1) + 1 : r[i] = q[e + 1 + i - 1]
    BY <2>1, SubSeqProperties
  <2>3. Len(r) = Len(q) - e
    BY <1>1, <2>2
  <2>4. ASSUME NEW i \in 1 .. Len(q) - e
        PROVE  r[i] = q[e + i]
    <3>1. i \in 1 .. Len(q) - (e + 1) + 1 /\ e + 1 + i - 1 = e + i
      BY <1>1
    <3> QED BY <2>2, <3>1
  <2> QED BY <2>2, <2>3, <2>4
<1>4. Without(q, e) = l \o r
  BY DEF Without
<1> HIDE DEF l, r
<1>5. /\ l \o r \in Seq(S) /\ Len(l \o r) = Len(l) + Len(r)
      /\ \A i \in 1 .. Len(l) + Len(r) : (l \o r)[i] = IF i <= Len(l) THEN l[i] ELSE r[i - Len(l)]
  BY <1>2, <1>3, ConcatProperties
<1>6. ASSUME NEW i \in 1 .. Len(q) - 1
      PROVE  (l \o r)[i] = IF i < e THEN q[i] ELSE q[i + 1]
  <2>1. CASE i < e
    BY <1>1, <1>2, <1>3, <1>5, <2>1
  <2>2. CASE ~(i < e)
    <3>1. i - (e - 1) \in 1 .. Len(q) - e /\ e + (i - (e - 1)) = i + 1
      BY <1>1, <2>2
    <3>2. (l \o r)[i] = r[i - (e - 1)]
      BY <1>1, <1>2, <1>3, <1>5, <2>2
    <3> QED BY <1>3, <2>2, <3>1, <3>2
  <2> QED BY <2>1, <2>2
<1> QED BY <1>1, <1>2, <1>3, <1>4, <1>5, <1>6

\* An empty index is in order.
LEMMA Restarted ==
    ASSUME NEW c \in Nat \ {0}, Restart(c)
    PROVE  OneSlotPerEntry' /\ Chained' /\ cap' \in Nat \ {0}
           /\ index' = [s \in Slots' |-> 0] /\ fill' = 0
<1>1. cap' = c /\ index' = [s \in Slots' |-> 0] /\ fill' = 0
  BY DEF Restart, Empty, Slots
<1>2. OneSlotPerEntry'
  BY <1>1 DEF OneSlotPerEntry
<1>3. Chained'
  BY <1>1 DEF Chained
<1> QED BY <1>1, <1>2, <1>3

\* An entry that is put where a search for it begins to fail is found, and those
\* that were are still.
LEMMA Placed ==
    ASSUME IInv, NEW k \in Key, UNCHANGED <<hash, cap>>,
           index' = [index EXCEPT ![SlotFor(k)] = fill + 1], fill' = fill + 1,
           keys'[fill + 1] = k,
           \A e \in 1 .. fill : keys'[e] = keys[e]
    PROVE  OneSlotPerEntry' /\ Chained'
<1>1. fill \in Nat /\ cap \in Nat \ {0} /\ index \in [Slots -> 0 .. Len(keys)]
  BY DEF IInv, TypeOK
<1>2. Slots' = Slots /\ \A x, j : Nth(x, j)' = Nth(x, j)
  BY DEF Slots, Nth
<1>3. PICK j \in Slots : /\ SlotFor(k) = Nth(k, j) /\ SlotFor(k) \in Slots
                         /\ index[SlotFor(k)] = 0
                         /\ \A h \in Nat : h < j => index[Nth(k, h)] # 0
  BY Landing
<1> DEFINE at == SlotFor(k)
<1> HIDE DEF at
<1>4. /\ index'[at] = fill + 1
      /\ \A s \in Slots : s # at => index'[s] = index[s]
  BY <1>1, <1>3 DEF at
<1>5. \A s \in Slots : index[s] \in 0 .. fill
  BY <1>1 DEF IInv, TypeOK, OneSlotPerEntry
<1>6. \A s \in Slots : index[s] # 0 => index'[s] # 0
  BY <1>1, <1>3, <1>4
<1>7. OneSlotPerEntry'
  <2>1. \A s \in Slots : index'[s] <= fill'
    BY <1>1, <1>4, <1>5
  <2>2. ASSUME NEW s \in Slots, NEW t \in Slots, index'[s] = index'[t], index'[s] # 0
        PROVE  s = t
    <3>1. CASE s # at /\ t # at
      BY <1>4, <2>2, <3>1 DEF IInv, OneSlotPerEntry
    <3>2. CASE s = at \/ t = at
      BY <1>1, <1>4, <1>5, <2>2, <3>2
    <3> QED BY <3>1, <3>2
  <2> QED BY <1>2, <2>1, <2>2 DEF OneSlotPerEntry
<1>8. Chained'
  <2> SUFFICES ASSUME NEW e \in 1 .. fill + 1
               PROVE  \E i \in Slots : /\ index'[Nth(keys'[e], i)] = e
                                       /\ \A h \in 0 .. i : index'[Nth(keys'[e], h)] # 0
    BY <1>2 DEF Chained
  <2>1. CASE e = fill + 1
    <3>1. index'[Nth(k, j)] = fill + 1
      BY <1>3, <1>4 DEF at
    <3>2. ASSUME NEW h \in 0 .. j
          PROVE  index'[Nth(k, h)] # 0
      <4>1. j \in Nat /\ h \in Nat
        BY <1>1 DEF Slots
      <4>2. CASE h = j
        BY <1>1, <3>1, <4>2
      <4>3. CASE h < j
        <5>1. Nth(k, h) \in Slots /\ index[Nth(k, h)] # 0
          BY <1>3, <4>1, <4>3, ProbeFacts DEF IInv
        <5> QED BY <1>6, <5>1
      <4> QED BY <4>1, <4>2, <4>3
    <3> QED BY <2>1, <3>1, <3>2
  <2>2. CASE e \in 1 .. fill
    <3>1. keys[e] \in Key /\ keys'[e] = keys[e]
      <4>1. e \in 1 .. Len(keys) /\ keys \in Seq(Key)
        BY <1>1, <2>2 DEF IInv, TypeOK
      <4> QED BY <2>2, <4>1, ElementOfSeq
    <3>2. PICK i \in Slots : index[Nth(keys[e], i)] = e /\ \A h \in 0 .. i : index[Nth(keys[e], h)] # 0
      BY <2>2 DEF IInv, Chained
    <3>3. i \in Nat
      BY <1>1 DEF Slots
    <3>4. ASSUME NEW h \in 0 .. i
          PROVE  Nth(keys[e], h) \in Slots /\ index'[Nth(keys[e], h)] # 0
                 /\ index'[Nth(keys[e], h)] = index[Nth(keys[e], h)]
      <4>1. h \in Nat
        BY <3>3
      <4>2. Nth(keys[e], h) \in Slots
        BY <3>1, <4>1, ProbeFacts DEF IInv
      <4> QED BY <1>3, <1>4, <3>2, <4>2 DEF at
    <3>5. i \in 0 .. i
      BY <3>3
    <3> QED BY <3>1, <3>2, <3>4, <3>5
  <2> QED BY <1>1, <2>1, <2>2
<1> QED BY <1>7, <1>8

-----------------------------------------------------------------------------
(* The actions.                                                            *)

\* A map that nothing has been put in.
LEMMA Initially == Init => IInv
<1> SUFFICES ASSUME Init PROVE IInv
  OBVIOUS
<1>1. /\ hash \in Hashes /\ keys = <<>> /\ vals = <<>> /\ cap = InitCap /\ cap \in Nat \ {0}
      /\ index = [s \in Slots |-> 0] /\ fill = 0 /\ ret = Missing
  BY MapAssumption DEF Init, Empty, Slots
<1>2. TypeOK
  BY <1>1 DEF TypeOK
<1> QED BY <1>1, <1>2 DEF IInv, OneEntryPerKey, HalfEmpty, OneSlotPerEntry, Chained

\* An overwritten value leaves keys and index alone.
LEMMA OverwriteKeeps ==
    ASSUME IInv, NEW k \in Key, NEW v \in Val, Overwrite(k, v)
    PROVE  IInv'
<1>1. UNCHANGED <<hash, keys, index, cap, fill, ret>> /\ vals' = [vals EXCEPT ![Find(k)] = v]
  BY DEF Overwrite
<1>2. vals' \in Seq(Val) /\ Len(vals') = Len(vals)
  <2>1. vals \in Seq(Val) /\ Len(vals) = Len(keys) /\ fill <= Len(keys) /\ fill \in Nat /\ Len(keys) \in Nat
    BY DEF IInv, TypeOK
  <2>2. Find(k) \in 0 .. fill /\ Find(k) # 0
    BY Search DEF Overwrite
  <2>3. Find(k) \in 1 .. Len(vals)
    BY <2>1, <2>2
  <2> QED BY <1>1, <2>1, <2>3, ExceptSeq
<1> QED BY <1>1, <1>2 DEF IInv, TypeOK, OneEntryPerKey, HalfEmpty, OneSlotPerEntry, Chained, Nth, Slots

\* A new entry comes last, and its key is new.
LEMMA InsertKeeps ==
    ASSUME IInv, NEW k \in Key, NEW v \in Val, Idle, Insert(k, v)
    PROVE  IInv'
<1>1. /\ keys' = Append(keys, k) /\ vals' = Append(vals, v) /\ UNCHANGED <<hash, ret>> /\ Find(k) = 0
  BY DEF Insert, InsertWhen
<1>2. /\ keys \in Seq(Key) /\ vals \in Seq(Val) /\ Len(vals) = Len(keys) /\ fill = Len(keys)
      /\ fill \in Nat /\ Len(keys) \in Nat /\ cap \in Nat \ {0} /\ 2 * Len(keys) <= cap
  BY DEF IInv, TypeOK, HalfEmpty, Idle
<1>3. /\ keys' \in Seq(Key) /\ Len(keys') = Len(keys) + 1
      /\ \A e \in 1 .. Len(keys) : keys'[e] = keys[e]
      /\ keys'[Len(keys) + 1] = k
  BY <1>1, <1>2, AppendProperties
<1>4. vals' \in Seq(Val) /\ Len(vals') = Len(vals) + 1
  BY <1>1, <1>2, AppendProperties
<1>5. \A e \in 1 .. Len(keys) : keys[e] # k
  <2>1. \A e \in 1 .. fill : keys[e] = k => Find(k) = e
    BY Search
  <2> QED BY <1>1, <1>2, <2>1
<1>6. OneEntryPerKey'
  <2> SUFFICES ASSUME NEW i \in 1 .. Len(keys) + 1, NEW j \in 1 .. Len(keys) + 1, keys'[i] = keys'[j]
               PROVE  i = j
    BY <1>3 DEF OneEntryPerKey
  <2>1. CASE i \in 1 .. Len(keys) /\ j \in 1 .. Len(keys)
    BY <1>3, <2>1 DEF IInv, OneEntryPerKey
  <2>2. CASE i = Len(keys) + 1 \/ j = Len(keys) + 1
    BY <1>2, <1>3, <1>5, <2>2
  <2> QED BY <1>2, <2>1, <2>2
<1>7. CASE (Len(keys) + 1) * 2 > cap
  <2>1. Restart(cap * 2)
    BY <1>7 DEF Insert, InsertWhen
  <2>2. cap * 2 \in Nat \ {0} /\ cap' = cap * 2
    BY <1>2, <2>1 DEF Restart
  <2>3. OneSlotPerEntry' /\ Chained' /\ index' = [s \in Slots' |-> 0] /\ fill' = 0
    BY <2>1, <2>2, Restarted
  <2>4. HalfEmpty'
    BY <1>2, <1>3, <2>2 DEF HalfEmpty
  <2>5. TypeOK'
    <3>1. index' \in [Slots' -> 0 .. Len(keys')] /\ fill' \in 0 .. Len(keys')
      BY <1>2, <1>3, <2>3
    <3>2. hash' \in Hashes /\ ret' \in Val \union {Missing} /\ cap' \in Nat \ {0} /\ Len(vals') = Len(keys')
      BY <1>1, <1>2, <1>3, <1>4, <2>2 DEF IInv, TypeOK
    <3> QED BY <1>3, <1>4, <3>1, <3>2 DEF TypeOK
  <2> QED BY <1>6, <2>3, <2>4, <2>5 DEF IInv
<1>8. CASE ~((Len(keys) + 1) * 2 > cap)
  <2>1. index' = [index EXCEPT ![SlotFor(k)] = fill + 1] /\ fill' = fill + 1 /\ cap' = cap
    BY <1>2, <1>8 DEF Insert, InsertWhen
  <2>2. OneSlotPerEntry' /\ Chained'
    BY <1>1, <1>2, <1>3, <2>1, Placed
  <2>3. HalfEmpty'
    BY <1>2, <1>3, <1>8, <2>1 DEF HalfEmpty
  <2>4. TypeOK'
    <3>1. Slots' = Slots
      BY <2>1 DEF Slots
    <3>2. index' \in [Slots -> 0 .. Len(keys')]
      <4>1. fill + 1 \in 0 .. Len(keys') /\ 0 .. Len(keys) \subseteq 0 .. Len(keys')
        BY <1>2, <1>3
      <4>2. index \in [Slots -> 0 .. Len(keys)]
        BY DEF IInv, TypeOK
      <4> QED BY <2>1, <4>1, <4>2
    <3>3. hash' \in Hashes /\ ret' \in Val \union {Missing} /\ fill' \in 0 .. Len(keys') /\ Len(vals') = Len(keys')
      BY <1>1, <1>2, <1>3, <1>4, <2>1 DEF IInv, TypeOK
    <3> QED BY <1>2, <1>3, <1>4, <2>1, <3>1, <3>2, <3>3 DEF TypeOK
  <2> QED BY <1>6, <2>2, <2>3, <2>4 DEF IInv
<1> QED BY <1>7, <1>8

\* The entries behind the removed one move up, and the index begins anew.
LEMMA RemoveKeeps ==
    ASSUME IInv, NEW k \in Key, Remove(k)
    PROVE  IInv'
<1>1. /\ keys' = Without(keys, Find(k)) /\ vals' = Without(vals, Find(k)) /\ Restart(cap)
      /\ UNCHANGED <<hash, ret>> /\ Find(k) # 0
  BY DEF Remove
<1>2. /\ keys \in Seq(Key) /\ vals \in Seq(Val) /\ Len(vals) = Len(keys) /\ fill <= Len(keys)
      /\ fill \in Nat /\ Len(keys) \in Nat /\ cap \in Nat \ {0} /\ 2 * Len(keys) <= cap
  BY DEF IInv, TypeOK, HalfEmpty
<1>3. Find(k) \in 1 .. Len(keys)
  <2>1. Find(k) \in 0 .. fill
    BY Search
  <2> QED BY <1>1, <1>2, <2>1
<1>4. /\ keys' \in Seq(Key) /\ Len(keys') = Len(keys) - 1
      /\ \A i \in 1 .. Len(keys) - 1 : keys'[i] = IF i < Find(k) THEN keys[i] ELSE keys[i + 1]
  BY <1>1, <1>2, <1>3, Removal
<1>5. vals' \in Seq(Val) /\ Len(vals') = Len(vals) - 1
  BY <1>1, <1>2, <1>3, Removal
<1>6. /\ OneSlotPerEntry' /\ Chained' /\ cap' = cap
      /\ index' = [s \in Slots' |-> 0] /\ fill' = 0
  BY <1>1, <1>2, Restarted DEF Restart
<1>7. OneEntryPerKey'
  <2> SUFFICES ASSUME NEW i \in 1 .. Len(keys) - 1, NEW j \in 1 .. Len(keys) - 1, keys'[i] = keys'[j]
               PROVE  i = j
    BY <1>4 DEF OneEntryPerKey
  <2> DEFINE was(x) == IF x < Find(k) THEN x ELSE x + 1
  <2>1. keys'[i] = keys[was(i)] /\ keys'[j] = keys[was(j)]
    BY <1>4
  <2>2. was(i) \in 1 .. Len(keys) /\ was(j) \in 1 .. Len(keys)
    BY <1>2, <1>3
  <2>3. was(i) = was(j)
    BY <2>1, <2>2 DEF IInv, OneEntryPerKey
  <2> QED BY <1>2, <1>3, <2>3
<1>8. HalfEmpty'
  BY <1>2, <1>4, <1>6 DEF HalfEmpty
<1>9. TypeOK'
  <2>1. Len(keys') \in Nat /\ Len(vals') = Len(keys')
    BY <1>2, <1>4, <1>5
  <2>2. index' \in [Slots' -> 0 .. Len(keys')] /\ fill' \in 0 .. Len(keys')
    BY <1>6, <2>1
  <2>3. hash' \in Hashes /\ ret' \in Val \union {Missing} /\ cap' \in Nat \ {0}
    BY <1>1, <1>2, <1>6 DEF IInv, TypeOK
  <2> QED BY <1>4, <1>5, <2>1, <2>2, <2>3 DEF TypeOK
<1> QED BY <1>6, <1>7, <1>8, <1>9 DEF IInv

\* The rebuild puts back one entry after the other.
LEMMA ReindexKeeps == ASSUME IInv, Reindex PROVE IInv'
<1> DEFINE k == keys[fill + 1]
<1>1. /\ index' = [index EXCEPT ![SlotFor(k)] = fill + 1] /\ fill' = fill + 1
      /\ UNCHANGED <<hash, keys, vals, cap, ret>>
  BY DEF Reindex
<1>2. /\ keys \in Seq(Key) /\ fill \in Nat /\ Len(keys) \in Nat /\ fill + 1 \in 1 .. Len(keys)
      /\ index \in [Slots -> 0 .. Len(keys)]
  BY DEF IInv, TypeOK, Reindex, Idle
<1>3. k \in Key
  BY <1>2, ElementOfSeq
<1> HIDE DEF k
<1>4. OneSlotPerEntry' /\ Chained'
  <2>1. keys'[fill + 1] = k /\ \A e \in 1 .. fill : keys'[e] = keys[e]
    BY <1>1 DEF k
  <2> QED BY <1>1, <1>3, <2>1, Placed
<1>5. TypeOK'
  <2>1. Slots' = Slots
    BY <1>1 DEF Slots
  <2>2. fill + 1 \in 0 .. Len(keys) /\ index \in [Slots -> 0 .. Len(keys)]
    BY <1>2
  <2>3. index' \in [Slots -> 0 .. Len(keys)] /\ fill' \in 0 .. Len(keys)
    BY <1>1, <2>2
  <2> QED BY <1>1, <2>1, <2>3 DEF IInv, TypeOK
<1>6. OneEntryPerKey' /\ HalfEmpty'
  BY <1>1 DEF IInv, OneEntryPerKey, HalfEmpty
<1> QED BY <1>4, <1>5, <1>6 DEF IInv

\* A look-up changes nothing but its answer.
LEMMA GetKeeps == ASSUME IInv, NEW k \in Key, Get(k) PROVE IInv'
<1>1. UNCHANGED <<hash, keys, vals, index, cap, fill>>
  BY DEF Get
<1>2. ret' \in Val \union {Missing}
  <2>1. vals \in Seq(Val) /\ Len(vals) = Len(keys) /\ fill <= Len(keys) /\ fill \in Nat /\ Len(keys) \in Nat
    BY DEF IInv, TypeOK
  <2>2. Find(k) \in 0 .. fill
    BY Search
  <2>3. CASE Find(k) = 0
    BY <2>3 DEF Get
  <2>4. CASE Find(k) # 0
    <3>1. Find(k) \in 1 .. Len(vals)
      BY <2>1, <2>2, <2>4
    <3>2. vals[Find(k)] \in Val
      BY <2>1, <3>1, ElementOfSeq
    <3> QED BY <2>4, <3>2 DEF Get
  <2> QED BY <2>3, <2>4
<1>3. TypeOK'
  BY <1>1, <1>2 DEF IInv, TypeOK, Slots
<1>4. OneEntryPerKey' /\ HalfEmpty' /\ OneSlotPerEntry' /\ Chained'
  BY <1>1 DEF IInv, OneEntryPerKey, HalfEmpty, OneSlotPerEntry, Chained, Nth, Slots
<1> QED BY <1>3, <1>4 DEF IInv

\* All steps together.
LEMMA StepKeeps == IInv /\ [Next]_vars => IInv'
<1> SUFFICES ASSUME IInv, [Next]_vars PROVE IInv'
  OBVIOUS
<1>1. CASE Reindex
  BY <1>1, ReindexKeeps
<1>2. ASSUME NEW k \in Key, Remove(k) PROVE IInv'
  BY <1>2, RemoveKeeps
<1>3. ASSUME NEW k \in Key, Get(k) PROVE IInv'
  BY <1>3, GetKeeps
<1>4. ASSUME NEW k \in Key, NEW v \in Val, Put(k, v) PROVE IInv'
  BY <1>4, OverwriteKeeps, InsertKeeps DEF Put
<1>5. CASE UNCHANGED vars
  BY <1>5 DEF vars, IInv, TypeOK, OneEntryPerKey, HalfEmpty, OneSlotPerEntry, Chained, Nth, Slots
<1> QED BY <1>1, <1>2, <1>3, <1>4, <1>5 DEF Next

-----------------------------------------------------------------------------
(* Refinement.                                                             *)

\* Keys and values side by side: the entries of OrderedMap.
Entries(q, w) == [i \in DOMAIN q |-> [key |-> q[i], val |-> w[i]]]

Entry == [key : Key, val : Val]

\* They are a sequence.
LEMMA EntriesFacts ==
    ASSUME NEW q \in Seq(Key), NEW w \in Seq(Val), Len(q) = Len(w)
    PROVE  /\ Entries(q, w) \in Seq(Entry) /\ Len(Entries(q, w)) = Len(q)
           /\ DOMAIN Entries(q, w) = 1 .. Len(q)
           /\ \A i \in 1 .. Len(q) : Entries(q, w)[i] = [key |-> q[i], val |-> w[i]]
<1>1. Len(q) \in Nat /\ DOMAIN q = 1 .. Len(q)
  BY LenProperties
<1>2. \A i \in 1 .. Len(q) : q[i] \in Key /\ w[i] \in Val
  BY ElementOfSeq
<1>3. Entries(q, w) \in [1 .. Len(q) -> Entry]
  BY <1>1, <1>2 DEF Entries, Entry
<1> QED BY <1>1, <1>3 DEF Entries

\* What a search by number finds is the entry that a search of the list finds.
LEMMA SameEntry ==
    ASSUME IInv, Idle, NEW k \in Key
    PROVE  /\ Find(k) = 0 => Ordered!At(k) = {}
           /\ Find(k) # 0 => Ordered!At(k) = {Find(k)} /\ Find(k) \in 1 .. Len(keys) /\ keys[Find(k)] = k
<1>1. /\ keys \in Seq(Key) /\ vals \in Seq(Val) /\ Len(keys) = Len(vals) /\ fill = Len(keys)
      /\ Len(keys) \in Nat /\ fill \in Nat
  BY DEF IInv, TypeOK, Idle
<1>2. Ordered!At(k) = {i \in 1 .. Len(keys) : keys[i] = k}
  <2>1. Ordered!At(k) = {i \in DOMAIN Entries(keys, vals) : Entries(keys, vals)[i].key = k}
    BY DEF Ordered!At, Entries
  <2>2. /\ DOMAIN Entries(keys, vals) = 1 .. Len(keys)
        /\ \A i \in 1 .. Len(keys) : Entries(keys, vals)[i] = [key |-> keys[i], val |-> vals[i]]
    BY <1>1, EntriesFacts
  <2>3. \A i \in 1 .. Len(keys) : Entries(keys, vals)[i].key = keys[i]
    BY <2>2
  <2> QED BY <2>1, <2>2, <2>3
<1>3. /\ \A e \in 1 .. fill : keys[e] = k => Find(k) = e
      /\ (\A e \in 1 .. fill : keys[e] # k) => Find(k) = 0
      /\ Find(k) \in 0 .. fill
  BY Search
<1>4. ASSUME Find(k) = 0
      PROVE  Ordered!At(k) = {}
  BY <1>1, <1>2, <1>3, <1>4
<1>5. ASSUME Find(k) # 0
      PROVE  Ordered!At(k) = {Find(k)} /\ Find(k) \in 1 .. Len(keys) /\ keys[Find(k)] = k
  <2>1. PICK e \in 1 .. fill : keys[e] = k
    BY <1>3, <1>5
  <2>2. Find(k) = e
    BY <1>3, <2>1
  <2> QED BY <1>1, <1>2, <1>3, <2>1, <2>2
<1> QED BY <1>4, <1>5

\* Overwriting changes the one entry that has the key.
LEMMA OverwriteRefines ==
    ASSUME IInv, NEW k \in Key, NEW v \in Val, Idle, Overwrite(k, v)
    PROVE  Ordered!Put(k, v)
<1>1. UNCHANGED <<keys, ret>> /\ vals' = [vals EXCEPT ![Find(k)] = v] /\ Find(k) # 0
  BY DEF Overwrite
<1>2. Ordered!At(k) = {Find(k)} /\ Find(k) \in 1 .. Len(keys) /\ keys[Find(k)] = k
  BY <1>1, SameEntry
<1>3. keys \in Seq(Key) /\ vals \in Seq(Val) /\ Len(keys) = Len(vals)
  BY DEF IInv, TypeOK
<1>4. /\ vals' \in Seq(Val) /\ Len(vals') = Len(vals)
      /\ \A i \in 1 .. Len(vals) : vals'[i] = IF i = Find(k) THEN v ELSE vals[i]
  BY <1>1, <1>2, <1>3, ExceptSeq
<1> DEFINE E == Entries(keys, vals)
<1>5. DOMAIN keys = 1 .. Len(keys) /\ DOMAIN E = 1 .. Len(keys)
      /\ \A i \in 1 .. Len(keys) : E[i] = [key |-> keys[i], val |-> vals[i]]
  BY <1>3, EntriesFacts, LenProperties
<1>6. Entries(keys', vals') =
          [i \in DOMAIN E |-> IF i \in Ordered!At(k) THEN [key |-> k, val |-> v] ELSE E[i]]
  <2>1. Entries(keys', vals') = [i \in 1 .. Len(keys) |-> [key |-> keys[i], val |-> vals'[i]]]
    BY <1>1, <1>5 DEF Entries
  <2>2. ASSUME NEW i \in 1 .. Len(keys)
        PROVE  [key |-> keys[i], val |-> vals'[i]] =
               IF i \in Ordered!At(k) THEN [key |-> k, val |-> v] ELSE E[i]
    <3>1. CASE i = Find(k)
      BY <1>2, <1>3, <1>4, <3>1
    <3>2. CASE i # Find(k)
      BY <1>2, <1>3, <1>4, <1>5, <3>2
    <3> QED BY <3>1, <3>2
  <2> HIDE DEF E
  <2> QED BY <1>5, <2>1, <2>2
<1> QED BY <1>1, <1>2, <1>6 DEF Ordered!Put, Entries

\* A new entry comes last.
LEMMA InsertRefines ==
    ASSUME IInv, NEW k \in Key, NEW v \in Val, Idle, Insert(k, v)
    PROVE  Ordered!Put(k, v)
<1>1. keys' = Append(keys, k) /\ vals' = Append(vals, v) /\ ret' = ret /\ Find(k) = 0
  BY DEF Insert, InsertWhen
<1>2. Ordered!At(k) = {}
  BY <1>1, SameEntry
<1>3. keys \in Seq(Key) /\ vals \in Seq(Val) /\ Len(keys) = Len(vals) /\ Len(keys) \in Nat
  BY DEF IInv, TypeOK
<1> DEFINE E == Entries(keys, vals)
           e == [key |-> k, val |-> v]
<1>4. /\ keys' \in Seq(Key) /\ Len(keys') = Len(keys) + 1
      /\ \A i \in 1 .. Len(keys) : keys'[i] = keys[i]
      /\ keys'[Len(keys) + 1] = k
  BY <1>1, <1>3, AppendProperties
<1>5. /\ vals' \in Seq(Val) /\ Len(vals') = Len(keys) + 1
      /\ \A i \in 1 .. Len(keys) : vals'[i] = vals[i]
      /\ vals'[Len(keys) + 1] = v
  BY <1>1, <1>3, AppendProperties
<1>6. /\ E \in Seq(Entry) /\ Len(E) = Len(keys)
      /\ \A i \in 1 .. Len(keys) : E[i] = [key |-> keys[i], val |-> vals[i]]
  BY <1>3, EntriesFacts
<1>7. /\ Entries(keys', vals') \in Seq(Entry) /\ Len(Entries(keys', vals')) = Len(keys')
      /\ \A i \in 1 .. Len(keys') : Entries(keys', vals')[i] = [key |-> keys'[i], val |-> vals'[i]]
  BY <1>4, <1>5, EntriesFacts
<1> HIDE DEF E
<1>8. e \in Entry
  BY DEF Entry
<1>9. /\ Append(E, e) \in Seq(Entry) /\ Len(Append(E, e)) = Len(E) + 1
      /\ \A i \in 1 .. Len(E) : Append(E, e)[i] = E[i]
      /\ Append(E, e)[Len(E) + 1] = e
  BY <1>6, <1>8, AppendProperties
<1>10. Entries(keys', vals') = Append(E, e)
  <2>1. ASSUME NEW i \in 1 .. Len(keys')
        PROVE  Entries(keys', vals')[i] = Append(E, e)[i]
    <3>0. Entries(keys', vals')[i] = [key |-> keys'[i], val |-> vals'[i]]
      BY <1>7
    <3>1. CASE i \in 1 .. Len(keys)
      <4>1. keys'[i] = keys[i] /\ vals'[i] = vals[i] /\ E[i] = [key |-> keys[i], val |-> vals[i]]
        BY <1>4, <1>5, <1>6, <3>1
      <4>2. Append(E, e)[i] = E[i]
        BY <1>6, <1>9, <3>1
      <4> QED BY <3>0, <4>1, <4>2
    <3>2. CASE i = Len(keys) + 1
      <4>1. keys'[i] = k /\ vals'[i] = v
        BY <1>4, <1>5, <3>2
      <4>2. Append(E, e)[i] = e
        BY <1>6, <1>9, <3>2
      <4> QED BY <3>0, <4>1, <4>2
    <3>3. i \in 1 .. Len(keys) \/ i = Len(keys) + 1
      BY <1>3, <1>4
    <3> QED BY <3>1, <3>2, <3>3
  <2>2. Len(Entries(keys', vals')) = Len(Append(E, e))
    BY <1>4, <1>6, <1>7, <1>9
  <2> QED BY <1>7, <1>9, <2>1, <2>2, SeqEqual
<1> QED BY <1>1, <1>2, <1>10 DEF Ordered!Put, Entries, E

\* Removing takes the entry out of both lists.
LEMMA RemoveRefines ==
    ASSUME IInv, NEW k \in Key, Remove(k)
    PROVE  Ordered!Remove(k)
<1> DEFINE f == Find(k)
           E == Entries(keys, vals)
<1>1. keys' = Without(keys, f) /\ vals' = Without(vals, f) /\ ret' = ret /\ f # 0 /\ Idle
  BY DEF Remove
<1>2. Ordered!At(k) = {f} /\ f \in 1 .. Len(keys)
  BY <1>1, SameEntry
<1>3. keys \in Seq(Key) /\ vals \in Seq(Val) /\ Len(keys) = Len(vals) /\ Len(keys) \in Nat
  BY DEF IInv, TypeOK
<1> HIDE DEF f
<1>4. /\ keys' \in Seq(Key) /\ Len(keys') = Len(keys) - 1
      /\ \A i \in 1 .. Len(keys) - 1 : keys'[i] = IF i < f THEN keys[i] ELSE keys[i + 1]
  BY <1>1, <1>2, <1>3, Removal
<1>5. /\ vals' \in Seq(Val) /\ Len(vals') = Len(keys) - 1
      /\ \A i \in 1 .. Len(keys) - 1 : vals'[i] = IF i < f THEN vals[i] ELSE vals[i + 1]
  BY <1>1, <1>2, <1>3, Removal
<1>6. /\ E \in Seq(Entry) /\ Len(E) = Len(keys)
      /\ \A i \in 1 .. Len(keys) : E[i] = [key |-> keys[i], val |-> vals[i]]
  BY <1>3, EntriesFacts
<1>7. /\ Entries(keys', vals') \in Seq(Entry) /\ Len(Entries(keys', vals')) = Len(keys')
      /\ \A i \in 1 .. Len(keys') : Entries(keys', vals')[i] = [key |-> keys'[i], val |-> vals'[i]]
  BY <1>4, <1>5, EntriesFacts
<1> HIDE DEF E
<1>8. /\ Without(E, f) \in Seq(Entry) /\ Len(Without(E, f)) = Len(E) - 1
      /\ \A i \in 1 .. Len(E) - 1 : Without(E, f)[i] = IF i < f THEN E[i] ELSE E[i + 1]
  BY <1>2, <1>6, Removal
<1>9. Entries(keys', vals') = Without(E, f)
  <2>1. ASSUME NEW i \in 1 .. Len(keys')
        PROVE  Entries(keys', vals')[i] = Without(E, f)[i]
    <3>1. i \in 1 .. Len(keys) - 1 /\ i \in 1 .. Len(keys) /\ i + 1 \in 1 .. Len(keys)
      BY <1>3, <1>4
    <3>2. CASE i < f
      BY <1>4, <1>5, <1>6, <1>7, <1>8, <3>1, <3>2
    <3>3. CASE ~(i < f)
      BY <1>4, <1>5, <1>6, <1>7, <1>8, <3>1, <3>3
    <3> QED BY <3>2, <3>3
  <2>2. Len(Entries(keys', vals')) = Len(Without(E, f))
    BY <1>4, <1>6, <1>7, <1>8
  <2> QED BY <1>7, <1>8, <2>1, <2>2, SeqEqual
<1> QED BY <1>1, <1>2, <1>9 DEF Ordered!Remove, Entries, Without, E

\* A look-up answers as a search of the list does.
LEMMA GetRefines ==
    ASSUME IInv, NEW k \in Key, Get(k)
    PROVE  Ordered!Get(k)
<1>1. UNCHANGED <<keys, vals>> /\ Idle /\ ret' = IF Find(k) = 0 THEN Missing ELSE vals[Find(k)]
  BY DEF Get
<1>2. CASE Find(k) = 0
  BY <1>1, <1>2, SameEntry DEF Ordered!Get
<1>3. CASE Find(k) # 0
  <2>1. Ordered!At(k) = {Find(k)} /\ Find(k) \in 1 .. Len(keys)
    BY <1>1, <1>3, SameEntry
  <2>2. keys \in Seq(Key) /\ vals \in Seq(Val) /\ Len(keys) = Len(vals)
    BY DEF IInv, TypeOK
  <2>3. Entries(keys, vals)[Find(k)].val = vals[Find(k)]
    <3>1. \A i \in 1 .. Len(keys) : Entries(keys, vals)[i] = [key |-> keys[i], val |-> vals[i]]
      BY <2>2, EntriesFacts
    <3>2. Entries(keys, vals)[Find(k)] = [key |-> keys[Find(k)], val |-> vals[Find(k)]]
      BY <2>1, <3>1
    <3> QED BY <3>2
  <2> QED BY <1>1, <1>3, <2>1, <2>3 DEF Ordered!Get, Entries
<1> QED BY <1>2, <1>3

\* Every step is one of the ordered map, or changes nothing there.
LEMMA StepRefines == IInv /\ [Next]_vars => [Ordered!Next]_(Ordered!vars)
<1> SUFFICES ASSUME IInv, [Next]_vars PROVE [Ordered!Next]_(Ordered!vars)
  OBVIOUS
<1>1. CASE Reindex
  BY <1>1 DEF Reindex, Ordered!vars
<1>2. ASSUME NEW k \in Key, Remove(k) PROVE Ordered!Next
  BY <1>2, RemoveRefines DEF Ordered!Next
<1>3. ASSUME NEW k \in Key, Get(k) PROVE Ordered!Next
  BY <1>3, GetRefines DEF Ordered!Next
<1>4. ASSUME NEW k \in Key, NEW v \in Val, Put(k, v) PROVE Ordered!Next
  <2>1. Ordered!Put(k, v)
    BY <1>4, OverwriteRefines, InsertRefines DEF Put
  <2> QED BY <2>1 DEF Ordered!Next
<1>5. CASE UNCHANGED vars
  BY <1>5 DEF vars, Ordered!vars
<1> QED BY <1>1, <1>2, <1>3, <1>4, <1>5 DEF Next

-----------------------------------------------------------------------------
(* Theorems.                                                               *)

\* The inductive invariant, the type invariant included, holds for every set of
\* keys and every hash function, whatever is put and removed.
THEOREM Invariance == Spec => []IInv
<1> QED BY Initially, StepKeeps, PTL DEF Spec

\* The type invariant: the index is as long as `cap` says, its slots and the
\* fields of every entry are in their ranges.
THEOREM TypeCorrect == Spec => []TypeOK
<1>1. IInv => TypeOK
  BY DEF IInv
<1> QED BY <1>1, Invariance, PTL

\* find and insert come to an empty slot, at the latest, for every key: neither
\* loops for ever.
THEOREM NoEndlessProbe == Spec => []ProbesEnd
<1>1. IInv => ProbesEnd
  BY ProbesAlwaysEnd DEF IInv
<1> QED BY <1>1, Invariance, PTL

\* find finds what is in the index, and nothing else, after removals and growth.
THEOREM Exactness == Spec => []FindIsExact
<1>1. IInv => FindIsExact
  <2> SUFFICES ASSUME IInv, NEW k \in Key
               PROVE  Find(k) = IF \E e \in 1 .. fill : keys[e] = k
                                THEN CHOOSE e \in 1 .. fill : keys[e] = k
                                ELSE 0
    BY DEF FindIsExact
  <2>1. CASE \E e \in 1 .. fill : keys[e] = k
    <3> DEFINE c == CHOOSE e \in 1 .. fill : keys[e] = k
    <3>1. c \in 1 .. fill /\ keys[c] = k
      BY <2>1
    <3> HIDE DEF c
    <3>2. Find(k) = c
      BY <3>1, Search
    <3> QED BY <2>1, <3>2 DEF c
  <2>2. CASE ~ \E e \in 1 .. fill : keys[e] = k
    BY <2>2, Search
  <2> QED BY <2>1, <2>2
<1> QED BY <1>1, Invariance, PTL

\* The hash map is the ordered map: no call can tell that there is an index.
THEOREM Refinement == Spec => IsOrderedMap
<1>1. Init => Ordered!Init
  BY DEF Init, Ordered!Init
<1> QED BY <1>1, StepRefines, Invariance, PTL DEF Spec, IsOrderedMap, Ordered!Spec
=============================================================================
