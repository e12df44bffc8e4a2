------------------------------ MODULE HashMap -------------------------------
(***************************************************************************)
(* The HashMap of stdlib/hashmap.hy: entries in insertion order, and an    *)
(* open-addressed index of entry numbers.                                  *)
(*                                                                         *)
(* A call is one action, except that the loop of rebuild takes an action   *)
(* per entry (Reindex), during which no call can start: the language has   *)
(* no threads.  Sequences count from 1 where the arrays of the code count  *)
(* from 0, so that an index entry is the number of its key; slots count    *)
(* from 0.                                                                 *)
(***************************************************************************)
EXTENDS Integers, Sequences, FiniteSets

CONSTANTS
    Key, Val,
    Missing,    \* the answer of get when there is no such key
    Hashes,     \* the hash functions _hm_hash may be
    InitCap     \* the slots of a new map (16)

\* _hm_hash clears the sign of what overflowed.
ASSUME MapAssumption ==
    /\ Hashes \subseteq [Key -> Nat]
    /\ InitCap \in Nat \ {0}
    /\ Missing \notin Val

VARIABLES
    hash,       \* _hm_hash
    keys, vals, \* the entries
    index,      \* per slot: the number of an entry, or 0
    cap,        \* the number of slots
    fill,       \* the entries that are in the index: all, but for a rebuild
    ret         \* what the last get returned

vars == <<hash, keys, vals, index, cap, fill, ret>>

Slots == 0 .. cap - 1
Empty(c) == [s \in 0 .. c - 1 |-> 0]

Init ==
    /\ hash \in Hashes
    /\ keys = <<>>
    /\ vals = <<>>
    /\ cap = InitCap
    /\ index = Empty(InitCap)
    /\ fill = 0
    /\ ret = Missing

-----------------------------------------------------------------------------
(* Probing.                                                                *)

\* The slot that the probe for k looks at after j others.
Nth(k, j) == (hash[k] + j) % cap

\* The probes at which a search for k ends, and those at which an insertion
\* does; the code loops for ever when there is none.
Ends(k) == {j \in Slots : index[Nth(k, j)] = 0 \/ keys[index[Nth(k, j)]] = k}
Free(k) == {j \in Slots : index[Nth(k, j)] = 0}

First(S) == CHOOSE j \in S : \A h \in S : j <= h

\* find: the number of k's entry, 0 when there is none.
Find(k) == index[Nth(k, First(Ends(k)))]

\* Where an insertion of k puts it.
SlotFor(k) == Nth(k, First(Free(k)))

-----------------------------------------------------------------------------

Idle == fill = Len(keys)

Overwrite(k, v) ==
    /\ Find(k) # 0
    /\ vals' = [vals EXCEPT ![Find(k)] = v]
    /\ UNCHANGED <<hash, keys, index, cap, fill, ret>>

\* rebuild begins: an empty index of c slots.
Restart(c) ==
    /\ cap' = c
    /\ index' = Empty(c)
    /\ fill' = 0

\* (Mutant: the index grows only when it is full.)
InsertWhen(tooFull, k, v) ==
    /\ Find(k) = 0
    /\ keys' = Append(keys, k)
    /\ vals' = Append(vals, v)
    /\ IF tooFull
          THEN Restart(cap * 2)
          ELSE /\ index' = [index EXCEPT ![SlotFor(k)] = Len(keys) + 1]
               /\ fill' = fill + 1
               /\ UNCHANGED cap
    /\ UNCHANGED <<hash, ret>>

InsertUntilFull(k, v) == InsertWhen(Len(keys) + 1 > cap, k, v)

Insert(k, v) == InsertWhen((Len(keys) + 1) * 2 > cap, k, v)

Put(k, v) == Idle /\ (Overwrite(k, v) \/ Insert(k, v))

Without(q, e) == SubSeq(q, 1, e - 1) \o SubSeq(q, e + 1, Len(q))

\* (Mutants: the last value goes instead of the removed one; the index is not
\* rebuilt, the entry's slot is cleared.)
RemoveKeyOnly(k) ==
    /\ Idle
    /\ Find(k) # 0
    /\ keys' = Without(keys, Find(k))
    /\ vals' = SubSeq(vals, 1, Len(vals) - 1)
    /\ Restart(cap)
    /\ UNCHANGED <<hash, ret>>

RemoveClearingSlot(k) ==
    /\ Idle
    /\ Find(k) # 0
    /\ keys' = Without(keys, Find(k))
    /\ vals' = Without(vals, Find(k))
    /\ index' = [s \in Slots |-> CASE index[s] = Find(k) -> 0
                                   [] index[s] > Find(k) -> index[s] - 1
                                   [] OTHER -> index[s]]
    /\ fill' = fill - 1
    /\ UNCHANGED <<hash, cap, ret>>

Remove(k) ==
    /\ Idle
    /\ Find(k) # 0
    /\ keys' = Without(keys, Find(k))
    /\ vals' = Without(vals, Find(k))
    /\ Restart(cap)
    /\ UNCHANGED <<hash, ret>>

\* One round of rebuild's second loop.
Reindex ==
    /\ ~Idle
    /\ index' = [index EXCEPT ![SlotFor(keys[fill + 1])] = fill + 1]
    /\ fill' = fill + 1
    /\ UNCHANGED <<hash, keys, vals, cap, ret>>

Get(k) ==
    /\ Idle
    /\ ret' = IF Find(k) = 0 THEN Missing ELSE vals[Find(k)]
    /\ UNCHANGED <<hash, keys, vals, index, cap, fill>>

Next == Reindex \/ \E k \in Key : Remove(k) \/ Get(k) \/ \E v \in Val : Put(k, v)

Spec == Init /\ [][Next]_vars

-----------------------------------------------------------------------------

\* The types of the map's parts: slots, keys and values in their ranges.
TypeOK ==
    /\ hash \in Hashes
    /\ keys \in Seq(Key)
    /\ vals \in Seq(Val)
    /\ Len(vals) = Len(keys)
    /\ cap \in Nat \ {0}
    /\ index \in [Slots -> 0 .. Len(keys)]
    /\ fill \in 0 .. Len(keys)
    /\ ret \in Val \union {Missing}

\* Every probe comes to an end, for every key, present or not, in the middle of
\* a rebuild as well: there is always an empty slot ahead.
ProbesEnd == \A k \in Key : Ends(k) # {} /\ Free(k) # {}

\* The index leads to every entry that is in it, and to nothing else; in
\* between, no slot between a key's home and its entry has become empty.
FindIsExact ==
    \A k \in Key : Find(k) = IF \E e \in 1 .. fill : keys[e] = k
                             THEN CHOOSE e \in 1 .. fill : keys[e] = k
                             ELSE 0

\* The map with its index is an ordered map without: what get returns, what
\* put overwrites and remove removes is what a search of the list would find.
Ordered == INSTANCE OrderedMap
               WITH entries <- [i \in DOMAIN keys |-> [key |-> keys[i], val |-> vals[i]]]
IsOrderedMap == Ordered!Spec
=============================================================================
