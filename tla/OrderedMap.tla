----------------------------- MODULE OrderedMap -----------------------------
(***************************************************************************)
(* What a HashMap promises (the head of stdlib/hashmap.hy, and             *)
(* docs/stdlib/hashmap.md): a list of entries in insertion order, with     *)
(* one entry per key.                                                      *)
(***************************************************************************)
EXTENDS Naturals, Sequences

CONSTANTS Key, Val, Missing

VARIABLES
    entries,    \* the entries [key, val], in order
    ret         \* what the last get returned

vars == <<entries, ret>>

At(k) == {i \in DOMAIN entries : entries[i].key = k}

Init == entries = <<>> /\ ret = Missing

\* "insert or overwrite"
Put(k, v) ==
    /\ IF At(k) = {}
          THEN entries' = Append(entries, [key |-> k, val |-> v])
          ELSE entries' = [i \in DOMAIN entries |->
                              IF i \in At(k) THEN [key |-> k, val |-> v] ELSE entries[i]]
    /\ UNCHANGED ret

\* "keeps the order of the rest"
Remove(k) ==
    /\ \E i \in At(k) :
          entries' = SubSeq(entries, 1, i - 1) \o SubSeq(entries, i + 1, Len(entries))
    /\ UNCHANGED ret

Get(k) ==
    /\ \/ At(k) = {} /\ ret' = Missing
       \/ \E i \in At(k) : ret' = entries[i].val
    /\ UNCHANGED entries

Next == \E k \in Key : Remove(k) \/ Get(k) \/ \E v \in Val : Put(k, v)

Spec == Init /\ [][Next]_vars
=============================================================================
