----------------------------- MODULE ArenaHeap -----------------------------
(***************************************************************************)
(* What `new` promises a Hylian program, with no blocks, no pool and no    *)
(* headers in sight.  Memory is a set of words; an object is a set of      *)
(* words nobody else holds, all of them zero when the program gets it; the *)
(* objects a function made end with that function, and the objects of the  *)
(* process-lifetime arena (multi values, errors, closures) never end.      *)
(*                                                                         *)
(* Arena.tla, the model of stdlib/mem.hy, is shown to implement this.      *)
(***************************************************************************)
EXTENDS Naturals

CONSTANTS
    Blocks,     \* the names of the mappings a word can lie in
    MaxDepth    \* BOUND: how deep the calls nest

VARIABLES
    objects,    \* the objects the program may use
    dirty,      \* the words of those objects that hold something other than 0
    depth       \* the number of functions on the call stack that own an arena

vars == <<objects, dirty, depth>>

Process == 0    \* the owner that never returns; owner d > 0 is the d-th frame

WordsOf(o) == {<<o.block, i>> : i \in o.at .. o.at + o.len - 1}

LiveWords(objs) == UNION {WordsOf(o) : o \in objs}

Init ==
    /\ objects = {}
    /\ dirty = {}
    /\ depth = 0

Enter ==
    /\ depth < MaxDepth
    /\ depth' = depth + 1
    /\ UNCHANGED <<objects, dirty>>

Objects == [owner : 0 .. MaxDepth, block : Blocks, at : Nat, len : Nat \ {0}]

\* A new object belongs to the running function or to the process, lies in
\* words that no live object holds, and is all zero: dirty does not grow.
New ==
    /\ \E o \in objects' :
          /\ objects' = objects \union {o}
          /\ o \in Objects
          /\ o.owner \in {depth, Process}
          /\ WordsOf(o) \cap LiveWords(objects) = {}
    /\ UNCHANGED <<dirty, depth>>

Write ==
    /\ \E w \in LiveWords(objects) : dirty' = dirty \union {w}
    /\ UNCHANGED <<objects, depth>>

\* A function's objects end with it; everyone else's are untouched.
Return ==
    /\ depth > 0
    /\ objects' = {o \in objects : o.owner # depth}
    /\ dirty' = dirty \cap LiveWords(objects')
    /\ depth' = depth - 1

Next == Enter \/ New \/ Write \/ Return

Spec == Init /\ [][Next]_vars
=============================================================================
