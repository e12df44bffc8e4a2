------------------------------- MODULE Arena -------------------------------
(***************************************************************************)
(* The arena allocator behind `new` (stdlib/mem.hy), together with the     *)
(* protocol the compiler wraps around it (compiler/lower.c): every         *)
(* function that allocates starts with arena_init on its own slot and runs *)
(* arena_free on it before each return, and calls nest.                    *)
(*                                                                         *)
(* A linked chain of blocks is the sequence of its blocks, head first; the *)
(* slot holds the head, and is 0 when the sequence is empty.  Sizes are in *)
(* 8-byte words: mem.hy rounds every request up to a multiple of 8 and     *)
(* ARENA_BLOCK_SIZE is one.  The program is single threaded.  arena_free's *)
(* loop is one action per iteration; everything else waits for it.         *)
(***************************************************************************)
EXTENDS Naturals, Sequences, FiniteSets, Functions

CONSTANTS
    Blocks,             \* BOUND: the mappings mmap can give out
    MaxDepth,           \* BOUND: how deep the calls nest
    Sizes,              \* the object sizes the program asks for, in bytes
    ARENA_BLOCK_SIZE,   \* capacity of a standard block, in words
    ARENA_POOL_MAX      \* how many blocks the pool may hold

ASSUME ArenaAssumption ==
    /\ MaxDepth \in Nat
    /\ Sizes \subseteq Nat \ {0}
    /\ ARENA_BLOCK_SIZE \in Nat \ {0}
    /\ ARENA_POOL_MAX \in Nat

VARIABLES
    chain,      \* chain[a]: the blocks of arena a, newest first
    pool,       \* ARENA_POOL: the recycled standard blocks, newest first
    poolCount,  \* ARENA_POOL_COUNT
    mapped,     \* the blocks mmap has given out and munmap has not taken back
    used,       \* header word 1 of each block
    cap,        \* header word 2 of each block
    dirty,      \* the words <<block, offset>> whose content is not 0
    objects,    \* the objects the program may still use
    depth,      \* arenas open; arena d belongs to the d-th frame
    freeing     \* TRUE while arena_free runs on the slot of the top frame

vars == <<chain, pool, poolCount, mapped, used, cap, dirty, objects, depth, freeing>>

MULTI_ARENA == 0        \* the static slot; never passed to arena_free
Arenas == 0 .. MaxDepth

Aligned(size) == (size + 7) \div 8

WordsOf(o) == {<<o.block, i>> : i \in o.at .. o.at + o.len - 1}
LiveWords(objs) == UNION {WordsOf(o) : o \in objs}

Init ==
    /\ chain = [a \in Arenas |-> <<>>]
    /\ pool = <<>>
    /\ poolCount = 0
    /\ mapped = {}
    /\ used = [b \in Blocks |-> 0]
    /\ cap = [b \in Blocks |-> 0]
    /\ dirty = {}
    /\ objects = {}
    /\ depth = 0
    /\ freeing = FALSE

-----------------------------------------------------------------------------
(* arena_init: the prologue of a function that uses `new`.  It only clears *)
(* the slot; the first block is taken by the first allocation.             *)

Enter ==
    /\ ~freeing
    /\ depth < MaxDepth
    /\ depth' = depth + 1
    /\ chain' = [chain EXCEPT ![depth + 1] = <<>>]
    /\ UNCHANGED <<pool, poolCount, mapped, used, cap, dirty, objects, freeing>>

-----------------------------------------------------------------------------
(* _arena_new_block *)

FromPool(n) == n <= ARENA_BLOCK_SIZE /\ pool # <<>>

\* (Mutant: the head is handed out but stays on the list.)
PopWithoutUnlink(n, b) ==
    /\ FromPool(n)
    /\ b = Head(pool)
    /\ poolCount' = poolCount - 1
    /\ UNCHANGED <<mapped, cap, pool>>

\* Block b is what a request for n words gets; it comes off the pool ...
PopPooled(n, b) ==
    /\ FromPool(n)
    /\ b = Head(pool)
    /\ pool' = Tail(pool)
    /\ poolCount' = poolCount - 1
    /\ UNCHANGED <<mapped, cap>>

\* ... or is a fresh mapping, zero throughout.
MapFresh(n, b) ==
    /\ ~FromPool(n)
    /\ b \in Blocks \ mapped
    /\ mapped' = mapped \union {b}
    /\ cap' = [cap EXCEPT ![b] = IF n < ARENA_BLOCK_SIZE THEN ARENA_BLOCK_SIZE ELSE n]
    /\ UNCHANGED <<pool, poolCount>>

-----------------------------------------------------------------------------
(* arena_alloc *)

\* (Mutant: the bump pointer stays on the last word of the object.)
BumpOneShort(a, b, at, n) ==
    /\ used' = [used EXCEPT ![b] = at + n - 1]
    /\ objects' = objects \union {[owner |-> a, block |-> b, at |-> at, len |-> n]}
    /\ UNCHANGED <<dirty, depth, freeing>>

\* n words at offset `at` of block b become an object of arena a.
Bump(a, b, at, n) ==
    /\ used' = [used EXCEPT ![b] = at + n]
    /\ objects' = objects \union {[owner |-> a, block |-> b, at |-> at, len |-> n]}
    /\ UNCHANGED <<dirty, depth, freeing>>

Fits(a, n) == used[Head(chain[a])] + n <= cap[Head(chain[a])]

\* The head block has room.
AllocInHead(a, n) ==
    /\ chain[a] # <<>>
    /\ Fits(a, n)
    /\ Bump(a, Head(chain[a]), used[Head(chain[a])], n)
    /\ UNCHANGED <<chain, pool, poolCount, mapped, cap>>

\* The slot is 0: take the first block.  The bump starts at whatever the
\* block's header says; that a pooled block always says 0 is PoolIsClean.
AllocFirst(a, n) ==
    /\ chain[a] = <<>>
    /\ \E b \in Blocks :
          /\ PopPooled(n, b) \/ MapFresh(n, b)
          /\ chain' = [chain EXCEPT ![a] = <<b>>]
          /\ Bump(a, b, used[b], n)

\* The head block is full: chain a new one in front of it.
AllocGrow(a, n) ==
    /\ chain[a] # <<>>
    /\ ~Fits(a, n)
    /\ \E b \in Blocks :
          /\ PopPooled(n, b) \/ MapFresh(n, b)
          /\ chain' = [chain EXCEPT ![a] = <<b>> \o chain[a]]
          /\ Bump(a, b, 0, n)

ArenaAlloc(a, n) == AllocInHead(a, n) \/ AllocFirst(a, n) \/ AllocGrow(a, n)

\* `new C(...)` in the running function.
New ==
    /\ ~freeing
    /\ depth > 0
    /\ \E size \in Sizes : ArenaAlloc(depth, Aligned(size))

\* hylian_multi_alloc, hylian_make_err and hylian_closure_alloc.
NewForProcess ==
    /\ ~freeing
    /\ \E size \in Sizes : ArenaAlloc(MULTI_ARENA, Aligned(size))

\* The program stores something other than 0 in a word it owns.
Write ==
    /\ ~freeing
    /\ \E w \in LiveWords(objects) : dirty' = dirty \union {w}
    /\ UNCHANGED <<chain, pool, poolCount, mapped, used, cap, objects, depth, freeing>>

-----------------------------------------------------------------------------
(* arena_free, on the slot of the function that returns *)

\* The function is done with its objects; arena_free reads the slot.
Return ==
    /\ ~freeing
    /\ depth > 0
    /\ freeing' = TRUE
    /\ objects' = {o \in objects : o.owner # depth}
    /\ UNCHANGED <<chain, pool, poolCount, mapped, used, cap, dirty, depth>>

\* (Mutant: off by one at the limit.)
RecyclableAtLimit(b) == cap[b] = ARENA_BLOCK_SIZE /\ poolCount <= ARENA_POOL_MAX

Recyclable(b) == cap[b] = ARENA_BLOCK_SIZE /\ poolCount < ARENA_POOL_MAX

\* (Mutants: the block is not cleared, or all but its last used word is.)
RecycleWith(b, cleared) ==
    /\ Recyclable(b)
    /\ dirty' = dirty \ {<<b, i>> : i \in 0 .. cleared - 1}
    /\ used' = [used EXCEPT ![b] = 0]
    /\ pool' = <<b>> \o pool
    /\ poolCount' = poolCount + 1
    /\ UNCHANGED <<mapped, cap>>

RecycleDirty(b) == RecycleWith(b, 0)
RecycleOneShort(b) == RecycleWith(b, used[b] - 1)

Recycle(b) ==
    /\ Recyclable(b)
    /\ dirty' = dirty \ {<<b, i>> : i \in 0 .. used[b] - 1}
    /\ used' = [used EXCEPT ![b] = 0]
    /\ pool' = <<b>> \o pool
    /\ poolCount' = poolCount + 1
    /\ UNCHANGED <<mapped, cap>>

\* Gone.  Should mmap give the address out again, the kernel has zeroed it and
\* _arena_new_block writes a header that says 0 used.
Unmap(b) ==
    /\ ~Recyclable(b)
    /\ mapped' = mapped \ {b}
    /\ dirty' = {w \in dirty : w[1] # b}
    /\ used' = [used EXCEPT ![b] = 0]
    /\ UNCHANGED <<pool, poolCount, cap>>

\* One iteration of the loop over the chain.
FreeBlock ==
    /\ freeing
    /\ chain[depth] # <<>>
    /\ Recycle(Head(chain[depth])) \/ Unmap(Head(chain[depth]))
    /\ chain' = [chain EXCEPT ![depth] = Tail(chain[depth])]
    /\ UNCHANGED <<objects, depth, freeing>>

\* The loop ends, the slot is 0 and the frame goes away.
FreeDone ==
    /\ freeing
    /\ chain[depth] = <<>>
    /\ freeing' = FALSE
    /\ depth' = depth - 1
    /\ UNCHANGED <<chain, pool, poolCount, mapped, used, cap, dirty, objects>>

-----------------------------------------------------------------------------

Next ==
    \/ Enter \/ New \/ NewForProcess \/ Write
    \/ Return \/ FreeBlock \/ FreeDone

Spec == Init /\ [][Next]_vars

-----------------------------------------------------------------------------
BlocksOf(a) == Range(chain[a])

\* The blocks some arena holds.
Held == {b \in Blocks : \E a \in Arenas : b \in BlocksOf(a)}

Objects == [owner : Arenas, block : Blocks, at : Nat, len : Nat \ {0}]

TypeOK ==
    /\ chain \in [Arenas -> Seq(Blocks)]
    /\ pool \in Seq(Blocks)
    /\ poolCount \in Nat
    /\ mapped \subseteq Blocks
    /\ used \in [Blocks -> Nat]
    /\ cap \in [Blocks -> Nat]
    /\ dirty \subseteq Blocks \X Nat
    /\ objects \subseteq Objects
    /\ depth \in 0 .. MaxDepth
    /\ freeing \in BOOLEAN

\* A mapped block has exactly one home, an arena or the pool, and is there
\* once: a block on two lists would be handed to two functions (mem.hy's
\* pushes and pops of ARENA_POOL and of the slots' chains).  No block is lost
\* either: whatever is mapped can be reached, so that it can be freed.
OneHomePerBlock ==
    /\ \A a \in Arenas : IsInjective(chain[a]) /\ BlocksOf(a) \cap Range(pool) = {}
    /\ IsInjective(pool)
    /\ \A a, c \in Arenas : a # c => BlocksOf(a) \cap BlocksOf(c) = {}
    /\ mapped = Range(pool) \union Held

\* Memory above the bump pointer of a block is zero, and so is all of a block
\* that nobody maps or that waits in the pool ("A block goes back to the pool
\* zeroed", mem.hy:42): that is why arena_alloc never clears what it returns.
UnusedIsZero == \A w \in dirty : w[1] \in mapped /\ w[2] < used[w[1]]

\* A pooled block is a standard one and its header says empty, so that
\* arena_alloc may bump from its `used` word and may skip the capacity check.
PoolIsClean == \A b \in Range(pool) : cap[b] = ARENA_BLOCK_SIZE /\ used[b] = 0

\* ARENA_POOL_COUNT, on which the choice between recycling and munmap rests,
\* is the length of the list, and never exceeds the limit of standing memory
\* ("4 MiB of standing memory at most", mem.hy:46).
PoolCounted == poolCount = Len(pool) /\ poolCount <= ARENA_POOL_MAX

\* An object a program still holds lies below the bump pointer of a block of
\* its owner's chain, within that block's capacity: no other arena's
\* arena_free can take it away, and the next allocation starts behind it.
ObjectsAreHeld ==
    \A o \in objects :
        /\ o.block \in BlocksOf(o.owner)
        /\ o.at + o.len <= used[o.block]
        /\ used[o.block] <= cap[o.block]

\* No two objects share a word, whichever arenas they come from.
ObjectsAreDisjoint ==
    \A o, p \in objects : o # p => WordsOf(o) \cap WordsOf(p) = {}

\* A frame that has returned holds no block and no object: the slot of the
\* next call at that depth is cleared by arena_init without losing a chain.
ReturnedFramesAreEmpty ==
    /\ \A a \in Arenas : a > depth => chain[a] = <<>>
    /\ \A o \in objects : o.owner <= depth /\ (freeing => o.owner # depth)

\* mem.hy keeps the promise of ArenaHeap: a new object is fresh and zero, and
\* a return ends the lives of its own objects and of nothing else.
Heap == INSTANCE ArenaHeap WITH
    dirty <- dirty \cap LiveWords(objects),
    depth <- IF freeing THEN depth - 1 ELSE depth

HeapSpec == Heap!Spec
=============================================================================
