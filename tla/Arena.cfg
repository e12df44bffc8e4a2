\* Three mappings, two nested frames, a pool of one: every path of arena_alloc
\* and arena_free, with blocks moving between frames, pool and kernel.
SPECIFICATION Spec
CONSTANTS
    Blocks = {b1, b2, b3}
    MaxDepth = 2
    Sizes <- MCSizes
    ARENA_BLOCK_SIZE = 2
    ARENA_POOL_MAX = 1
SYMMETRY BlockSymmetry
INVARIANTS
    OneHomePerBlock
    UnusedIsZero
    PoolCounted
    ObjectsAreDisjoint
PROPERTY HeapSpec
