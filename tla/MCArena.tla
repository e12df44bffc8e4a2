------------------------------ MODULE MCArena ------------------------------
(* Arena on a small heap: standard blocks of two words and a pool of one.  *)
EXTENDS Arena, TLC

\* 8 bytes: half a block; 12: a whole block after rounding; 20: more than one.
MCSizes == {8, 12, 20}

BlockSymmetry == Permutations(Blocks)
=============================================================================
