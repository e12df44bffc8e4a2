----------------------------- MODULE MCParMoves -----------------------------
(* Every list of four moves to three or four registers, one of them to a   *)
(* slot of memory in half the lists, from five registers, a slot and a     *)
(* constant.  Registers are alike, so that the destinations can be fixed.  *)
EXTENDS ParMoves

MCReg == {"r1", "r2", "r3", "r4", "r5"}
MCMem == {"m1", "m2"}
MCImm == {"k"}
Sources == MCReg \union {"m1", "k"}

MCLists ==
    {[j \in 1 .. 4 |-> [dst |-> d[j], src |-> s[j]]] :
        d \in {<<"r1", "r2", "r3", "r4">>, <<"r1", "r2", "m2", "r3">>}, s \in [1 .. 4 -> Sources]}
=============================================================================
