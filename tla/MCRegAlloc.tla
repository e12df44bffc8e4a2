----------------------------- MODULE MCRegAlloc -----------------------------
(* The functions of MCLiveness on three registers: 0 survives calls, 1 does *)
(* not, 2 is destroyed by divides, too.                                     *)
EXTENDS RegAlloc, MCLiveness

MCRank == [r \in 0 .. 2 |-> CASE r = 0 -> 3 [] r = 1 -> 1 [] r = 2 -> 2]
MCClobbers(ins) == IF ins.op = "sdiv" THEN {2} ELSE {}
=============================================================================
