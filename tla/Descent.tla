------------------------------ MODULE Descent ------------------------------
(***************************************************************************)
(* What it takes to end: four natural numbers, compared from the left,     *)
(* that every step makes smaller.  No sequence of such steps is infinite.  *)
(***************************************************************************)
EXTENDS Naturals

Measure == Nat \X Nat \X Nat \X Nat

Below(m, n) ==
    \/ m[1] < n[1]
    \/ m[1] = n[1] /\ m[2] < n[2]
    \/ m[1] = n[1] /\ m[2] = n[2] /\ m[3] < n[3]
    \/ m[1] = n[1] /\ m[2] = n[2] /\ m[3] = n[3] /\ m[4] < n[4]
=============================================================================
