----------------------------- MODULE MCHashMap ------------------------------
(* Three keys under every hash function to four hash values, which share   *)
(* slots and wrap around; two slots to begin with, so that the index grows *)
(* twice.                                                                  *)
EXTENDS HashMap

CONSTANTS a, b, c, x, y, none

MCKey == {a, b, c}
MCVal == {x, y}
MCHashes == [MCKey -> {0, 1, 3, 7}]
=============================================================================
