----------------------------- MODULE MCCapture ------------------------------
(* A pipe of three, a buffer that has to grow twice (3, 6, 12), children   *)
(* that write up to nine.                                                  *)
EXTENDS Capture

MCCodes == {0, 3}
MCSignals == {9}
=============================================================================
