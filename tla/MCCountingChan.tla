---------------------------- MODULE MCCountingChan ----------------------------
(* Instances of CountingChan for TLC.                                       *)
EXTENDS CountingChan, TLC

CONSTANTS k1, k2
===============================================================================
