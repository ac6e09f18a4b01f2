---------------------------- MODULE MCCounterDelta ----------------------------
(* An instance of CounterDelta for TLC: two database clients whose servers  *)
(* have rows with one label combination.                                    *)
EXTENDS CounterDelta, TLC

CONSTANTS c1, c2, k1, r1, r2

SharedKey == c1 :> k1 @@ c2 :> k1

Symmetry == Permutations({r1, r2}) \cup Permutations({c1, c2})
===============================================================================
