------------------------------- MODULE MCSeries -------------------------------
(* Instances of Series for TLC: two clients, one label combination of which *)
(* both return rows, one of which only the second does.                     *)
EXTENDS Series, TLC

CONSTANTS c1, c2, k1, k2, r1, r2

Overlap == c1 :> {k1} @@ c2 :> {k1, k2}

Symmetry == Permutations(Readers)
===============================================================================
