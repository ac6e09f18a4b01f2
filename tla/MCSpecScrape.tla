----------------------------- MODULE MCSpecScrape -----------------------------
(* An instance of SpecScrape for TLC: two clients, one label combination of *)
(* which both return rows, one of which only the second does; columns that  *)
(* rise, fall and are negative, with or without a scale that turns their    *)
(* sign.                                                                    *)
EXTENDS SpecScrape, TLC

CONSTANTS c1, c2, k1, k2, r1, r2

Overlap == c1 :> {k1} @@ c2 :> {k1, k2}

SomeAmounts == {-1, 1, 2}
SomeScales  == {0, -1}

Symmetry == Permutations(Readers)
===============================================================================
