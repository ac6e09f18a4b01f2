----------------------------- MODULE MCVersionGate -----------------------------
(* Instances of VersionGate for TLC: Select functions of every gate shape,  *)
(* servers on both sides of the gates and exactly at them.                  *)
EXTENDS VersionGate, TLC

CONSTANTS g1, g2, g3

Supported == {130022, 140000, 150014, 160010, 170000, 180000}
===============================================================================
