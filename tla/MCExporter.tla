------------------------------ MODULE MCExporter ------------------------------
(* Instances of Exporter for TLC.  Scrapes are symmetric; collectors are     *)
(* not, since one of them may do without a connection, nor are the clients,  *)
(* whose pools Shutdown closes in order.                                     *)
EXTENDS Exporter, TLC

CONSTANTS s1, s2, t1, t2, p1, k1, k2

Symmetry == Permutations({s1, s2})
===============================================================================
