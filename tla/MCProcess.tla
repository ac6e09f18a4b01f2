------------------------------- MODULE MCProcess -------------------------------
(* An instance of Process for TLC: two requests, two collectors.            *)
EXTENDS Process

CONSTANTS s1, s2, t1, k1, k2
===============================================================================
