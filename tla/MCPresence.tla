---------------------------- MODULE MCPresence ----------------------------
(* Presence on small instances.                                            *)
EXTENDS Presence, TLC

CONSTANTS s1, s2, none

(* Servers are interchangeable (safety runs only).                         *)
Symmetry == Permutations(Servers)
============================================================================
