------------------------------ MODULE MCSync ------------------------------
(* Sync on small instances.                                                *)
EXTENDS Sync, TLC

CONSTANTS c1, c2, s1, s2, x, y, none

(* Browsers, servers and shapes are interchangeable.                       *)
Symmetry ==
  Permutations(Clients) \cup Permutations(Servers) \cup Permutations(Shapes)
============================================================================
