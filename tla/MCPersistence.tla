--------------------------- MODULE MCPersistence ---------------------------
(* Persistence on small instances.                                         *)
EXTENDS Persistence, TLC

CONSTANTS a, b, c, k1, k2, x, y, none

(* Boards, coordinators and shapes are interchangeable (safety runs only). *)
Symmetry ==
  Permutations(Boards) \cup Permutations(Coordinators) \cup Permutations(Shapes)
============================================================================
