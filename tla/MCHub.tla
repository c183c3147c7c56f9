------------------------------- MODULE MCHub -------------------------------
(* Hub on small instances.                                                 *)
EXTENDS Hub, TLC

CONSTANTS s1, s2, s3, b1, b2, none

(* Sessions are interchangeable (safety runs only).                        *)
SessionSymmetry == Permutations(Sessions)
============================================================================
