------------------------------ MODULE MCServer ------------------------------
(* Server on small instances.                                              *)
EXTENDS Server

CONSTANTS s1, s2, b1, b2, none
============================================================================
