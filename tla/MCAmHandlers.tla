---------------------------- MODULE MCAmHandlers ----------------------------
(* Small instances of AmHandlers.                                          *)
EXTENDS AmHandlers

CONSTANTS i1, i2, a1, a2, s1, s2
=============================================================================
