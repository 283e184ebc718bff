----------------------------- MODULE MCListener -----------------------------
(* Small instances of Listener.                                            *)
EXTENDS Listener, TLC

CONSTANTS r1, r2, r3

Symm == Permutations({r1, r2, r3})
=============================================================================
