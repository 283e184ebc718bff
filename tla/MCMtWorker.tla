----------------------------- MODULE MCMtWorker -----------------------------
(* Small instances of MtWorker.                                            *)
EXTENDS MtWorker

CONSTANTS t1, t2, h1, h2
=============================================================================
