----------------------------- MODULE MCRequests -----------------------------
(* Small instances of Requests.                                            *)
EXTENDS Requests, TLC

CONSTANTS v1, v2, b1, w1, w2

MCVar    == {v1, v2}
MCWorker == {w1, w2}
MCErrStatus == {UCS_ERR_IO_ERROR, UCS_ERR_LAST}

\* Programs treat variables and workers alike.
Symm == Permutations(MCVar) \cup Permutations(MCWorker)
=============================================================================
