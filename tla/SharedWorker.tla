---------------------------- MODULE SharedWorker ----------------------------
(***************************************************************************)
(* What UCX asks of the threads that share a worker it made SERIALIZED or  *)
(* MULTI, or SINGLE: one thread at a time is in a call on the worker, a    *)
(* thread that may be; the one that gives the worker up says so first, is  *)
(* the only one in it from then on, and it alone destroys it.              *)
(***************************************************************************)
CONSTANT Thread

VARIABLES
    home,         \* the threads that may use the worker
    users,        \* the threads in a UCX call on it
    closing,      \* the thread that has announced the end, if any has
    gone          \* UCX has destroyed the worker

shared == <<home, users, closing, gone>>

\* Its creator is in the call that made the worker.
SharedInit ==
    /\ home \in SUBSET Thread
    /\ \E t \in home : users = {t}
    /\ closing = {}
    /\ gone = FALSE

Enter(t) ==
    /\ users = {} /\ ~gone
    /\ t \in home /\ closing \subseteq {t}
    /\ users' = {t}
    /\ UNCHANGED <<home, closing, gone>>

Leave(t) ==
    /\ users = {t}
    /\ users' = {}
    /\ UNCHANGED <<home, closing, gone>>

\* The end is announced and the worker entered; from now on it is t's.
Close(t) ==
    /\ users = {} /\ closing = {} /\ ~gone
    /\ t \in home
    /\ users' = {t}
    /\ closing' = {t}
    /\ UNCHANGED <<home, gone>>

Destroy(t) ==
    /\ users = {t} /\ closing = {t} /\ ~gone
    /\ users' = {}
    /\ closing' = {}
    /\ gone' = TRUE
    /\ UNCHANGED home

SharedNext == \E t \in Thread : Enter(t) \/ Leave(t) \/ Close(t) \/ Destroy(t)

SharedSpec == SharedInit /\ [][SharedNext]_shared
=============================================================================
